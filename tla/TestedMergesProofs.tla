-------------------------- MODULE TestedMergesProofs -------------------------
(****************************************************************************)
(* Proofs about TestedMerges, for any number of agents, branches, documents,*)
(* tests and variants of the compiler's output.                             *)
(*                                                                          *)
(* Evidence stays true for two reasons.  What it describes never changes:   *)
(* revisions are immutable, so that a virtual merge reconstructed later is  *)
(* the one that was tested (StateKept).  What it rests on is never taken    *)
(* away by those who publish: a good build is not replaced, nor is any      *)
(* build of a virtual merge (BuildsStay).  Calls work from what they read   *)
(* long before; EvidenceInv says what they may still rely on (CallOK).      *)
(****************************************************************************)
EXTENDS TestedMerges, RevisionLogProofs

Subject == [target : Keys, source : Keys, base : Nat, left : Nat, right : Nat]

Build == [subject : Subject, ok : BOOLEAN, from : Snapshots, executable : Executables \cup {"none"}]

TestResult == [test : Modules, definition : Nat, outcome : {"passed", "failed", "error"},
               run : Nat, ran : Snapshots \cup {<< >>}]

Run == [subject : Subject, test : Modules, definition : Nat, outcome : {"passed", "failed"},
        ran : Snapshots]

Batch == [subject : Subject, results : Seq(TestResult)]

Qualification == [subject : Subject, build : Build, results : Seq(TestResult),
                  current : BOOLEAN, at : Nat]

Attestation == [qualification : Nat, revision : Nat]

Compiling == {"build", "publish", "read"}
Executing == {"hash", "sandbox"}
Completing == {"target", "compare", "qualified"}

Call == [pc : {"idle", "source", "batch"} \cup Compiling \cup Executing \cup Completing,
         kind : {"none", "run", "batch", "qualification"},
         subject : Subject, state : Snapshots \cup {<< >>}, selection : Seq(Modules),
         results : Seq(TestResult), build : Build \cup {<< >>}, at : Nat, current : BOOLEAN]

\* The revisions of a subject exist.
Existing(s) ==
  /\ s.left \in RevIds
  /\ s.right # NoRev => s.base \in RevIds /\ s.right \in RevIds

\* A build is what was made of its subject, whoever made it and when.
Made(b) == Existing(b.subject) /\ b.from = StateOf(b.subject)

\* Of the first n revisions, none on branch k is later than r.
NoneLater(k, r, n) ==
  \A i \in 1 .. n : <<revs[i].project, revs[i].branch>> = k => i <= r

CallOK(c) ==
  /\ c.pc # "idle" => c.kind # "none"
  /\ c.pc = "source" =>
        c.subject.left \in RevIds /\ heads[c.subject.source] # NoRev /\ c.results = << >>
  /\ c.pc \notin {"idle", "source"} =>
        /\ Existing(c.subject)
        /\ c.state = StateOf(c.subject)
        /\ Describes(c.results, c.state)
        /\ c.kind = "batch" => BatchVerifies(c)
        /\ c.kind = "qualification" => c.subject.right # NoRev
  /\ c.pc \in {"source"} \cup Compiling \cup Executing => Len(c.results) < Len(c.selection)
  /\ c.pc = "publish" => c.build \in Build /\ c.build.subject = c.subject /\ Made(c.build)
  /\ c.pc = "batch" => c.kind = "batch"
  /\ c.pc \in {"source"} \cup Completing => c.kind = "qualification"
  /\ c.pc \in Completing => c.at <= Len(revs)
  /\ c.pc \in {"compare", "qualified"} /\ c.current =>
        NoneLater(c.subject.target, c.subject.left, c.at)
  /\ c.pc = "qualified" /\ c.current =>
        NoneLater(c.subject.source, c.subject.right, c.at)

QualificationOK(q) ==
  /\ Existing(q.subject) /\ q.subject.right # NoRev
  /\ Describes(q.results, StateOf(q.subject))
  /\ q.at <= Len(revs)
  /\ q.current => /\ NoneLater(q.subject.target, q.subject.left, q.at)
                  /\ NoneLater(q.subject.source, q.subject.right, q.at)
  /\ q.subject \notin touched => QualificationVerifies(q)

AttestationOK(t) ==
  /\ t.qualification \in DOMAIN qualifications
  /\ t.revision \in RevIds
  /\ ExactMerge(qualifications[t.qualification], t.revision)

\* Whatever was committed on a branch is no later than its head.
HeadsLatest ==
  \A r \in RevIds : \A k \in Keys :
     <<revs[r].project, revs[r].branch>> = k => r <= heads[k]

EvidenceTypes ==
  /\ builds \subseteq Build
  /\ away \subseteq Build
  /\ runs \in Seq(Run)
  /\ batches \in Seq(Batch)
  /\ qualifications \in Seq(Qualification)
  /\ attestations \subseteq Attestation
  /\ calls \in [Agents -> Call]

EvidenceInv ==
  /\ LogInv
  /\ HeadsLatest
  /\ EvidenceTypes
  /\ \A b \in builds \cup away : Made(b)
  /\ \A n \in DOMAIN batches : BatchVerifies(batches[n])
  /\ \A n \in DOMAIN qualifications : QualificationOK(qualifications[n])
  /\ \A t \in attestations : AttestationOK(t)
  /\ \A a \in Agents : CallOK(calls[a])

------------------------------------------------------------------------------
(* Subjects                                                                 *)

\* What a subject stands for is settled.
LEMMA StateKept ==
  ASSUME LogGrows, NEW s, Existing(s)
  PROVE  Existing(s)' /\ StateOf(s)' = StateOf(s)
  BY DEF LogGrows, Existing, StateOf

LEMMA StateIsSnapshot ==
  ASSUME LogTypeOK, NEW s, Existing(s)
  PROVE  StateOf(s) \in Snapshots
  <1>1. CASE s.right = NoRev
    BY <1>1, RevisionType DEF Existing, StateOf
  <1>2. CASE s.right # NoRev
    BY <1>2, RevisionType, ThreeWayType DEF Existing, StateOf
  <1>3. QED
    BY <1>1, <1>2

LEMMA CommittedSubject ==
  ASSUME NEW r \in RevIds
  PROVE  /\ Committed(r) \in Subject
         /\ Committed(r).left = r /\ Committed(r).right = NoRev
         /\ Existing(Committed(r))
  <1>1. PICK p \in Projects : <<p, Main>> \in Keys
    BY ConstantsAssumption DEF Keys
  <1>2. SomeKey \in Keys
    BY <1>1 DEF SomeKey
  <1>3. r \in Nat /\ NoRev \in Nat
    BY DEF RevIds, NoRev
  <1>4. QED
    BY <1>2, <1>3 DEF Committed, Subject, Existing

LEMMA RestingCall == Resting \in Call /\ CallOK(Resting) /\ CallOK(Resting)'
  <1>1. PICK p \in Projects : <<p, Main>> \in Keys
    BY ConstantsAssumption DEF Keys
  <1>2. SomeKey \in Keys
    BY <1>1 DEF SomeKey
  <1>3. Committed(NoRev) \in Subject
    BY <1>2 DEF Committed, Subject, NoRev
  <1>4. /\ Resting.pc = "idle" /\ Resting.kind = "none" /\ Resting.subject = Committed(NoRev)
        /\ Resting.state = << >> /\ Resting.selection = << >> /\ Resting.results = << >>
        /\ Resting.build = << >> /\ Resting.at = 0 /\ Resting.current = FALSE
    BY DEF Resting
  <1>5. Resting \in Call
    BY <1>3 DEF Resting, Call
  <1>6. QED
    BY <1>4, <1>5 DEF CallOK, Compiling, Executing, Completing

------------------------------------------------------------------------------
(* What a step leaves alone                                                 *)

RunsGrow ==
  /\ Len(runs) <= Len(runs')
  /\ \A n \in DOMAIN runs : n \in DOMAIN runs' /\ runs'[n] = runs[n]

\* Branches that exist go on to exist.
HeadsStay == \A k \in Keys : heads[k] # NoRev => heads'[k] # NoRev

\* Builds of virtual merges leave only where operators take them.
BuildsStay ==
  /\ touched \subseteq touched'
  /\ \A b \in builds :
        b.subject.right # NoRev /\ b.subject \notin touched' => b \in builds'

LEMMA LogLengthens ==
  ASSUME LogGrows, LogTypeOK, LogTypeOK'
  PROVE  Len(revs) <= Len(revs') /\ RevIds \subseteq RevIds'
  <1>1. Len(revs) \in Nat
    BY DEF LogTypeOK
  <1>2. Len(revs') \in Nat
    BY DEF LogTypeOK
  <1>3. RevIds \subseteq RevIds'
    BY DEF LogGrows
  <1>4. 1 .. Len(revs) \subseteq 1 .. Len(revs')
    BY <1>3 DEF RevIds
  <1>5. Len(revs) <= Len(revs')
    BY <1>1, <1>2, <1>4
  <1>6. QED
    BY <1>3, <1>5

LEMMA NoneLaterKept ==
  ASSUME LogGrows, NEW k, NEW r, NEW n \in Nat, n <= Len(revs), NoneLater(k, r, n)
  PROVE  NoneLater(k, r, n)'
  BY DEF LogGrows, NoneLater, RevIds

LEMMA BatchKept ==
  ASSUME RunsGrow, NEW b, BatchVerifies(b)
  PROVE  BatchVerifies(b)'
  BY DEF RunsGrow, BatchVerifies, RunVerifies

LEMMA MadeKept ==
  ASSUME LogGrows, NEW b, Made(b)
  PROVE  Made(b)'
  BY StateKept DEF Made

LEMMA CallKept ==
  ASSUME LogGrows, LogTypeOK, LogTypeOK', RunsGrow, HeadsStay, NEW c \in Call, CallOK(c)
  PROVE  CallOK(c)'
  <1>1. Len(revs) <= Len(revs') /\ RevIds \subseteq RevIds'
    BY LogLengthens
  <1>2. c.subject.source \in Keys /\ c.at \in Nat
    BY DEF Call, Subject
  <1>3. c.pc = "source" => c.subject.left \in RevIds' /\ heads'[c.subject.source] # NoRev
    BY <1>1, <1>2 DEF CallOK, HeadsStay
  <1>4. c.pc \notin {"idle", "source"} =>
          /\ Existing(c.subject)'
          /\ c.state = StateOf(c.subject)'
          /\ c.kind = "batch" => BatchVerifies(c)'
    BY StateKept, BatchKept DEF CallOK
  <1>5. c.pc = "publish" => Made(c.build)'
    BY MadeKept DEF CallOK
  <1>6. c.pc \in Completing => c.at <= Len(revs')
    BY <1>1, <1>2 DEF CallOK, LogTypeOK
  <1>7. c.pc \in {"compare", "qualified"} /\ c.current =>
          NoneLater(c.subject.target, c.subject.left, c.at)'
    BY <1>2, NoneLaterKept DEF CallOK, Completing
  <1>8. c.pc = "qualified" /\ c.current => NoneLater(c.subject.source, c.subject.right, c.at)'
    BY <1>2, NoneLaterKept DEF CallOK, Completing
  <1>9. QED
    BY <1>3, <1>4, <1>5, <1>6, <1>7, <1>8 DEF CallOK, Describes

LEMMA QualificationKept ==
  ASSUME LogGrows, LogTypeOK, LogTypeOK', BuildsStay,
         NEW q \in Qualification, QualificationOK(q)
  PROVE  QualificationOK(q)'
  <1>1. Len(revs) <= Len(revs')
    BY LogLengthens
  <1>2. Existing(q.subject)' /\ StateOf(q.subject)' = StateOf(q.subject)
    BY StateKept DEF QualificationOK
  <1>3. q.at \in Nat /\ q.at <= Len(revs')
    BY <1>1 DEF QualificationOK, Qualification, LogTypeOK
  <1>4. q.current => /\ NoneLater(q.subject.target, q.subject.left, q.at)'
                     /\ NoneLater(q.subject.source, q.subject.right, q.at)'
    BY <1>3, NoneLaterKept DEF QualificationOK
  <1>5. q.subject \notin touched' => QualificationVerifies(q)'
    BY <1>2 DEF QualificationOK, QualificationVerifies, BuildsStay
  <1>6. QED
    BY <1>2, <1>3, <1>4, <1>5 DEF QualificationOK, Describes

\* Qualifications are only added.
QualificationsGrow ==
  \A n \in DOMAIN qualifications :
     n \in DOMAIN qualifications' /\ qualifications'[n] = qualifications[n]

\* What a step leaves alone stays right: what remains to be shown of it is what
\* it writes.
LEMMA InvFromParts ==
  ASSUME EvidenceInv, LogGrows, LogInv', HeadsLatest', EvidenceTypes',
         RunsGrow, HeadsStay, BuildsStay, QualificationsGrow,
         \A b \in builds' \cup away' : b \in builds \cup away \/ Made(b)',
         \A n \in DOMAIN batches' :
            \/ n \in DOMAIN batches /\ batches'[n] = batches[n]
            \/ BatchVerifies(batches[n])',
         \A n \in DOMAIN qualifications' :
            n \in DOMAIN qualifications \/ QualificationOK(qualifications[n])',
         \A t \in attestations' : t \in attestations \/ AttestationOK(t)',
         \A a \in Agents : calls'[a] = calls[a] \/ CallOK(calls[a])'
  PROVE  EvidenceInv'
  <1>1. LogTypeOK /\ LogTypeOK'
    BY DEF EvidenceInv, LogInv
  <1>2. \A b \in builds' \cup away' : Made(b)'
    BY MadeKept DEF EvidenceInv
  <1>3. ASSUME NEW n \in DOMAIN batches' PROVE BatchVerifies(batches[n])'
    <2>1. ASSUME n \in DOMAIN batches, batches'[n] = batches[n]
          PROVE  BatchVerifies(batches[n])'
      <3>1. PICK b : b = batches[n] /\ BatchVerifies(b)
        BY <2>1 DEF EvidenceInv
      <3>2. BatchVerifies(b)' /\ batches'[n] = b
        BY <2>1, <3>1, BatchKept
      <3>3. QED
        BY <3>2
    <2>2. QED
      BY <2>1
  <1>4. ASSUME NEW n \in DOMAIN qualifications' PROVE QualificationOK(qualifications[n])'
    <2>1. ASSUME n \in DOMAIN qualifications PROVE QualificationOK(qualifications[n])'
      <3>1. PICK q \in Qualification : q = qualifications[n] /\ QualificationOK(q)
        BY <2>1 DEF EvidenceInv, EvidenceTypes
      <3>2. QualificationOK(q)' /\ qualifications'[n] = q
        BY <1>1, <2>1, <3>1, QualificationKept DEF QualificationsGrow
      <3>3. QED
        BY <3>2
    <2>2. QED
      BY <2>1
  <1>5. ASSUME NEW t \in attestations' PROVE AttestationOK(t)'
    <2>1. ASSUME t \in attestations PROVE AttestationOK(t)'
      <3>1. AttestationOK(t)
        BY <2>1 DEF EvidenceInv
      <3>2. PICK q \in Qualification : q = qualifications[t.qualification] /\ QualificationOK(q)
        BY <3>1 DEF EvidenceInv, EvidenceTypes, AttestationOK
      <3>3. StateOf(q.subject)' = StateOf(q.subject)
        BY <3>2, StateKept DEF QualificationOK
      <3>4. ExactMerge(q, t.revision)'
        BY <3>1, <3>2, <3>3 DEF AttestationOK, ExactMerge, LogGrows
      <3>5. t.qualification \in DOMAIN qualifications' /\ qualifications'[t.qualification] = q
            /\ t.revision \in RevIds'
        BY <3>1, <3>2 DEF AttestationOK, QualificationsGrow, LogGrows
      <3>6. QED
        BY <3>4, <3>5 DEF AttestationOK
    <2>2. QED
      BY <2>1
  <1>6. ASSUME NEW a \in Agents PROVE CallOK(calls[a])'
    <2>1. ASSUME calls'[a] = calls[a] PROVE CallOK(calls[a])'
      <3>1. PICK c \in Call : c = calls[a] /\ CallOK(c)
        BY DEF EvidenceInv, EvidenceTypes
      <3>2. CallOK(c)' /\ calls'[a] = c
        BY <1>1, <2>1, <3>1, CallKept
      <3>3. QED
        BY <3>2
    <2>2. QED
      BY <2>1
  <1>7. QED
    BY <1>2, <1>3, <1>4, <1>5, <1>6 DEF EvidenceInv

\* Nothing happens to the log.
LEMMA SameLog ==
  ASSUME EvidenceInv, UNCHANGED logVars
  PROVE  /\ LogGrows /\ LogInv' /\ HeadsLatest' /\ HeadsStay
         /\ RevIds' = RevIds
  BY DEF EvidenceInv, logVars, LogGrows, LogInv, LogTypeOK, ProjectClosed, HeadsLatest,
         HeadsStay, RevIds

\* A call returns or goes on.
LEMMA CallReplaced ==
  ASSUME calls \in [Agents -> Call], NEW a \in Agents, NEW c \in Call, Goes(a, c)
  PROVE  /\ calls' \in [Agents -> Call]
         /\ calls'[a] = c
         /\ \A b \in Agents : b # a => calls'[b] = calls[b]
  BY DEF Goes

\* A step of a call that writes nothing else.
LEMMA OnlyCall ==
  ASSUME EvidenceInv, UNCHANGED <<logVars, retained, operated>>,
         NEW a \in Agents, NEW c \in Call, CallOK(c) \/ CallOK(c)', Goes(a, c)
  PROVE  EvidenceInv'
  <1>1. LogGrows /\ LogInv' /\ HeadsLatest' /\ HeadsStay
    BY SameLog
  <1>2. RunsGrow /\ BuildsStay /\ QualificationsGrow
    BY DEF retained, operated, RunsGrow, BuildsStay, QualificationsGrow, EvidenceInv, EvidenceTypes
  <1>3. LogTypeOK /\ LogTypeOK'
    BY <1>1 DEF EvidenceInv, LogInv
  <1>4. CallOK(c)'
    BY <1>1, <1>2, <1>3, CallKept
  <1>5. /\ calls' \in [Agents -> Call] /\ calls'[a] = c
        /\ \A b \in Agents : b # a => calls'[b] = calls[b]
    BY CallReplaced DEF EvidenceInv, EvidenceTypes
  <1>6. \A b \in Agents : calls'[b] = calls[b] \/ CallOK(calls[b])'
    BY <1>4, <1>5
  <1>7. EvidenceTypes'
    BY <1>5 DEF EvidenceInv, EvidenceTypes, retained, operated
  <1>8. QED
    BY <1>1, <1>2, <1>6, <1>7, InvFromParts DEF retained, operated

------------------------------------------------------------------------------
(* Reading the heads                                                        *)

LEMMA StartRunsStep ==
  ASSUME EvidenceInv, NEW a \in Agents, NEW k \in Keys, NEW kind \in {"run", "batch"},
         NEW selection \in Selections, StartRuns(a, k, kind, selection)
  PROVE  EvidenceInv'
  <1> DEFINE s == Committed(heads[k])
             c == [Resting EXCEPT !.pc = "build", !.kind = kind, !.subject = s,
                                  !.state = StateOf(s), !.selection = selection]
  <1>1. Goes(a, c) /\ heads[k] \in RevIds
    BY DEF StartRuns, EvidenceInv, LogInv, ProjectClosed
  <1>2. s \in Subject /\ Existing(s)
    BY <1>1, CommittedSubject
  <1>3. StateOf(s) \in Snapshots
    BY <1>2, StateIsSnapshot DEF EvidenceInv, LogInv
  <1>4. selection \in Seq(Modules) /\ selection # << >>
    BY EvidenceAssumption
  <1>5. Len(selection) > 0
    BY <1>4
  <1> HIDE DEF s
  <1>6. /\ c \in Call
        /\ c.pc = "build" /\ c.kind = kind /\ c.subject = s /\ c.state = StateOf(s)
        /\ c.selection = selection /\ c.results = << >>
    BY <1>2, <1>3, <1>4, RestingCall DEF Call, Compiling, Resting
  <1> HIDE DEF c
  <1>7. Describes(c.results, c.state) /\ BatchVerifies(c)
    BY <1>6 DEF Describes, BatchVerifies
  <1>8. CallOK(c)
    BY <1>2, <1>5, <1>6, <1>7 DEF CallOK, Compiling, Executing, Completing
  <1>9. QED
    BY <1>1, <1>6, <1>8, OnlyCall DEF StartRuns

LEMMA StartQualificationStep ==
  ASSUME EvidenceInv, NEW a \in Agents, NEW target \in Keys, NEW source \in Keys,
         NEW selection \in Selections, StartQualification(a, target, source, selection)
  PROVE  EvidenceInv'
  <1> DEFINE s == [target |-> target, source |-> source,
                   base |-> NoRev, left |-> heads[target], right |-> NoRev]
             c == [Resting EXCEPT !.pc = "source", !.kind = "qualification",
                                  !.selection = selection, !.subject = s]
  <1>1. Goes(a, c) /\ heads[target] \in RevIds /\ heads[source] # NoRev
    BY DEF StartQualification, EvidenceInv, LogInv, ProjectClosed
  <1>2. s \in Subject /\ s.left = heads[target] /\ s.source = source
    BY <1>1 DEF Subject, RevIds, NoRev
  <1>3. selection \in Seq(Modules) /\ selection # << >>
    BY EvidenceAssumption
  <1>4. Len(selection) > 0
    BY <1>3
  <1> HIDE DEF s
  <1>5. /\ c \in Call
        /\ c.pc = "source" /\ c.kind = "qualification" /\ c.subject = s
        /\ c.selection = selection /\ c.results = << >>
    BY <1>2, <1>3, RestingCall DEF Call, Resting
  <1> HIDE DEF c
  <1>6. CallOK(c)
    BY <1>1, <1>2, <1>4, <1>5 DEF CallOK, Compiling, Executing, Completing
  <1>7. QED
    BY <1>1, <1>5, <1>6, OnlyCall DEF StartQualification

\* The call of an agent, and what it may rely on.
LEMMA CallOf ==
  ASSUME EvidenceInv, NEW a \in Agents
  PROVE  calls[a] \in Call /\ CallOK(calls[a])
  BY DEF EvidenceInv, EvidenceTypes

LEMMA ReadSourceStep ==
  ASSUME EvidenceInv, NEW a \in Agents, ReadSource(a)
  PROVE  EvidenceInv'
  <1>1. PICK old \in Call : old = calls[a] /\ CallOK(old)
    BY CallOf
  <1> DEFINE right == heads[old.subject.source]
  <1>2. old.pc = "source" /\ old.kind = "qualification" /\ old.subject \in Subject
        /\ old.subject.left \in RevIds /\ right # NoRev /\ old.results = << >>
        /\ Len(old.results) < Len(old.selection)
    BY <1>1 DEF ReadSource, At, CallOK, Call
  <1>3. right \in RevIds
    BY <1>2 DEF Subject, EvidenceInv, LogInv, ProjectClosed
  <1>4. PICK base \in BestCommonAncestors(old.subject.left, right) :
           LET s == [old.subject EXCEPT !.base = base, !.right = right]
           IN  Goes(a, [old EXCEPT !.pc = "build", !.subject = s, !.state = StateOf(s)])
    BY <1>1 DEF ReadSource
  <1>5. base \in RevIds
    BY <1>4 DEF BestCommonAncestors, Ancestors
  <1> DEFINE s == [old.subject EXCEPT !.base = base, !.right = right]
             c == [old EXCEPT !.pc = "build", !.subject = s, !.state = StateOf(s)]
  <1>6. s \in Subject /\ s.left = old.subject.left /\ s.base = base /\ s.right = right
    <2>1. base \in Nat /\ right \in Nat
      BY <1>3, <1>5 DEF RevIds
    <2> HIDE DEF right
    <2>2. QED
      BY <1>2, <2>1 DEF Subject
  <1>7. Goes(a, c)
    BY <1>4
  <1> HIDE DEF s
  <1>8. Existing(s)
    BY <1>2, <1>3, <1>5, <1>6 DEF Existing
  <1>9. StateOf(s) \in Snapshots
    BY <1>8, StateIsSnapshot DEF EvidenceInv, LogInv
  <1>10. /\ c \in Call
         /\ c.pc = "build" /\ c.kind = "qualification" /\ c.subject = s /\ c.state = StateOf(s)
         /\ c.selection = old.selection /\ c.results = << >>
    BY <1>2, <1>6, <1>9 DEF Call, Compiling
  <1> HIDE DEF c
  <1>11. Describes(c.results, c.state)
    BY <1>10 DEF Describes
  <1>12. CallOK(c)
    BY <1>2, <1>6, <1>8, <1>10, <1>11 DEF CallOK, Compiling, Executing, Completing
  <1>13. QED
    BY <1>7, <1>10, <1>12, OnlyCall DEF ReadSource

------------------------------------------------------------------------------
(* Builds                                                                   *)

LEMMA BuildType ==
  ASSUME EvidenceInv, NEW b \in builds
  PROVE  b \in Build /\ Made(b)
  BY DEF EvidenceInv, EvidenceTypes

\* A call on its way through a build and an execution is right as long as it is
\* about the same test of the same subject.
LEMMA SameWork ==
  ASSUME NEW old \in Call, CallOK(old), old.pc \in Compiling \cup Executing,
         NEW c \in Call, c.pc \in Compiling \cup Executing,
         c.kind = old.kind, c.subject = old.subject, c.state = old.state,
         c.selection = old.selection, c.results = old.results,
         c.pc = "publish" => c.build \in Build /\ c.build.subject = c.subject /\ Made(c.build)
  PROVE  CallOK(c)
  <1>1. /\ old.pc \notin {"idle", "source"} \cup Completing
        /\ c.pc \notin {"idle", "source", "batch"} \cup Completing
    BY DEF Compiling, Executing, Completing
  <1>2. BatchVerifies(old) => BatchVerifies(c)
    BY DEF BatchVerifies, RunVerifies
  <1>3. /\ Existing(c.subject)
        /\ c.state = StateOf(c.subject)
        /\ Describes(c.results, c.state)
        /\ c.kind = "batch" => BatchVerifies(c)
        /\ c.kind = "qualification" => c.subject.right # NoRev
    BY <1>1, <1>2 DEF CallOK
  <1>4. c.kind # "none" /\ Len(c.results) < Len(c.selection)
    BY <1>1 DEF CallOK
  <1>5. QED
    BY <1>1, <1>3, <1>4 DEF CallOK, Completing

\* A call goes on to execute what it has found or read.
LEMMA GoesOnToHash ==
  ASSUME EvidenceInv, NEW a \in Agents, NEW old \in Call, old = calls[a], CallOK(old),
         old.pc \in Compiling, NEW b \in Build,
         Goes(a, [old EXCEPT !.pc = "hash", !.build = b]),
         UNCHANGED <<logVars, retained, operated>>
  PROVE  EvidenceInv'
  <1> DEFINE c == [old EXCEPT !.pc = "hash", !.build = b]
  <1>1. /\ c \in Call
        /\ c.pc = "hash" /\ c.kind = old.kind /\ c.subject = old.subject /\ c.state = old.state
        /\ c.selection = old.selection /\ c.results = old.results
    BY DEF Call, Executing
  <1>2. Goes(a, c)
    OBVIOUS
  <1> HIDE DEF c
  <1>3. CallOK(c)
    BY <1>1, SameWork DEF Compiling, Executing
  <1>4. QED
    BY <1>1, <1>2, <1>3, OnlyCall

LEMMA FindBuildStep ==
  ASSUME EvidenceInv, NEW a \in Agents, FindBuild(a)
  PROVE  EvidenceInv'
  <1>1. PICK old \in Call : old = calls[a] /\ CallOK(old)
    BY CallOf
  <1>2. PICK b \in builds : Goes(a, [old EXCEPT !.pc = "hash", !.build = b])
    BY <1>1 DEF FindBuild, BuildsOf
  <1>3. old.pc \in Compiling /\ b \in Build
    BY <1>1, BuildType DEF FindBuild, At, Compiling
  <1>4. QED
    BY <1>1, <1>2, <1>3, GoesOnToHash DEF FindBuild

LEMMA CompileStep ==
  ASSUME EvidenceInv, NEW a \in Agents, Compile(a)
  PROVE  EvidenceInv'
  <1>1. PICK old \in Call : old = calls[a] /\ CallOK(old)
    BY CallOf
  <1>2. PICK x \in Executables, ok \in BOOLEAN :
           Goes(a, [old EXCEPT !.pc = "publish",
                      !.build = [subject |-> old.subject, ok |-> ok, from |-> old.state,
                                 executable |-> IF ok THEN x ELSE "none"]])
    BY <1>1 DEF Compile
  <1> DEFINE b == [subject |-> old.subject, ok |-> ok, from |-> old.state,
                   executable |-> IF ok THEN x ELSE "none"]
             c == [old EXCEPT !.pc = "publish", !.build = b]
  <1>3. /\ old.pc = "build" /\ old.subject \in Subject
        /\ Existing(old.subject) /\ old.state = StateOf(old.subject)
    BY <1>1 DEF Compile, At, CallOK, Call
  <1>4. old.state \in Snapshots
    BY <1>3, StateIsSnapshot DEF EvidenceInv, LogInv
  <1>5. b \in Build /\ b.subject = old.subject /\ b.from = old.state
    BY <1>3, <1>4 DEF Build
  <1>6. Goes(a, c)
    BY <1>2
  <1> HIDE DEF b
  <1>7. /\ c \in Call
        /\ c.pc = "publish" /\ c.kind = old.kind /\ c.subject = old.subject
        /\ c.state = old.state /\ c.selection = old.selection /\ c.results = old.results
        /\ c.build = b
    BY <1>5 DEF Call, Compiling
  <1> HIDE DEF c
  <1>8. Made(b)
    BY <1>3, <1>5 DEF Made
  <1>9. CallOK(c)
    BY <1>1, <1>3, <1>5, <1>7, <1>8, SameWork DEF Compiling, Executing
  <1>10. QED
    BY <1>6, <1>7, <1>9, OnlyCall DEF Compile

\* A build is published where none was, or only ones that failed and were not of
\* a virtual merge.
LEMMA BuildAdded ==
  ASSUME EvidenceInv, NEW b \in Build, Made(b), Replaces(b.subject),
         builds' = (builds \ BuildsOf(b.subject)) \cup {b},
         UNCHANGED <<logVars, operated>>
  PROVE  /\ builds' \subseteq Build
         /\ \A x \in builds' \cup away' : x \in builds \cup away \/ Made(x)'
         /\ BuildsStay
  <1>1. Made(b)'
    BY SameLog, MadeKept
  <1>2. builds' \subseteq Build /\ away' = away
    BY DEF EvidenceInv, EvidenceTypes, operated
  <1>3. \A x \in BuildsOf(b.subject) : x.subject.right = NoRev
    BY DEF Replaces, BuildsOf
  <1>4. BuildsStay
    BY <1>3 DEF BuildsStay, operated
  <1>5. QED
    BY <1>1, <1>2, <1>4

LEMMA PublishBuildStep ==
  ASSUME EvidenceInv, NEW a \in Agents, PublishBuild(a)
  PROVE  EvidenceInv'
  <1>1. PICK old \in Call : old = calls[a] /\ CallOK(old)
    BY CallOf
  <1> DEFINE s == old.subject
             c == [old EXCEPT !.pc = "read"]
  <1>2. /\ old.pc = "publish" /\ old.build \in Build /\ old.build.subject = s
        /\ Made(old.build)
    BY <1>1 DEF PublishBuild, At, CallOK
  <1>3. /\ c \in Call
        /\ c.pc = "read" /\ c.kind = old.kind /\ c.subject = old.subject
        /\ c.state = old.state /\ c.selection = old.selection /\ c.results = old.results
    BY DEF Call, Compiling
  <1>4. Goes(a, c)
    BY <1>1 DEF PublishBuild
  <1> HIDE DEF c
  <1>5. CallOK(c)
    BY <1>1, <1>2, <1>3, SameWork DEF Compiling, Executing
  <1>6. LogGrows /\ LogInv' /\ HeadsLatest' /\ HeadsStay
    BY SameLog DEF PublishBuild
  <1>7. RunsGrow /\ QualificationsGrow
    BY DEF PublishBuild, RunsGrow, QualificationsGrow, EvidenceInv, EvidenceTypes
  <1>8. CallOK(c)'
    BY <1>3, <1>5, <1>6, <1>7, CallKept DEF EvidenceInv, LogInv
  <1>9. /\ calls' \in [Agents -> Call] /\ calls'[a] = c
        /\ \A b \in Agents : b # a => calls'[b] = calls[b]
    BY <1>3, <1>4, CallReplaced DEF EvidenceInv, EvidenceTypes
  <1>10. \A b \in Agents : calls'[b] = calls[b] \/ CallOK(calls[b])'
    BY <1>8, <1>9
  <1>11. /\ builds' \subseteq Build
         /\ \A x \in builds' \cup away' : x \in builds \cup away \/ Made(x)'
         /\ BuildsStay
    <2>1. CASE Replaces(s)
      BY <1>1, <1>2, <2>1, BuildAdded DEF PublishBuild
    <2>2. CASE ~Replaces(s)
      BY <1>1, <2>2 DEF PublishBuild, EvidenceInv, EvidenceTypes, operated, BuildsStay
    <2>3. QED
      BY <2>1, <2>2
  <1>12. EvidenceTypes'
    BY <1>9, <1>11 DEF PublishBuild, EvidenceInv, EvidenceTypes, operated
  <1>13. QED
    BY <1>6, <1>7, <1>10, <1>11, <1>12, InvFromParts DEF PublishBuild

\* Others test what exists.
LEMMA SubjectsExist ==
  ASSUME EvidenceInv, NEW s \in Subjects
  PROVE  s \in Subject /\ Existing(s)
  <1>1. ASSUME NEW a \in Agents, calls[a].pc \notin {"idle", "source"}, s = calls[a].subject
        PROVE  s \in Subject /\ Existing(s)
    BY <1>1, CallOf DEF CallOK, Call
  <1>2. ASSUME NEW n \in DOMAIN qualifications, s = qualifications[n].subject
        PROVE  s \in Subject /\ Existing(s)
    <2>1. qualifications[n] \in Qualification /\ QualificationOK(qualifications[n])
      BY DEF EvidenceInv, EvidenceTypes
    <2>2. QED
      BY <1>2, <2>1 DEF Qualification, QualificationOK
  <1>3. QED
    BY <1>1, <1>2 DEF Subjects

LEMMA BuildElsewhereStep ==
  ASSUME EvidenceInv, NEW s \in Subjects, BuildElsewhere(s)
  PROVE  EvidenceInv'
  <1>1. PICK x \in Executables, ok \in BOOLEAN :
           builds' = (builds \ BuildsOf(s)) \cup {[subject |-> s, ok |-> ok, from |-> StateOf(s),
                                             executable |-> IF ok THEN x ELSE "none"]}
    BY DEF BuildElsewhere
  <1>2. s \in Subject /\ Existing(s)
    BY SubjectsExist
  <1>3. PICK state \in Snapshots : state = StateOf(s)
    BY <1>2, StateIsSnapshot DEF EvidenceInv, LogInv
  <1> DEFINE b == [subject |-> s, ok |-> ok, from |-> state,
                   executable |-> IF ok THEN x ELSE "none"]
  <1>4. b \in Build /\ b.subject = s /\ b.from = state
    BY <1>2 DEF Build
  <1>5. builds' = (builds \ BuildsOf(s)) \cup {b}
    BY <1>1, <1>3
  <1> HIDE DEF b
  <1>6. Made(b)
    BY <1>2, <1>3, <1>4 DEF Made
  <1>7. /\ builds' \subseteq Build
        /\ \A y \in builds' \cup away' : y \in builds \cup away \/ Made(y)'
        /\ BuildsStay
    BY <1>4, <1>5, <1>6, BuildAdded DEF BuildElsewhere
  <1>8. LogGrows /\ LogInv' /\ HeadsLatest' /\ HeadsStay
    BY SameLog DEF BuildElsewhere
  <1>9. RunsGrow /\ QualificationsGrow
    BY DEF BuildElsewhere, RunsGrow, QualificationsGrow, EvidenceInv, EvidenceTypes
  <1>10. EvidenceTypes'
    BY <1>7 DEF BuildElsewhere, EvidenceInv, EvidenceTypes, operated
  <1>11. QED
    BY <1>7, <1>8, <1>9, <1>10, InvFromParts DEF BuildElsewhere

------------------------------------------------------------------------------
(* Results                                                                  *)

\* A call goes on with some results.
GoneOn(c, old, results) ==
  /\ c.kind = old.kind /\ c.subject = old.subject /\ c.state = old.state
  /\ c.selection = old.selection /\ c.results = results
  /\ \/ c.pc \in {"build", "hash"} /\ Len(results) < Len(old.selection)
     \/ c.pc = "batch" /\ old.kind = "batch"
     \/ c.pc = "target" /\ old.kind = "qualification" /\ c.at = Len(revs)

LEMMA OnwardShape ==
  ASSUME LogTypeOK, NEW a, NEW old \in Call, old = calls[a], CallOK(old),
         old.pc \in Compiling \cup Executing, NEW results \in Seq(TestResult)
  PROVE  \/ Onward(a, results) = Resting
         \/ Onward(a, results) \in Call /\ GoneOn(Onward(a, results), old, results)
  <1>1. old.kind \in {"run", "batch", "qualification"} /\ Len(revs) \in Nat
    BY DEF CallOK, Call, Compiling, Executing, LogTypeOK
  <1>2. CASE Len(results) < Len(old.selection)
    <2> DEFINE pc == IF old.pc = "sandbox" /\ old.kind = "qualification" THEN "hash" ELSE "build"
               c  == [old EXCEPT !.results = results, !.pc = pc]
    <2>1. Onward(a, results) = c
      BY <1>2 DEF Onward
    <2>2. pc \in {"build", "hash"}
      OBVIOUS
    <2> HIDE DEF pc
    <2>3. c \in Call /\ GoneOn(c, old, results)
      BY <1>2, <2>2 DEF Call, GoneOn, Compiling, Executing
    <2>4. QED
      BY <2>1, <2>3
  <1>3. CASE ~(Len(results) < Len(old.selection)) /\ old.kind = "run"
    BY <1>3 DEF Onward
  <1>4. CASE ~(Len(results) < Len(old.selection)) /\ old.kind = "batch"
    <2> DEFINE c == [old EXCEPT !.results = results, !.pc = "batch"]
    <2>1. Onward(a, results) = c
      BY <1>4 DEF Onward
    <2>2. c \in Call /\ GoneOn(c, old, results)
      BY <1>4 DEF Call, GoneOn
    <2>3. QED
      BY <2>1, <2>2
  <1>5. CASE ~(Len(results) < Len(old.selection)) /\ old.kind = "qualification"
    <2> DEFINE c == [old EXCEPT !.results = results, !.pc = "target", !.at = Len(revs)]
    <2>1. Onward(a, results) = c
      BY <1>5 DEF Onward
    <2>2. c \in Call /\ GoneOn(c, old, results)
      BY <1>1, <1>5 DEF Call, GoneOn, Completing
    <2>3. QED
      BY <2>1, <2>2
  <1>6. QED
    BY <1>1, <1>2, <1>3, <1>4, <1>5

LEMMA GoneOnOK ==
  ASSUME EvidenceInv, UNCHANGED logVars,
         NEW old \in Call, CallOK(old), old.pc \in Compiling \cup Executing,
         NEW c \in Call, NEW results, GoneOn(c, old, results),
         Describes(results, old.state), old.kind = "batch" => BatchVerifies(c)'
  PROVE  CallOK(c)'
  <1>1. Existing(c.subject)' /\ c.state = StateOf(c.subject)'
    <2>1. Existing(old.subject) /\ old.state = StateOf(old.subject)
      BY DEF CallOK, Compiling, Executing
    <2>2. LogGrows
      BY SameLog
    <2>3. Existing(old.subject)' /\ StateOf(old.subject)' = StateOf(old.subject)
      BY <2>1, <2>2, StateKept
    <2>4. QED
      BY <2>1, <2>3 DEF GoneOn
  <1>2. Describes(c.results, c.state)
    BY DEF GoneOn
  <1>3. Len(revs') = Len(revs) /\ Len(revs) \in Nat
    BY DEF logVars, EvidenceInv, LogInv, LogTypeOK
  <1>4. c.kind # "none" /\ (c.kind = "qualification" => c.subject.right # NoRev)
    BY DEF GoneOn, CallOK, Compiling, Executing
  <1>5. QED
    BY <1>1, <1>2, <1>3, <1>4 DEF CallOK, GoneOn, Compiling, Executing, Completing, Describes

\* The next test, described by the state in memory.
LEMMA NextResult ==
  ASSUME EvidenceInv, NEW a \in Agents, NEW old \in Call, old = calls[a], CallOK(old),
         old.pc \in Compiling \cup Executing, NEW run \in Nat,
         NEW outcome \in {"passed", "failed", "error"}
  PROVE  /\ Result(a, outcome, run) \in TestResult
         /\ Result(a, outcome, run).definition = old.state[Result(a, outcome, run).test]
         /\ Result(a, outcome, run).outcome = outcome
         /\ Result(a, outcome, run).run = run
  <1> DEFINE test == old.selection[Len(old.results) + 1]
  <1>1. test \in Modules
    <2>1. Len(old.results) < Len(old.selection) /\ Len(old.results) \in Nat
          /\ old.selection \in Seq(Modules)
      BY DEF CallOK, Call
    <2>2. Len(old.results) + 1 \in 1 .. Len(old.selection)
      BY <2>1
    <2>3. QED
      BY <2>1, <2>2
  <1>2. old.state \in Snapshots
    BY StateIsSnapshot DEF CallOK, Compiling, Executing, EvidenceInv, LogInv
  <1>3. Result(a, outcome, run) =
          [test |-> test, definition |-> old.state[test], outcome |-> outcome,
           run |-> run, ran |-> << >>]
    BY DEF Result
  <1>4. old.state[test] \in Nat
    BY <1>1, <1>2 DEF Snapshots
  <1> HIDE DEF test
  <1>5. QED
    BY <1>1, <1>3, <1>4 DEF TestResult

LEMMA DescribesAppend ==
  ASSUME NEW results \in Seq(TestResult), NEW state, Describes(results, state),
         NEW r \in TestResult, r.definition = state[r.test],
         r.outcome # "error" => r.ran = state
  PROVE  Append(results, r) \in Seq(TestResult) /\ Describes(Append(results, r), state)
  <1>1. Append(results, r) \in Seq(TestResult)
        /\ Len(Append(results, r)) = Len(results) + 1
        /\ \A i \in DOMAIN Append(results, r) :
             \/ i \in DOMAIN results /\ Append(results, r)[i] = results[i]
             \/ Append(results, r)[i] = r
    OBVIOUS
  <1>2. QED
    BY <1>1 DEF Describes

LEMMA SequenceMade ==
  ASSUME NEW S, NEW n \in Nat, NEW f \in [1 .. n -> S]
  PROVE  f \in Seq(S) /\ Len(f) = n
  OBVIOUS

LEMMA ReadBuildStep ==
  ASSUME EvidenceInv, NEW a \in Agents, ReadBuild(a)
  PROVE  EvidenceInv'
  <1>1. PICK old \in Call : old = calls[a] /\ CallOK(old)
    BY CallOf
  <1>2. PICK b \in builds :
          IF b.ok THEN Goes(a, [old EXCEPT !.pc = "hash", !.build = b])
          ELSE CASE old.kind = "run" -> Goes(a, Resting)
                 [] old.kind = "batch" ->
                      Goes(a, Onward(a, Append(old.results, Result(a, "error", 0))))
                 [] OTHER ->
                      Goes(a, [Onward(a, [i \in DOMAIN old.selection |->
                                 [test |-> old.selection[i], outcome |-> "error", run |-> 0,
                                  definition |-> old.state[old.selection[i]],
                                  ran |-> << >>]]) EXCEPT !.build = b])
    BY <1>1 DEF ReadBuild, BuildsOf
  <1>3. /\ old.pc = "read" /\ old.pc \in Compiling /\ old.pc \in Compiling \cup Executing
        /\ UNCHANGED <<logVars, retained, operated>>
        /\ UNCHANGED logVars /\ runs' = runs /\ b \in Build /\ LogTypeOK
    BY <1>1, BuildType DEF ReadBuild, At, Compiling, retained, EvidenceInv, LogInv
  <1>4. Describes(old.results, old.state) /\ old.results \in Seq(TestResult)
        /\ old.selection \in Seq(Modules) /\ old.state \in Snapshots
        /\ old.kind \in {"run", "batch", "qualification"}
    BY <1>1, <1>3, StateIsSnapshot DEF CallOK, Call
  <1>5. CASE b.ok
    BY <1>1, <1>2, <1>3, <1>5, GoesOnToHash
  <1>6. CASE ~b.ok /\ old.kind = "run"
    BY <1>2, <1>3, <1>6, RestingCall, OnlyCall
  <1>7. CASE ~b.ok /\ old.kind = "batch"
    <2>1. PICK r : r = Result(a, "error", 0)
      OBVIOUS
    <2>2. /\ r \in TestResult /\ r.definition = old.state[r.test] /\ r.outcome = "error"
          /\ r.run = 0
      BY <1>1, <1>3, <2>1, NextResult
    <2>3. PICK results : results = Append(old.results, r)
      OBVIOUS
    <2>4. results \in Seq(TestResult) /\ Describes(results, old.state)
      BY <1>4, <2>2, <2>3, DescribesAppend
    <2>5. PICK c : c = Onward(a, results) /\ Goes(a, c)
      BY <1>2, <1>7, <2>1, <2>3
    <2>6. CASE c = Resting
      BY <1>3, <2>5, <2>6, RestingCall, OnlyCall
    <2>7. CASE c \in Call /\ GoneOn(c, old, results)
      <3>1. \A i \in DOMAIN results : \/ i \in DOMAIN old.results /\ results[i] = old.results[i]
                                     \/ results[i] = r
        BY <1>4, <2>2, <2>3
      <3>2. BatchVerifies(old)
        BY <1>1, <1>3, <1>7 DEF CallOK
      <3>3. BatchVerifies(c)'
        BY <1>3, <2>2, <2>7, <3>1, <3>2 DEF BatchVerifies, RunVerifies, GoneOn
      <3>4. CallOK(c)'
        BY <1>1, <1>3, <2>4, <2>7, <3>3, GoneOnOK
      <3>5. QED
        BY <1>3, <2>5, <2>7, <3>4, OnlyCall
    <2>8. QED
      BY <1>1, <1>3, <2>4, <2>5, <2>6, <2>7, OnwardShape
  <1>8. CASE ~b.ok /\ old.kind = "qualification"
    <2> DEFINE results == [i \in DOMAIN old.selection |->
                 [test |-> old.selection[i], outcome |-> "error", run |-> 0,
                  definition |-> old.state[old.selection[i]], ran |-> << >>]]
    <2>1. Goes(a, [Onward(a, results) EXCEPT !.build = b])
      BY <1>2, <1>8
    <2>2. results \in Seq(TestResult) /\ Len(results) = Len(old.selection)
      <3>1. DOMAIN old.selection = 1 .. Len(old.selection) /\ Len(old.selection) \in Nat
        BY <1>4
      <3>2. \A i \in DOMAIN old.selection : old.selection[i] \in Modules
        BY <1>4
      <3>3. \A i \in DOMAIN old.selection : results[i] \in TestResult
        BY <1>4, <3>2 DEF Snapshots, TestResult
      <3>4. results \in [1 .. Len(old.selection) -> TestResult]
        BY <3>1, <3>3
      <3>5. QED
        BY <3>1, <3>4, SequenceMade
    <2>3. Describes(results, old.state)
      BY DEF Describes
    <2> HIDE DEF results
    <2>4. PICK d : d = Onward(a, results)
      OBVIOUS
    <2>5. d = [old EXCEPT !.results = results, !.pc = "target", !.at = Len(revs)]
      BY <1>1, <1>8, <2>2, <2>4 DEF Onward, Call
    <2>6. PICK c : c = [d EXCEPT !.build = b]
      OBVIOUS
    <2>7. Goes(a, c)
      BY <2>1, <2>4, <2>6
    <2>8. /\ d \in Call /\ d.kind = old.kind /\ d.subject = old.subject /\ d.state = old.state
          /\ d.selection = old.selection /\ d.results = results /\ d.pc = "target"
          /\ d.at = Len(revs)
      <3>1. PICK n \in Nat : n = Len(revs)
        BY <1>3 DEF LogTypeOK
      <3>2. d = [old EXCEPT !.results = results, !.pc = "target", !.at = n]
        BY <2>5, <3>1
      <3>3. QED
        BY <2>2, <3>1, <3>2 DEF Call, Completing
    <2>9. /\ c \in Call /\ c.kind = d.kind /\ c.subject = d.subject /\ c.state = d.state
          /\ c.selection = d.selection /\ c.results = d.results /\ c.pc = d.pc /\ c.at = d.at
      BY <1>3, <2>6, <2>8 DEF Call
    <2>10. GoneOn(c, old, results)
      BY <1>8, <2>8, <2>9 DEF GoneOn
    <2>11. CallOK(c)'
      BY <1>1, <1>3, <1>8, <2>3, <2>9, <2>10, GoneOnOK
    <2>12. QED
      BY <1>3, <2>7, <2>9, <2>11, OnlyCall
  <1>9. QED
    BY <1>4, <1>5, <1>6, <1>7, <1>8

------------------------------------------------------------------------------
(* Execution                                                                *)

LEMMA HashExecutableStep ==
  ASSUME EvidenceInv, NEW a \in Agents, HashExecutable(a)
  PROVE  EvidenceInv'
  <1>1. PICK old \in Call : old = calls[a] /\ CallOK(old)
    BY CallOf
  <1> DEFINE c == [old EXCEPT !.pc = "sandbox"]
  <1>2. Goes(a, c) /\ old.pc = "hash"
    BY <1>1 DEF HashExecutable, At
  <1>3. /\ c \in Call
        /\ c.pc = "sandbox" /\ c.kind = old.kind /\ c.subject = old.subject
        /\ c.state = old.state /\ c.selection = old.selection /\ c.results = old.results
    BY DEF Call, Executing
  <1> HIDE DEF c
  <1>4. CallOK(c)
    BY <1>1, <1>2, <1>3, SameWork DEF Compiling, Executing
  <1>5. QED
    BY <1>2, <1>3, <1>4, OnlyCall DEF HashExecutable

LEMMA RunSandboxStep ==
  ASSUME EvidenceInv, NEW a \in Agents, RunSandbox(a)
  PROVE  EvidenceInv'
  <1>1. PICK old \in Call : old = calls[a] /\ CallOK(old)
    BY CallOf
  <1>2. PICK b \in BuildsOf(old.subject), outcome \in {"passed", "failed"} :
          LET n      == IF old.kind = "qualification" THEN 0 ELSE Len(runs) + 1
              result == [Result(a, outcome, n) EXCEPT !.ran = b.from]
          IN  /\ runs' = IF n = 0 THEN runs
                         ELSE Append(runs, [subject |-> old.subject, test |-> result.test,
                                            definition |-> result.definition,
                                            outcome |-> outcome, ran |-> b.from])
              /\ Goes(a, Onward(a, Append(old.results, result)))
    BY <1>1 DEF RunSandbox
  <1>3. /\ old.pc = "sandbox" /\ old.pc \in Compiling \cup Executing
        /\ UNCHANGED logVars /\ LogTypeOK /\ runs \in Seq(Run)
        /\ UNCHANGED <<builds, batches, qualifications, attestations, operated>>
    BY <1>1 DEF RunSandbox, At, Executing, EvidenceInv, LogInv, EvidenceTypes
  <1>4. /\ Describes(old.results, old.state) /\ old.results \in Seq(TestResult)
        /\ old.subject \in Subject /\ Existing(old.subject)
        /\ old.state = StateOf(old.subject) /\ old.state \in Snapshots
        /\ old.kind \in {"run", "batch", "qualification"}
        /\ old.kind = "batch" => BatchVerifies(old)
    BY <1>1, <1>3, StateIsSnapshot DEF CallOK, Call
  <1>5. b.from = old.state
    BY <1>2, <1>4, BuildType DEF BuildsOf, Made
  <1>6. PICK n : n = IF old.kind = "qualification" THEN 0 ELSE Len(runs) + 1
    OBVIOUS
  <1>7. n \in Nat /\ (n = 0 <=> old.kind = "qualification") /\ (n # 0 => n = Len(runs) + 1)
    BY <1>3, <1>6
  <1>8. PICK plain : plain = Result(a, outcome, n)
    OBVIOUS
  <1>9. /\ plain \in TestResult /\ plain.definition = old.state[plain.test]
        /\ plain.outcome = outcome /\ plain.run = n
    BY <1>1, <1>3, <1>7, <1>8, NextResult
  <1>10. PICK result : result = [plain EXCEPT !.ran = b.from]
    OBVIOUS
  <1>11. /\ result \in TestResult /\ result.definition = old.state[result.test]
         /\ result.outcome = outcome /\ result.run = n /\ result.ran = old.state
    BY <1>4, <1>5, <1>9, <1>10 DEF TestResult
  <1>12. PICK run : run = [subject |-> old.subject, test |-> result.test,
                           definition |-> result.definition,
                           outcome |-> outcome, ran |-> b.from]
    OBVIOUS
  <1>13. /\ run \in Run /\ run.subject = old.subject /\ run.test = result.test
         /\ run.definition = result.definition /\ run.outcome = outcome
    BY <1>4, <1>5, <1>11, <1>12 DEF Run, TestResult
  <1>14. runs' = IF n = 0 THEN runs ELSE Append(runs, run)
    BY <1>2, <1>6, <1>8, <1>10, <1>12
  <1>15. /\ runs' \in Seq(Run) /\ RunsGrow
         /\ n # 0 => n \in DOMAIN runs' /\ runs'[n] = run
    <2>1. CASE n = 0
      BY <1>3, <1>14, <2>1 DEF RunsGrow
    <2>2. CASE n # 0
      <3>1. runs' = Append(runs, run) /\ n = Len(runs) + 1
        BY <1>7, <1>14, <2>2
      <3>2. QED
        BY <1>3, <1>13, <2>2, <3>1 DEF RunsGrow
    <2>3. QED
      BY <2>1, <2>2
  <1>16. PICK results : results = Append(old.results, result)
    OBVIOUS
  <1>17. results \in Seq(TestResult) /\ Describes(results, old.state)
    BY <1>4, <1>11, <1>16, DescribesAppend
  <1>18. \A i \in DOMAIN results : \/ i \in DOMAIN old.results /\ results[i] = old.results[i]
                                  \/ results[i] = result
    BY <1>4, <1>11, <1>16
  <1>19. PICK c : c = Onward(a, results) /\ Goes(a, c)
    BY <1>2, <1>6, <1>8, <1>10, <1>16
  <1>20. c \in Call /\ CallOK(c)'
    <2>1. CASE c = Resting
      BY <2>1, RestingCall
    <2>2. CASE c \in Call /\ GoneOn(c, old, results)
      <3>1. ASSUME old.kind = "batch" PROVE BatchVerifies(c)'
        <4>1. BatchVerifies(old)'
          BY <1>4, <1>15, <3>1, BatchKept
        <4>2. n # 0
          BY <1>7, <3>1
        <4>3. QED
          BY <1>11, <1>13, <1>15, <1>18, <2>2, <4>1, <4>2
             DEF BatchVerifies, RunVerifies, GoneOn
      <3>2. QED
        BY <1>1, <1>3, <1>17, <2>2, <3>1, GoneOnOK
    <2>3. QED
      BY <1>1, <1>3, <1>17, <1>19, <2>1, <2>2, OnwardShape
  <1>21. LogGrows /\ LogInv' /\ HeadsLatest' /\ HeadsStay
    BY <1>3, SameLog
  <1>22. BuildsStay /\ QualificationsGrow
    BY <1>3 DEF BuildsStay, QualificationsGrow, operated
  <1>23. /\ calls' \in [Agents -> Call] /\ calls'[a] = c
         /\ \A d \in Agents : d # a => calls'[d] = calls[d]
    BY <1>19, <1>20, CallReplaced DEF EvidenceInv, EvidenceTypes
  <1>24. \A d \in Agents : calls'[d] = calls[d] \/ CallOK(calls[d])'
    BY <1>20, <1>23
  <1>25. EvidenceTypes'
    BY <1>3, <1>15, <1>23 DEF EvidenceInv, EvidenceTypes, operated
  <1>26. QED
    BY <1>3, <1>15, <1>21, <1>22, <1>24, <1>25, InvFromParts DEF operated

------------------------------------------------------------------------------
(* Batches, qualifications and attestations                                 *)

LEMMA PublishBatchStep ==
  ASSUME EvidenceInv, NEW a \in Agents, PublishBatch(a)
  PROVE  EvidenceInv'
  <1>1. PICK old \in Call : old = calls[a] /\ CallOK(old)
    BY CallOf
  <1>2. /\ old.pc = "batch" /\ BatchVerifies(old) /\ old.subject \in Subject
        /\ old.results \in Seq(TestResult)
    BY <1>1 DEF PublishBatch, At, CallOK, Call
  <1>3. PICK batch : batch = [subject |-> old.subject, results |-> old.results]
    OBVIOUS
  <1>4. batch \in Batch /\ BatchVerifies(batch)
    BY <1>2, <1>3 DEF Batch, BatchVerifies, RunVerifies
  <1>5. batches' = Append(batches, batch) /\ batches \in Seq(Batch) /\ Goes(a, Resting)
    BY <1>1, <1>3 DEF PublishBatch, EvidenceInv, EvidenceTypes
  <1>6. LogGrows /\ LogInv' /\ HeadsLatest' /\ HeadsStay
    BY SameLog DEF PublishBatch
  <1>7. RunsGrow /\ BuildsStay /\ QualificationsGrow
    BY DEF PublishBatch, RunsGrow, BuildsStay, QualificationsGrow, operated, EvidenceInv,
           EvidenceTypes
  <1>8. BatchVerifies(batch)'
    BY <1>4, <1>7, BatchKept
  <1>9. /\ batches' \in Seq(Batch)
        /\ \A n \in DOMAIN batches' : \/ n \in DOMAIN batches /\ batches'[n] = batches[n]
                                      \/ batches'[n] = batch
    BY <1>4, <1>5
  <1>10. \A n \in DOMAIN batches' : \/ n \in DOMAIN batches /\ batches'[n] = batches[n]
                                   \/ BatchVerifies(batches[n])'
    BY <1>8, <1>9
  <1>11. /\ calls' \in [Agents -> Call] /\ calls'[a] = Resting
         /\ \A b \in Agents : b # a => calls'[b] = calls[b]
    BY <1>5, RestingCall, CallReplaced DEF EvidenceInv, EvidenceTypes
  <1>12. \A b \in Agents : calls'[b] = calls[b] \/ CallOK(calls[b])'
    BY <1>11, RestingCall
  <1>13. EvidenceTypes'
    BY <1>9, <1>11 DEF PublishBatch, EvidenceInv, EvidenceTypes, operated
  <1>14. QED
    BY <1>6, <1>7, <1>10, <1>12, <1>13, InvFromParts DEF PublishBatch, operated

\* When a head is looked at, nothing later is on its branch.
LEMMA HeadIsLatest ==
  ASSUME EvidenceInv, NEW k \in Keys, NEW n \in Nat, n <= Len(revs)
  PROVE  NoneLater(k, heads[k], n)
  <1>1. 1 .. n \subseteq RevIds
    BY DEF RevIds, EvidenceInv, LogInv, LogTypeOK
  <1>2. QED
    BY <1>1 DEF NoneLater, EvidenceInv, HeadsLatest

LEMMA CompareTargetStep ==
  ASSUME EvidenceInv, NEW a \in Agents, CompareTarget(a)
  PROVE  EvidenceInv'
  <1>1. PICK old \in Call : old = calls[a] /\ CallOK(old)
    BY CallOf
  <1>2. PICK current \in BOOLEAN : current <=> heads[old.subject.target] = old.subject.left
    OBVIOUS
  <1> DEFINE c == [old EXCEPT !.pc = "compare", !.current = current]
  <1>3. Goes(a, c) /\ old.pc = "target"
    BY <1>1, <1>2 DEF CompareTarget, At
  <1>4. /\ c \in Call
        /\ c.pc = "compare" /\ c.kind = old.kind /\ c.subject = old.subject
        /\ c.state = old.state /\ c.selection = old.selection /\ c.results = old.results
        /\ c.at = old.at /\ c.current = current
    BY DEF Call, Completing
  <1> HIDE DEF c
  <1>5. old.subject.target \in Keys /\ old.at \in Nat /\ old.at <= Len(revs) /\ Len(revs) \in Nat
    BY <1>1, <1>3 DEF CallOK, Completing, Call, Subject, EvidenceInv, LogInv, LogTypeOK
  <1>6. current => NoneLater(old.subject.target, old.subject.left, old.at)
    BY <1>2, <1>5, HeadIsLatest
  <1>7. CallOK(c)
    BY <1>1, <1>3, <1>4, <1>6
       DEF CallOK, Compiling, Executing, Completing, BatchVerifies, RunVerifies
  <1>8. QED
    BY <1>3, <1>4, <1>7, OnlyCall DEF CompareTarget

LEMMA CompareSourceStep ==
  ASSUME EvidenceInv, NEW a \in Agents, CompareSource(a)
  PROVE  EvidenceInv'
  <1>1. PICK old \in Call : old = calls[a] /\ CallOK(old)
    BY CallOf
  <1>2. PICK current \in BOOLEAN :
           current <=> old.current /\ heads[old.subject.source] = old.subject.right
    OBVIOUS
  <1> DEFINE c == [old EXCEPT !.pc = "qualified", !.current = current]
  <1>3. Goes(a, c) /\ old.pc = "compare"
    BY <1>1, <1>2 DEF CompareSource, At, Call
  <1>4. /\ c \in Call
        /\ c.pc = "qualified" /\ c.kind = old.kind /\ c.subject = old.subject
        /\ c.state = old.state /\ c.selection = old.selection /\ c.results = old.results
        /\ c.at = old.at /\ c.current = current
    BY DEF Call, Completing
  <1> HIDE DEF c
  <1>5. old.subject.source \in Keys /\ old.at \in Nat /\ old.at <= Len(revs) /\ Len(revs) \in Nat
    BY <1>1, <1>3 DEF CallOK, Completing, Call, Subject, EvidenceInv, LogInv, LogTypeOK
  <1>6. current => /\ NoneLater(old.subject.target, old.subject.left, old.at)
                   /\ NoneLater(old.subject.source, old.subject.right, old.at)
    BY <1>1, <1>2, <1>3, <1>5, HeadIsLatest DEF CallOK
  <1>7. CallOK(c)
    BY <1>1, <1>3, <1>4, <1>6
       DEF CallOK, Compiling, Executing, Completing, BatchVerifies, RunVerifies
  <1>8. QED
    BY <1>3, <1>4, <1>7, OnlyCall DEF CompareSource

LEMMA PublishQualificationStep ==
  ASSUME EvidenceInv, NEW a \in Agents, PublishQualification(a)
  PROVE  EvidenceInv'
  <1>1. PICK old \in Call : old = calls[a] /\ CallOK(old)
    BY CallOf
  <1>2. PICK q : q = [subject |-> old.subject, build |-> old.build, results |-> old.results,
                      current |-> old.current, at |-> old.at]
    OBVIOUS
  <1>3. /\ old.pc = "qualified" /\ QualificationVerifies(q) /\ Goes(a, Resting)
        /\ qualifications' = Append(qualifications, q)
    BY <1>1, <1>2 DEF PublishQualification, At
  <1>4. old.build \in Build
    BY <1>2, <1>3, BuildType DEF QualificationVerifies
  <1>5. q \in Qualification
    BY <1>2, <1>4 DEF Qualification, Call
  <1>6. QualificationOK(q)
    BY <1>1, <1>2, <1>3 DEF QualificationOK, CallOK, Completing
  <1>7. LogGrows /\ LogInv' /\ HeadsLatest' /\ HeadsStay
    BY SameLog DEF PublishQualification
  <1>8. RunsGrow /\ BuildsStay
    BY DEF PublishQualification, RunsGrow, BuildsStay, operated, EvidenceInv, EvidenceTypes
  <1>9. QualificationOK(q)'
    BY <1>5, <1>6, <1>7, <1>8, QualificationKept DEF EvidenceInv, LogInv
  <1>10. /\ qualifications' \in Seq(Qualification) /\ QualificationsGrow
         /\ \A n \in DOMAIN qualifications' :
               n \in DOMAIN qualifications \/ qualifications'[n] = q
    BY <1>3, <1>5 DEF EvidenceInv, EvidenceTypes, QualificationsGrow
  <1>11. \A n \in DOMAIN qualifications' :
            n \in DOMAIN qualifications \/ QualificationOK(qualifications[n])'
    BY <1>9, <1>10
  <1>12. /\ calls' \in [Agents -> Call] /\ calls'[a] = Resting
         /\ \A b \in Agents : b # a => calls'[b] = calls[b]
    BY <1>3, RestingCall, CallReplaced DEF EvidenceInv, EvidenceTypes
  <1>13. \A b \in Agents : calls'[b] = calls[b] \/ CallOK(calls[b])'
    BY <1>12, RestingCall
  <1>14. EvidenceTypes'
    BY <1>10, <1>12 DEF PublishQualification, EvidenceInv, EvidenceTypes, operated
  <1>15. QED
    BY <1>7, <1>8, <1>10, <1>11, <1>13, <1>14, InvFromParts DEF PublishQualification, operated

LEMMA AttestStep ==
  ASSUME EvidenceInv, NEW q \in DOMAIN qualifications, NEW r \in RevIds, Attest(q, r)
  PROVE  EvidenceInv'
  <1>1. PICK t : t = [qualification |-> q, revision |-> r]
    OBVIOUS
  <1>2. attestations' = attestations \cup {t} /\ ExactMerge(qualifications[q], r)
    BY <1>1 DEF Attest
  <1>3. q \in Nat /\ r \in Nat
    BY DEF EvidenceInv, EvidenceTypes, RevIds
  <1>4. t \in Attestation /\ t.qualification = q /\ t.revision = r
    BY <1>1, <1>3 DEF Attestation
  <1>5. LogGrows /\ LogInv' /\ HeadsLatest' /\ HeadsStay
    BY SameLog DEF Attest
  <1>6. RunsGrow /\ BuildsStay /\ QualificationsGrow
    BY DEF Attest, RunsGrow, BuildsStay, QualificationsGrow, operated, EvidenceInv,
           EvidenceTypes
  <1>7. AttestationOK(t)'
    BY <1>2, <1>4 DEF Attest, AttestationOK, ExactMerge, StateOf, RevIds, logVars
  <1>8. EvidenceTypes'
    BY <1>2, <1>4 DEF Attest, EvidenceInv, EvidenceTypes, operated
  <1>9. QED
    BY <1>2, <1>5, <1>6, <1>7, <1>8, InvFromParts DEF Attest, operated

------------------------------------------------------------------------------
(* The others                                                               *)

\* A publication makes its revision the head of its branch.
LEMMA HeadsLatestStep ==
  ASSUME LogInv, HeadsLatest, LogNext
  PROVE  HeadsLatest' /\ HeadsStay
  <1>1. CASE BranchStep
    <2>1. PICK k \in Keys, r \in RevIds :
             /\ heads[k] = NoRev
             /\ heads' = [heads EXCEPT ![k] = r]
             /\ UNCHANGED <<revs, documents>>
      BY <1>1 DEF BranchStep
    <2>2. heads'[k] = r /\ \A j \in Keys : j # k => heads'[j] = heads[j]
      BY <2>1 DEF LogInv, LogTypeOK
    <2>3. \A q \in RevIds : <<revs[q].project, revs[q].branch>> # k
      BY <2>1 DEF HeadsLatest, RevIds, NoRev
    <2>4. RevIds' = RevIds /\ revs' = revs
      BY <2>1, BranchKeepsRevisions
    <2>5. HeadsLatest'
      BY <2>2, <2>3, <2>4 DEF HeadsLatest
    <2>6. QED
      BY <2>1, <2>2, <2>5 DEF HeadsStay
  <1>2. CASE PublishStep
    <2>1. PICK k \in Keys, p2 \in RevIds \cup {NoRev}, snap \in Snapshots,
               written \in SUBSET Modules, extra \in SUBSET Contents :
             /\ p2 # NoRev => revs[p2].project = k[1]
             /\ Publish(k, heads[k], p2, snap, written, extra)
      BY <1>2 DEF PublishStep
    <2>2. PICK n : n = Len(revs) + 1
      OBVIOUS
    <2>3. /\ Len(revs) \in Nat
          /\ RevIds' = RevIds \cup {n}
          /\ \A r \in RevIds : revs'[r] = revs[r]
          /\ heads' = [heads EXCEPT ![k] = n]
      BY <2>1, <2>2, PublishFacts
    <2>4. revs'[n].project = k[1] /\ revs'[n].branch = k[2]
      BY <2>1, <2>2 DEF Publish, InsertRevision, LogInv, LogTypeOK
    <2>5. k = <<k[1], k[2]>>
      BY DEF Keys
    <2>6. heads'[k] = n /\ \A j \in Keys : j # k => heads'[j] = heads[j]
      BY <2>3 DEF LogInv, LogTypeOK
    <2>7. \A r \in RevIds : r <= n
      BY <2>2, <2>3 DEF RevIds
    <2>8. HeadsLatest'
      <3>1. ASSUME NEW r \in RevIds', NEW j \in Keys,
                   <<revs'[r].project, revs'[r].branch>> = j
            PROVE  r <= heads'[j]
        <4>1. CASE j = k
          BY <2>2, <2>3, <2>6, <2>7, <4>1
        <4>2. CASE j # k
          <5>1. r # n
            BY <2>4, <2>5, <3>1, <4>2
          <5>2. QED
            BY <2>3, <2>6, <3>1, <4>2, <5>1 DEF HeadsLatest
        <4>3. QED
          BY <4>1, <4>2
      <3>2. QED
        BY <3>1 DEF HeadsLatest
    <2>9. QED
      BY <2>2, <2>3, <2>6, <2>8 DEF HeadsStay, NoRev
  <1>3. QED
    BY <1>1, <1>2, StepShape

LEMMA EditStep ==
  ASSUME EvidenceInv, Edit
  PROVE  EvidenceInv'
  <1>1. LogNext
    BY DEF Edit, LogNext
  <1>2. LogInv /\ [LogNext]_logVars
    BY <1>1 DEF EvidenceInv
  <1>3. LogGrows /\ LogInv'
    BY <1>2, StepGrows, LogInvStep
  <1>4. HeadsLatest' /\ HeadsStay
    BY <1>1, HeadsLatestStep DEF EvidenceInv
  <1>5. UNCHANGED <<builds, runs, batches, qualifications, attestations, away, touched, calls>>
    BY DEF Edit, retained, operated
  <1>6. RunsGrow /\ BuildsStay /\ QualificationsGrow
    BY <1>5 DEF RunsGrow, BuildsStay, QualificationsGrow, EvidenceInv, EvidenceTypes
  <1>7. EvidenceTypes'
    BY <1>5 DEF EvidenceInv, EvidenceTypes
  <1>8. QED
    BY <1>3, <1>4, <1>5, <1>6, <1>7, InvFromParts

LEMMA MoveBuildAwayStep ==
  ASSUME EvidenceInv, NEW b \in builds, MoveBuildAway(b)
  PROVE  EvidenceInv'
  <1>1. LogGrows /\ LogInv' /\ HeadsLatest' /\ HeadsStay
    BY SameLog DEF MoveBuildAway
  <1>2. RunsGrow /\ BuildsStay /\ QualificationsGrow
    BY DEF MoveBuildAway, RunsGrow, BuildsStay, QualificationsGrow, EvidenceInv, EvidenceTypes
  <1>3. EvidenceTypes'
    BY DEF MoveBuildAway, EvidenceInv, EvidenceTypes
  <1>4. QED
    BY <1>1, <1>2, <1>3, InvFromParts DEF MoveBuildAway

LEMMA MoveBuildBackStep ==
  ASSUME EvidenceInv, NEW b \in away, MoveBuildBack(b)
  PROVE  EvidenceInv'
  <1>1. LogGrows /\ LogInv' /\ HeadsLatest' /\ HeadsStay
    BY SameLog DEF MoveBuildBack
  <1>2. RunsGrow /\ BuildsStay /\ QualificationsGrow
    BY DEF MoveBuildBack, RunsGrow, BuildsStay, QualificationsGrow, EvidenceInv, EvidenceTypes
  <1>3. EvidenceTypes'
    BY DEF MoveBuildBack, EvidenceInv, EvidenceTypes
  <1>4. QED
    BY <1>1, <1>2, <1>3, InvFromParts DEF MoveBuildBack

------------------------------------------------------------------------------
(* The invariant                                                            *)

LEMMA EvidenceInvInit == EvidenceInit => EvidenceInv
  <1> SUFFICES ASSUME EvidenceInit PROVE EvidenceInv
    OBVIOUS
  <1>1. LogTypeOK
    BY EvidenceAssumption DEF EvidenceInit, LogTypeOK
  <1>2. ProjectClosed
    <2>1. revs = Start.revs /\ heads = Start.heads /\ RevIds = DOMAIN Start.revs
      BY EvidenceAssumption DEF EvidenceInit, RevIds
    <2>2. \A r \in RevIds : \A q \in {revs[r].parent1, revs[r].parent2} \ {NoRev} :
             q \in 1 .. (r - 1) /\ revs[q].project = revs[r].project
      BY <2>1, EvidenceAssumption
    <2>3. \A k \in Keys : heads[k] # NoRev =>
             heads[k] \in RevIds /\ revs[heads[k]].project = k[1]
      BY <2>1, EvidenceAssumption
    <2>4. QED
      BY <2>2, <2>3 DEF ProjectClosed
  <1>3. HeadsLatest
    BY EvidenceAssumption DEF EvidenceInit, HeadsLatest, RevIds
  <1>4. EvidenceTypes
    BY RestingCall DEF EvidenceInit, EvidenceTypes
  <1>5. \A a \in Agents : CallOK(calls[a])
    BY RestingCall DEF EvidenceInit
  <1>6. QED
    BY <1>1, <1>2, <1>3, <1>4, <1>5 DEF EvidenceInit, EvidenceInv, LogInv

LEMMA AbortStep ==
  ASSUME EvidenceInv, NEW a \in Agents, Abort(a)
  PROVE  EvidenceInv'
  BY RestingCall, OnlyCall DEF Abort

LEMMA StutterStep ==
  ASSUME EvidenceInv, UNCHANGED evidence
  PROVE  EvidenceInv'
  <1>1. LogGrows /\ LogInv' /\ HeadsLatest' /\ HeadsStay
    BY SameLog DEF evidence
  <1>2. RunsGrow /\ BuildsStay /\ QualificationsGrow
    BY DEF evidence, retained, operated, RunsGrow, BuildsStay, QualificationsGrow, EvidenceInv,
           EvidenceTypes
  <1>3. EvidenceTypes'
    BY DEF evidence, retained, operated, EvidenceInv, EvidenceTypes
  <1>4. QED
    BY <1>1, <1>2, <1>3, InvFromParts DEF evidence, retained, operated

LEMMA EvidenceInvStep ==
  ASSUME EvidenceInv, [EvidenceNext]_evidence
  PROVE  EvidenceInv'
  <1>1. ASSUME NEW a \in Agents, AgentSteps(a) PROVE EvidenceInv'
    BY <1>1, StartRunsStep, StartQualificationStep, ReadSourceStep, FindBuildStep, CompileStep,
       PublishBuildStep, ReadBuildStep, HashExecutableStep, RunSandboxStep, PublishBatchStep,
       CompareTargetStep, CompareSourceStep, PublishQualificationStep, AbortStep
       DEF AgentSteps
  <1>2. QED
    BY <1>1, AttestStep, BuildElsewhereStep, EditStep, MoveBuildAwayStep, MoveBuildBackStep,
       StutterStep DEF EvidenceNext

LEMMA EvidenceInvAlways == EvidenceSpec => []EvidenceInv
  BY EvidenceInvInit, EvidenceInvStep, PTL DEF EvidenceSpec

------------------------------------------------------------------------------
(* What evidence guarantees                                                 *)

\* A qualification describes tests of the very merge it names, run with a build of
\* that merge, and an attested revision is that merge, with the same parents and
\* the same content.
THEOREM AttestedMergesTested == EvidenceSpec => []AttestedIsTested
  <1>1. ASSUME EvidenceInv, NEW n \in DOMAIN qualifications
        PROVE  Describes(qualifications[n].results, StateOf(qualifications[n].subject))
    BY <1>1 DEF EvidenceInv, QualificationOK
  <1>2. ASSUME EvidenceInv, NEW t \in attestations
        PROVE  LET q == qualifications[t.qualification]
               IN  /\ Describes(q.results, revs[t.revision].snap)
                   /\ <<revs[t.revision].parent1, revs[t.revision].parent2>>
                        = <<q.subject.left, q.subject.right>>
    <2>1. AttestationOK(t)
      BY <1>2 DEF EvidenceInv
    <2>2. QED
      BY <1>1, <1>2, <2>1 DEF AttestationOK, ExactMerge
  <1>3. EvidenceInv => AttestedIsTested
    BY <1>1, <1>2 DEF AttestedIsTested
  <1>4. QED
    BY <1>3, EvidenceInvAlways, PTL

\* Batches, qualifications and attestations go on to verify, with everything they
\* rest on, however builds are published and replaced; only operators who move a
\* build away take that from its qualifications.
THEOREM EvidenceGoesOnToVerify == EvidenceSpec => []EvidenceStaysReadable
  <1>1. ASSUME EvidenceInv, NEW t \in attestations,
               qualifications[t.qualification].subject \notin touched
        PROVE  AttestationVerifies(t)
    BY <1>1 DEF EvidenceInv, AttestationOK, QualificationOK, AttestationVerifies
  <1>2. EvidenceInv => EvidenceStaysReadable
    BY <1>1 DEF EvidenceInv, QualificationOK, EvidenceStaysReadable
  <1>3. QED
    BY <1>2, EvidenceInvAlways, PTL

\* A qualification that claims current heads was complete before either of its
\* branches went on, although the two heads are looked at one after the other.
THEOREM CurrentWhenCompleted == EvidenceSpec => []CurrentAtCompletion
  <1>1. EvidenceInv => CurrentAtCompletion
    BY DEF EvidenceInv, QualificationOK, NoneLater, CurrentAtCompletion
  <1>2. QED
    BY <1>1, EvidenceInvAlways, PTL

==============================================================================
