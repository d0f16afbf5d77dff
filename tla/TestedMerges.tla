---------------------------- MODULE TestedMerges -----------------------------
(****************************************************************************)
(* Evidence about revisions and merges: builds, test runs, batches of runs, *)
(* qualifications of a merge that is not committed yet, and attestations    *)
(* that a committed merge is the one a qualification tested.                *)
(*                                                                          *)
(* Every kind of evidence names the others it rests on by the hash of their *)
(* manifests, and each is verified again, with all it rests on, whenever it *)
(* is read.  Agents work while the heads move and operators move builds out *)
(* of the way and back.                                                     *)
(*                                                                          *)
(* A publication is one step here (RetainedArtifacts shows that it is), and *)
(* so is one of RevisionLog's operations (RevisionStore implements them).   *)
(* The tests of a project all run the program of one build target.          *)
(****************************************************************************)
EXTENDS RevisionLog, SequencesExt, FiniteSetsExt

CONSTANTS
  Start,        \* the repository the agents find: revisions and heads
  Program,      \* the document that is built
  Selections,   \* sequences of tests; a test is the document that defines it
  Agents,
  Executables,  \* the compiler need not be reproducible: variants of its output
  MaxRuns,      \* bound: retained runs, and as many batches
  MaxQualifications, \* bound
  MaxMoves      \* bound: builds that operators move away

\* The agents find a project that was committed revision by revision, and a
\* selection of tests is never empty.
ASSUME EvidenceAssumption ==
  /\ Start.revs \in Seq(Revision)
  /\ Start.heads \in [Keys -> Nat]
  /\ \A r \in DOMAIN Start.revs :
        /\ \A p \in {Start.revs[r].parent1, Start.revs[r].parent2} \ {NoRev} :
              p \in 1 .. (r - 1) /\ Start.revs[p].project = Start.revs[r].project
        /\ \A k \in Keys :
              <<Start.revs[r].project, Start.revs[r].branch>> = k => r <= Start.heads[k]
  /\ \A k \in Keys : Start.heads[k] # NoRev =>
        /\ Start.heads[k] \in DOMAIN Start.revs
        /\ Start.revs[Start.heads[k]].project = k[1]
  /\ \A selection \in Selections : selection \in Seq(Modules) /\ selection # << >>

VARIABLES
  builds,          \* retained builds of revisions and of virtual merges
  away,            \* builds that operators have moved out of the root
  moves,           \* how many they did so far
  touched,         \* the subjects of these
  runs,            \* retained test runs, in the order of their publication
  batches,
  qualifications,
  attestations,
  calls            \* what each agent's call is doing

retained == <<builds, runs, batches, qualifications, attestations>>
operated == <<away, moves, touched>>
evidence == <<logVars, retained, operated, calls>>

SomeKey == CHOOSE k \in Keys : TRUE

\* What is built and tested: a revision, or the virtual merge of two heads.
Committed(r) ==
  [target |-> SomeKey, source |-> SomeKey, base |-> r, left |-> r, right |-> NoRev]

\* A virtual merge is reconstructed from its revisions whenever it is verified.
StateOf(s) ==
  IF s.right = NoRev THEN revs[s.left].snap
  ELSE ThreeWay(revs[s.base].snap, revs[s.left].snap, revs[s.right].snap)

BaseVerifies(s) == BestCommonAncestors(s.left, s.right) = {s.base}

Clean(s) ==
  BothChanged(revs[s.base].snap, revs[s.left].snap, revs[s.right].snap) = {}

Resting == [pc |-> "idle", kind |-> "none", subject |-> Committed(NoRev), state |-> << >>,
            selection |-> << >>, results |-> << >>, build |-> << >>, at |-> 0, current |-> FALSE]

EvidenceInit ==
  /\ revs = Start.revs
  /\ heads = Start.heads
  /\ documents = {}
  /\ builds = {}
  /\ away = {}
  /\ moves = 0
  /\ touched = {}
  /\ runs = << >>
  /\ batches = << >>
  /\ qualifications = << >>
  /\ attestations = {}
  /\ calls = [a \in Agents |-> Resting]

\* What is being tested, or was.  A build of anything else is seen by nobody.
Subjects ==
  {calls[a].subject : a \in {b \in Agents : calls[b].pc \notin {"idle", "source"}}} \cup
  {qualifications[n].subject : n \in DOMAIN qualifications}

------------------------------------------------------------------------------
(* Verification                                                             *)

BuildsOf(s) == {b \in builds : b.subject = s}

Statuses(results) == {results[i].outcome : i \in DOMAIN results}

\* The run of a result, unless the test could not be run.
RunVerifies(b, result) ==
  \/ result.outcome = "error"
  \/ /\ result.run \in DOMAIN runs
     /\ runs[result.run].subject = b.subject
     /\ runs[result.run].test = result.test
     /\ runs[result.run].definition = result.definition
     /\ runs[result.run].outcome = result.outcome

BatchVerifies(b) == \A i \in DOMAIN b.results : RunVerifies(b, b.results[i])

\* The merge is reconstructed (its base, which never changes, is looked up again
\* where something is published), the build is still the one recorded, whatever
\* its status, and every result is by the definition in the merged state.
QualificationVerifies(q) ==
  /\ q.build \in builds
  /\ q.build.subject = q.subject
  /\ \A i \in DOMAIN q.results :
       /\ q.results[i].definition = StateOf(q.subject)[q.results[i].test]
       /\ (q.results[i].outcome = "error") <=> ~q.build.ok

\* Mutant: the committed state is compared, not where it came from.
ExactStateOnly(q, r) == revs[r].snap = StateOf(q.subject)

\* Is revision r that very merge?
ExactMerge(q, r) ==
  /\ revs[r].parent1 = q.subject.left
  /\ revs[r].parent2 = q.subject.right
  /\ revs[r].snap = StateOf(q.subject)

AttestationVerifies(a) ==
  /\ QualificationVerifies(qualifications[a.qualification])
  /\ ExactMerge(qualifications[a.qualification], a.revision)

------------------------------------------------------------------------------
(* Test runs and batches of committed revisions; tests of virtual merges    *)

Goes(a, call) == calls' = [calls EXCEPT ![a] = call]

At(a, pc) == calls[a].pc = pc

\* A run resolves its revision once, and a batch does so for all of its runs.
StartRuns(a, k, kind, selection) ==
  /\ At(a, "idle")
  /\ Len(runs) < MaxRuns
  /\ Program \in Modules /\ heads[k] # NoRev
  /\ kind = "run" => Len(selection) = 1
  /\ LET s == Committed(heads[k])
     IN  /\ \A m \in Range(selection) \cup {Program} : StateOf(s)[m] # Absent
         /\ Goes(a, [Resting EXCEPT !.pc = "build", !.kind = kind, !.subject = s,
                                    !.state = StateOf(s), !.selection = selection])
  /\ UNCHANGED <<logVars, retained, operated>>

StartQualification(a, target, source, selection) ==
  /\ At(a, "idle")
  /\ Len(qualifications) < MaxQualifications
  /\ target # source /\ target[1] = source[1]
  /\ NoRev \notin {heads[target], heads[source]}
  /\ Goes(a, [Resting EXCEPT !.pc = "source", !.kind = "qualification", !.selection = selection,
                !.subject = [target |-> target, source |-> source,
                             base |-> NoRev, left |-> heads[target], right |-> NoRev]])
  /\ UNCHANGED <<logVars, retained, operated>>

\* The candidate is kept in memory from here; a conflict ends the call.
ReadSource(a) ==
  LET right == heads[calls[a].subject.source]
      bases == BestCommonAncestors(calls[a].subject.left, right)
  IN  /\ At(a, "source")
      /\ Cardinality(bases) = 1
      /\ \E base \in bases :
           LET s == [calls[a].subject EXCEPT !.base = base, !.right = right]
           IN  /\ Clean(s)
               /\ \A m \in Range(calls[a].selection) \cup {Program} : StateOf(s)[m] # Absent
               /\ Goes(a, [calls[a] EXCEPT !.pc = "build", !.subject = s, !.state = StateOf(s)])
      /\ UNCHANGED <<logVars, retained, operated>>

------------------------------------------------------------------------------
(* Builds                                                                   *)

FindBuild(a) ==
  /\ At(a, "build")
  /\ \E b \in BuildsOf(calls[a].subject) :
       b.ok /\ Goes(a, [calls[a] EXCEPT !.pc = "hash", !.build = b])
  /\ UNCHANGED <<logVars, retained, operated>>

\* What the compiler makes of the state in memory.
Compile(a) ==
  /\ At(a, "build")
  /\ \A b \in BuildsOf(calls[a].subject) : ~b.ok
  /\ \E x \in Executables, ok \in BOOLEAN :
       Goes(a, [calls[a] EXCEPT !.pc = "publish",
                  !.build = [subject |-> calls[a].subject, ok |-> ok, from |-> calls[a].state,
                             executable |-> IF ok THEN x ELSE "none"]])
  /\ UNCHANGED <<logVars, retained, operated>>

\* Mutant: a build of a virtual merge replaces one that failed.
ReplacesFailed(s) == \A b \in BuildsOf(s) : ~b.ok

\* A build of a revision replaces one that failed; one of a virtual merge finds
\* its name taken, and the call ends.
Replaces(s) == \A b \in BuildsOf(s) : ~b.ok /\ s.right = NoRev

PublishBuild(a) ==
  LET s == calls[a].subject
  IN  /\ At(a, "publish")
      /\ Replaces(s) \/ (\E b \in BuildsOf(s) : b.ok)
      /\ builds' = IF Replaces(s) THEN (builds \ BuildsOf(s)) \cup {calls[a].build} ELSE builds
      /\ Goes(a, [calls[a] EXCEPT !.pc = "read"])
      /\ UNCHANGED <<logVars, runs, batches, qualifications, attestations, operated>>

\* A build on its own: nothing but its publication is seen by anyone else.
BuildElsewhere(s) ==
  /\ Replaces(s)
  /\ \E x \in Executables, ok \in BOOLEAN :
       builds' = (builds \ BuildsOf(s)) \cup {[subject |-> s, ok |-> ok, from |-> StateOf(s),
                                             executable |-> IF ok THEN x ELSE "none"]}
  /\ builds' # builds
  /\ UNCHANGED <<logVars, runs, batches, qualifications, attestations, operated, calls>>

Result(a, outcome, run) ==
  LET test == calls[a].selection[Len(calls[a].results) + 1]
  IN  [test |-> test, definition |-> calls[a].state[test], outcome |-> outcome,
       run |-> run, ran |-> << >>]

\* With the results of so many tests: the next test is built again, except for a
\* virtual merge; after the last one a run ends, and the rest goes on.
Onward(a, results) ==
  IF Len(results) < Len(calls[a].selection)
  THEN [calls[a] EXCEPT !.results = results,
                        !.pc = IF @ = "sandbox" /\ calls[a].kind = "qualification"
                               THEN "hash" ELSE "build"]
  ELSE CASE calls[a].kind = "run" -> Resting
         [] calls[a].kind = "batch" -> [calls[a] EXCEPT !.results = results, !.pc = "batch"]
         [] OTHER -> [calls[a] EXCEPT !.results = results, !.pc = "target", !.at = Len(revs)]

\* The build is read after its publication.  One that failed ends a run, is an
\* error of one test in a batch, and of all tests of a virtual merge.
ReadBuild(a) ==
  /\ At(a, "read")
  /\ \E b \in BuildsOf(calls[a].subject) :
       IF b.ok THEN Goes(a, [calls[a] EXCEPT !.pc = "hash", !.build = b])
       ELSE CASE calls[a].kind = "run" -> Goes(a, Resting)
              [] calls[a].kind = "batch" ->
                   Goes(a, Onward(a, Append(calls[a].results, Result(a, "error", 0))))
              [] OTHER ->
                   Goes(a, [Onward(a, [i \in DOMAIN calls[a].selection |->
                              [test |-> calls[a].selection[i], outcome |-> "error", run |-> 0,
                               definition |-> calls[a].state[calls[a].selection[i]],
                               ran |-> << >>]]) EXCEPT !.build = b])
  /\ UNCHANGED <<logVars, retained, operated>>

------------------------------------------------------------------------------
(* Execution                                                                *)

HashExecutable(a) ==
  /\ At(a, "hash")
  /\ \E b \in BuildsOf(calls[a].subject) : b.executable = calls[a].build.executable
  /\ Goes(a, [calls[a] EXCEPT !.pc = "sandbox"])
  /\ UNCHANGED <<logVars, retained, operated>>

\* The sandbox runs what it finds then.  A run is retained by itself; what is
\* run for a virtual merge goes into its qualification.
RunSandbox(a) ==
  /\ At(a, "sandbox")
  /\ \E b \in BuildsOf(calls[a].subject), outcome \in {"passed", "failed"} :
       LET n      == IF calls[a].kind = "qualification" THEN 0 ELSE Len(runs) + 1
           result == [Result(a, outcome, n) EXCEPT !.ran = b.from]
       IN  /\ b.executable # "none"
           /\ n # 0 => Len(runs) < MaxRuns
           /\ runs' = IF n = 0 THEN runs
                      ELSE Append(runs, [subject |-> calls[a].subject, test |-> result.test,
                                         definition |-> result.definition,
                                         outcome |-> outcome, ran |-> b.from])
           /\ Goes(a, Onward(a, Append(calls[a].results, result)))
  /\ UNCHANGED <<logVars, builds, batches, qualifications, attestations, operated>>

------------------------------------------------------------------------------
(* Batches, qualifications and attestations                                 *)

PublishBatch(a) ==
  /\ At(a, "batch")
  /\ Len(batches) < MaxRuns
  /\ batches' = Append(batches, [subject |-> calls[a].subject, results |-> calls[a].results])
  /\ Goes(a, Resting)
  /\ UNCHANGED <<logVars, builds, runs, qualifications, attestations, operated>>

\* Mutant: the head of the target is not compared.
CompareNoTarget(a) ==
  /\ At(a, "target")
  /\ Goes(a, [calls[a] EXCEPT !.pc = "compare", !.current = TRUE])
  /\ UNCHANGED <<logVars, retained, operated>>

CompareTarget(a) ==
  /\ At(a, "target")
  /\ Goes(a, [calls[a] EXCEPT !.pc = "compare",
                !.current = heads[calls[a].subject.target] = calls[a].subject.left])
  /\ UNCHANGED <<logVars, retained, operated>>

CompareSource(a) ==
  /\ At(a, "compare")
  /\ Goes(a, [calls[a] EXCEPT !.pc = "qualified",
                !.current = @ /\ heads[calls[a].subject.source] = calls[a].subject.right])
  /\ UNCHANGED <<logVars, retained, operated>>

\* Verified with its builds before it is published.
PublishQualification(a) ==
  LET q == [subject |-> calls[a].subject, build |-> calls[a].build,
            results |-> calls[a].results, current |-> calls[a].current, at |-> calls[a].at]
  IN  /\ At(a, "qualified")
      /\ Len(qualifications) < MaxQualifications
      /\ QualificationVerifies(q)
      /\ BaseVerifies(q.subject)
      /\ qualifications' = Append(qualifications, q)
      /\ Goes(a, Resting)
      /\ UNCHANGED <<logVars, builds, runs, batches, attestations, operated>>

\* Whatever the outcome of the tests was.  Its id is a hash of its content: what
\* is attested again is found again.
Attest(q, r) ==
  /\ QualificationVerifies(qualifications[q])
  /\ ExactMerge(qualifications[q], r)
  /\ [qualification |-> q, revision |-> r] \notin attestations
  /\ BaseVerifies(qualifications[q].subject)
  /\ attestations' = attestations \cup {[qualification |-> q, revision |-> r]}
  /\ UNCHANGED <<logVars, builds, runs, batches, qualifications, operated, calls>>

\* A check fails, evidence is gone, the process dies.
Abort(a) ==
  /\ ~At(a, "idle")
  /\ Goes(a, Resting)
  /\ UNCHANGED <<logVars, retained, operated>>

------------------------------------------------------------------------------
(* The others                                                               *)

Edit ==
  /\ Len(revs) < MaxRevs
  /\ \E k \in Keys : \/ \E m \in Modules : WriteModule(k, m)
                     \/ \E source \in Keys \ {k} : Merge(k, source)
  /\ UNCHANGED <<retained, operated, calls>>

MoveBuildAway(b) ==
  /\ moves < MaxMoves
  /\ moves' = moves + 1
  /\ touched' = touched \cup {b.subject}
  /\ builds' = builds \ {b}
  /\ away' = away \cup {b}
  /\ UNCHANGED <<logVars, runs, batches, qualifications, attestations, calls>>

MoveBuildBack(b) ==
  /\ BuildsOf(b.subject) = {}
  /\ builds' = builds \cup {b}
  /\ away' = away \ {b}
  /\ UNCHANGED <<logVars, runs, batches, qualifications, attestations, moves, touched, calls>>

AgentSteps(a) ==
  \/ \E k \in Keys, kind \in {"run", "batch"}, selection \in Selections :
       StartRuns(a, k, kind, selection)
  \/ \E target, source \in Keys, selection \in Selections :
       StartQualification(a, target, source, selection)
  \/ ReadSource(a)
  \/ FindBuild(a) \/ Compile(a) \/ PublishBuild(a) \/ ReadBuild(a)
  \/ HashExecutable(a) \/ RunSandbox(a)
  \/ PublishBatch(a)
  \/ CompareTarget(a) \/ CompareSource(a) \/ PublishQualification(a)
  \/ Abort(a)

EvidenceNext ==
  \/ \E a \in Agents : AgentSteps(a)
  \/ \E q \in DOMAIN qualifications, r \in RevIds : Attest(q, r)
  \/ \E s \in Subjects : BuildElsewhere(s)
  \/ Edit
  \/ \E b \in builds : MoveBuildAway(b)
  \/ \E b \in away : MoveBuildBack(b)

EvidenceSpec == EvidenceInit /\ [][EvidenceNext]_evidence

------------------------------------------------------------------------------
\* Did these tests run what was made of this state, as it defines them?
Describes(results, state) ==
  \A i \in DOMAIN results :
     /\ results[i].definition = state[results[i].test]
     /\ results[i].outcome # "error" => results[i].ran = state

\* A qualification tested the merge of the heads it names, although heads move
\* and builds are shared, replaced and moved meanwhile; and an attested revision
\* is the merge of exactly these heads, and holds exactly what was tested.
AttestedIsTested ==
  /\ \A n \in DOMAIN qualifications :
        Describes(qualifications[n].results, StateOf(qualifications[n].subject))
  /\ \A a \in attestations :
        LET q == qualifications[a.qualification]
        IN  /\ Describes(q.results, revs[a.revision].snap)
            /\ <<revs[a.revision].parent1, revs[a.revision].parent2>>
                 = <<q.subject.left, q.subject.right>>

\* Evidence once published stays readable, with all it rests on, whatever is
\* built, tested and published later: only operators can take that away, and
\* a batch never depends on builds.
EvidenceStaysReadable ==
  /\ \A n \in DOMAIN batches : BatchVerifies(batches[n])
  /\ \A n \in DOMAIN qualifications :
        qualifications[n].subject \notin touched => QualificationVerifies(qualifications[n])
  /\ \A a \in attestations :
        qualifications[a.qualification].subject \notin touched => AttestationVerifies(a)

\* A qualification that says the heads were unchanged at its completion was
\* completed before either branch got another revision, although it looks at one
\* head after the other.
CurrentAtCompletion ==
  \A n \in DOMAIN qualifications :
     LET q == qualifications[n]
     IN  q.current =>
           \A r \in 1 .. q.at :
              /\ <<revs[r].project, revs[r].branch>> = q.subject.target => r <= q.subject.left
              /\ <<revs[r].project, revs[r].branch>> = q.subject.source => r <= q.subject.right
==============================================================================
