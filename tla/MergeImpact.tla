----------------------------- MODULE MergeImpact -----------------------------
(****************************************************************************)
(* What a change touches, and what may be left out because of it.  A plan   *)
(* selects the tests a change may affect; a validation set compiles the     *)
(* build targets that a merge may affect, before the merge is published.    *)
(*                                                                          *)
(* An agent keeps the results of the tests it has run and runs, from one    *)
(* revision to the next, only those that a plan selects.  It merges behind  *)
(* a gate: it analyses the merge, validates each affected target and        *)
(* publishes, and every one of these steps reads the two heads again, one   *)
(* after the other.  It may run the tests on the virtual merge, too.        *)
(*                                                                          *)
(* Compiling and testing succeed here; a failure ends the gate.  How many   *)
(* targets one set may validate, and pages of results, are left out.        *)
(****************************************************************************)
EXTENDS ProjectMetadata, FiniteSets

CONSTANT MaxGated   \* bound: revisions there may be after a merge behind the gate

VARIABLES
  gate,      \* the validated merge that the agent is making
  tested     \* the revision whose tests have passed for the agent, and what passed

impactVars == <<gate, tested>>

NoPreview == [ours |-> NoRev, theirs |-> NoRev]

NoGate == [pc |-> "idle", target |-> NobodyCalls.branch, source |-> NobodyCalls.branch,
           accepts |-> FALSE, ours |-> NoRev, preview |-> NoPreview,
           left |-> {}, compiled |-> {}, tests |-> FALSE, published |-> NoRev]

NothingTested == [at |-> NoRev, passed |-> {}]

ImpactInit == MetadataInit /\ gate = NoGate /\ tested = NothingTested

------------------------------------------------------------------------------
(* Impact *)

Changed(before, after) == {d \in Modules : before[d] # after[d]}

\* Mutant: a test is not asked what its build target is made of.
SelectedByTargets(before, after) ==
  {t \in Tests : /\ Present(after, t)
                 /\ Changed(before, after) \cap {t, after[t].build} # {}}

\* Tests whose definition, build target or source has changed.
Selected(before, after) ==
  LET changed == Changed(before, after)
  IN  {t \in Tests :
         /\ Present(after, t)
         /\ changed \cap {t, after[t].build, after[after[t].build].document} # {}}

\* The sources of a build target: what of its definition a compiler gets to see.
SourcesOf(state, b) == IF Present(state, b) THEN {state[b].document} ELSE {}

\* Mutant: targets whose definition changes are not affected.
AffectedBySources(before, after) ==
  {b \in Builds : (SourcesOf(before, b) \cap SourcesOf(after, b)) \cap Changed(before, after) # {}}

Affected(before, after) ==
  {b \in Builds :
     \/ SourcesOf(before, b) # SourcesOf(after, b)
     \/ (SourcesOf(before, b) \cup SourcesOf(after, b)) \cap Changed(before, after) # {}}

Surviving(before, after) == {b \in Affected(before, after) : Present(after, b)}

\* Changed sources that no target of the merge compiles.
Uncovered(before, after) ==
  (Sources \cap Changed(before, after)) \ UNION {SourcesOf(after, b) : b \in Builds}

------------------------------------------------------------------------------
(* Tests, from one revision to the next *)

\* Everything the result of a build depends on, and of a test.
Compiles(state, b) == [build |-> b, text |-> state[state[b].document].text]

Runs(state, t) == [test |-> t, compiles |-> Compiles(state, state[t].build)]

RunAll(state, tests) == {Runs(state, t) : t \in tests}

\* All tests of the head of a branch, once.
TestHead(k) ==
  /\ tested.at = NoRev
  /\ heads[k] # NoRev
  /\ tested' = [at |-> heads[k],
                passed |-> RunAll(State(heads[k]), {t \in Tests : Present(State(heads[k]), t)})]
  /\ UNCHANGED <<logVars, metadataVars, gate>>

\* The tests that a plan from the tested revision to another one selects.
RunPlan(k) ==
  /\ tested.at # NoRev
  /\ heads[k] \notin {NoRev, tested.at}
  /\ tested' = [at |-> heads[k],
                passed |-> tested.passed \cup
                  RunAll(State(heads[k]), Selected(State(tested.at), State(heads[k])))]
  /\ UNCHANGED <<logVars, metadataVars, gate>>

------------------------------------------------------------------------------
(* The gate *)

SetGate(g) == gate' = g /\ UNCHANGED <<logVars, metadataVars>>

StartGate(k, source) ==
  /\ gate.pc \in {"idle", "published"}
  /\ k # source
  /\ NoRev \notin {heads[k], heads[source]}
  /\ \E accepts \in BOOLEAN :
       SetGate([NoGate EXCEPT !.pc = "ours", !.target = k, !.source = source,
                              !.accepts = accepts])
  /\ UNCHANGED tested

ReadOurs ==
  /\ gate.pc = "ours"
  /\ SetGate([gate EXCEPT !.pc = "theirs", !.ours = heads[gate.target]])
  /\ UNCHANGED tested

\* Two revisions merge cleanly.
CleanMerge(ours, theirs) ==
  LET bases == BestCommonAncestors(ours, theirs)
  IN  /\ Cardinality(bases) = 1
      /\ \A base \in bases :
           /\ Mergeable(revs[base].snap, revs[ours].snap, revs[theirs].snap)
           /\ TreesMerge(base, ours, theirs)
           /\ Checks(MergedState(base, ours, theirs))

\* The virtual merge of two revisions that merge cleanly.
Candidate(ours, theirs) ==
  MergedState(CHOOSE base \in BestCommonAncestors(ours, theirs) : TRUE, ours, theirs)

Analyze ==
  LET ours   == gate.ours
      theirs == heads[gate.source]
      before == State(ours)
      after  == Candidate(ours, theirs)
  IN  /\ gate.pc = "theirs"
      /\ gate.preview = NoPreview
      /\ CleanMerge(ours, theirs)
      /\ gate.accepts \/ Uncovered(before, after) = {}
      /\ SetGate([gate EXCEPT !.pc = "ours", !.preview = [ours |-> ours, theirs |-> theirs],
                              !.left = Surviving(before, after)])
      /\ UNCHANGED tested

\* The heads give the preview again that has been analysed.
SamePreview(ours, theirs) == gate.preview = [ours |-> ours, theirs |-> theirs]

ValidateTarget(b) ==
  LET theirs == heads[gate.source]
  IN  /\ gate.pc = "theirs"
      /\ b \in gate.left
      /\ SamePreview(gate.ours, theirs)
      /\ SetGate([gate EXCEPT !.pc = "ours", !.left = @ \ {b},
                    !.compiled = @ \cup {Compiles(Candidate(gate.ours, theirs), b)}])
      /\ UNCHANGED tested

\* The tests that a plan from the target to the virtual merge selects.
TestCandidate ==
  LET theirs == heads[gate.source]
      after  == Candidate(gate.ours, theirs)
  IN  /\ gate.pc = "theirs"
      /\ ~gate.tests
      /\ SamePreview(gate.ours, theirs)
      /\ tested.at = gate.ours
      /\ tested' = [tested EXCEPT !.passed =
                      @ \cup RunAll(after, Selected(State(gate.ours), after))]
      /\ SetGate([gate EXCEPT !.pc = "ours", !.tests = TRUE])

\* All affected targets are valid: the set is ready, and the merge goes on.
BeginMerge ==
  /\ gate.pc = "theirs"
  /\ gate.preview # NoPreview
  /\ gate.left = {}
  /\ SamePreview(gate.ours, heads[gate.source])
  /\ SetGate([gate EXCEPT !.pc = "ready"])
  /\ UNCHANGED tested

\* Mutant: the publishing transaction forgets the head of the target.
SourceAsPreviewed == heads[gate.source] = gate.preview.theirs

HeadsAsPreviewed ==
  /\ heads[gate.target] = gate.preview.ours
  /\ heads[gate.source] = gate.preview.theirs

PublishReady ==
  /\ gate.pc = "ready"
  /\ HeadsAsPreviewed
  /\ MergeMetadata(gate.target, gate.source)
  /\ gate' = [gate EXCEPT !.pc = "published", !.published = Len(revs) + 1]
  /\ tested' = IF ~gate.tests THEN tested
               ELSE [tested EXCEPT !.at = Len(revs) + 1]
  /\ UNCHANGED call

\* A check or a compilation fails, or the process dies.
FailGate ==
  /\ gate.pc \notin {"idle", "published"}
  /\ SetGate(NoGate)
  /\ UNCHANGED tested

------------------------------------------------------------------------------
ImpactNext ==
  \/ \E k \in Keys : TestHead(k) \/ RunPlan(k)
  \/ \E k, source \in Keys : StartGate(k, source)
  \/ ReadOurs \/ Analyze \/ TestCandidate \/ BeginMerge \/ FailGate
  \/ \E b \in Builds : ValidateTarget(b)
  \/ Len(revs) < MaxGated /\ PublishReady
  \/ Len(revs) < MaxRevs /\ OthersPublish /\ UNCHANGED impactVars

------------------------------------------------------------------------------
\* In the merge that was published behind the gate, every target either compiles
\* the very sources it compiled before the merge or was validated with its
\* sources, whatever moved in between; and every source that changed is compiled
\* by some target, unless the caller accepted that.
GatedMergesCompile ==
  gate.pc = "published" =>
    LET after  == State(gate.published)
        before == State(revs[gate.published].parent1)
    IN  /\ \A b \in Builds : Present(after, b) =>
             \/ Compiles(after, b) \in gate.compiled
             \/ Present(before, b) /\ Compiles(after, b) = Compiles(before, b)
        /\ gate.accepts \/ \A d \in Sources : after[d] # before[d] =>
             \E b \in Builds : Present(after, b) /\ after[b].document = d

\* Every test of the tested revision has passed with exactly the text it now
\* runs, although most steps ran only the tests that a plan selected.
TestedThroughout ==
  tested.at # NoRev =>
    LET state == State(tested.at)
    IN  \A t \in Tests : Present(state, t) => Runs(state, t) \in tested.passed

\* Both: whatever impact analysis leaves out has not changed.
ImpactComplete == GatedMergesCompile /\ TestedThroughout
==============================================================================
