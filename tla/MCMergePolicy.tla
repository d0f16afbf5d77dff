---------------------------- MODULE MCMergePolicy ----------------------------
(* Six parts, each apart from the others: one agent reviews and merges while   *)
(* everybody else, in single steps of their own, sets policies, moves heads and *)
(* creates branches; the search of merge bases in every small history; views of *)
(* three branches that others go on to commit to and to merge; readers of the   *)
(* history of such branches; agents who change targets and contracts; and an    *)
(* agent who tests and merges by the impact of changes.                         *)
EXTENDS MergePolicy, RevisionDag, BranchViews, HistoryPages, MergeImpact

CONSTANTS
  Topic, Feature,   \* the other branches
  MaxNodes,         \* bound: revisions of a graph
  PolicyRevs,       \* bound: revisions of the first part
  S1, S2, B1, T1, K1, K2,   \* sources, a build target, a test, two contracts
  Owner, Other              \* agents

VARIABLE part

\* The strictest policy and one that lets the caller accept uncovered documents;
\* no policy at all is the laxest.
SomePolicies ==
  {[preflight |-> TRUE, affected |-> TRUE, uncovered |-> FALSE],
   [preflight |-> FALSE, affected |-> TRUE, uncovered |-> TRUE]}

TheProject == CHOOSE p \in Projects : TRUE

Texts(prose, other) ==
  [m \in Modules |-> CASE m = S2 -> prose [] m = S1 -> other [] OTHER -> Absent]

Commits(branch, parent, snap) ==
  [project |-> TheProject, branch |-> branch, parent1 |-> parent, parent2 |-> NoRev,
   snap |-> snap, docs |-> {}]

\* The first revision is the head of main and holds both documents.
Found(topic, feature) ==
  [revs |-> <<Commits(Main, NoRev, Texts(1, 1)), topic, feature>>,
   heads |-> [k \in Keys |-> CASE k[2] = Topic -> 2 [] k[2] = Feature -> 3 [] OTHER -> 1]]

\* Each branch changes one document; both change the same; feature goes on from
\* topic; feature takes back what topic has done.
SomeStarts ==
  {Found(Commits(Topic, 1, Texts(2, 1)), Commits(Feature, 1, Texts(1, 3))),
   Found(Commits(Topic, 1, Texts(2, 1)), Commits(Feature, 1, Texts(3, 1))),
   Found(Commits(Topic, 1, Texts(2, 1)), Commits(Feature, 2, Texts(2, 3))),
   Found(Commits(Topic, 1, Texts(2, 1)), Commits(Feature, 2, Texts(1, 1)))}

\* Candidates can only edit what somebody has written: a project that begins with
\* one document.
Begun ==
  {[revs |-> <<Commits(Main, NoRev, Texts(Absent, 1))>>,
    heads |-> [k \in Keys |-> IF k[2] = Main THEN 1 ELSE NoRev]]}

LongHistories == {s \in Starts : s.heads[<<TheProject, Feature>>] = 3 /\ s.revs[3].parent1 = 2}

Starting(starts) ==
  /\ \E s \in starts : revs = s.revs /\ heads = s.heads
  /\ documents = {}
  /\ NoReviews

\* A project of the documents that were written one after the other, on two branches.
Project(written) ==
  [revs |-> [r \in DOMAIN written |->
     Commits(Main, r - 1, [d \in Modules |->
       IF \E i \in 1 .. r : written[i].about = d
       THEN CHOOSE i \in 1 .. r : written[i].about = d ELSE Absent])],
   heads |-> [k \in Keys |-> IF k[2] = Feature THEN NoRev ELSE Len(written)],
   entries |-> written]

Wrote(op, d, tree) ==
  [op |-> op, about |-> d, actor |-> Owner, trees |-> [x \in {d} |-> tree]]

Wants(name, owner, status, allowed, needs, tests) ==
  [name |-> name, owner |-> owner, status |-> status, allowed |-> allowed,
   needs |-> needs, tests |-> tests]

Creates(draft, rev) ==
  Wrote("create_task_contract", draft.name,
    [kind |-> "task", made |-> rev, branch |-> Main, owner |-> draft.owner,
     status |-> draft.status, allowed |-> draft.allowed, needs |-> draft.needs, tests |-> draft.tests])

WroteSource == Wrote("edit", S1, [kind |-> "source", made |-> 1, text |-> {1}])

\* A build target for one source; and two contracts, of which one waits for the other.
SomeFoundations ==
  {Project(<<WroteSource,
             Wrote("set_build_target", B1, [kind |-> "build", made |-> 2, document |-> S1])>>),
   Project(<<WroteSource, Creates(Wants(K1, Owner, "open", {S1}, {}, {}), 2),
             Creates(Wants(K2, Other, "open", {S1}, {K1}, {}), 3)>>)}

SomeDrafts ==
  {Wants(K1, Owner, "open", {S2}, {}, {T1}), Wants(K2, Owner, "complete", {S1}, {K1}, {}),
   Wants(K1, Other, "in_progress", {S1}, {K2}, {})}

\* What feature has done to a project of some sources, a build target and perhaps
\* a test: it has changed the source or has set the target to another one.
Branched(written) ==
  LET project == Project(written)
      n       == Len(written)
  IN  [project EXCEPT !.heads[<<TheProject, Main>>] = n - 1,
                      !.heads[<<TheProject, Feature>>] = n,
                      !.revs[n].branch = Feature]

EditedSource(d, rev) ==
  Wrote("edit", d, [kind |-> "source", made |-> 1, text |-> {rev}])

Targets(d, rev) == Wrote("set_build_target", B1, [kind |-> "build", made |-> rev, document |-> d])

ImpactStarts ==
  {Branched(<<EditedSource(S1, 1), Targets(S1, 2),
              Wrote("set_test_target", T1, [kind |-> "test", made |-> 3, build |-> B1]),
              EditedSource(S1, 4)>>),
   Branched(<<EditedSource(S1, 1), EditedSource(S2, 2), Targets(S1, 3), Targets(S2, 3)>>)}

SomeProjects == SomeFoundations \cup ImpactStarts

GraphsOf[n \in 0..MaxNodes] ==
  IF n = 0 THEN {<<>>}
  ELSE {Append(d[1], d[2]) : d \in GraphsOf[n - 1] \X ParentChoices(n)}

\* Every small history.
SmallGraphs == UNION {GraphsOf[n] : n \in 1..MaxNodes}

NobodyMerges == gate = NoGate /\ tested = NothingTested

\* Outside the last two parts every revision is an edit of sources.
SourcesEdited ==
  [op |-> "edit", about |-> S1, actor |-> Owner,
   trees |-> [d \in Sources |-> [kind |-> "source", made |-> 1, text |-> {1}]]]

NoMetadata == entries = [r \in DOMAIN revs |-> SourcesEdited] /\ call = NobodyCalls

NoPart == NoAnalysis /\ ViewsInit /\ PagesInit

MetadataStarts(projects) ==
  /\ MetadataInit
  /\ entries \in {f.entries : f \in projects}
  /\ NoReviews

PartsInit ==
  /\ \/ part = "merges" /\ (Init \/ Starting(Begun)) /\ NoPart /\ NoMetadata
     \/ part = "history" /\ Init /\ DagInit("walk") /\ ViewsInit /\ PagesInit
          /\ Len(dag.graph) \in {dag.left, dag.right}
          /\ NoMetadata
     \/ part = "views" /\ Starting(Starts) /\ NoPart /\ NoMetadata
     \/ part = "pages" /\ Starting(LongHistories) /\ NoPart /\ NoMetadata
     \/ part = "metadata" /\ MetadataStarts(SomeFoundations) /\ NoPart
     \/ part = "impact" /\ MetadataStarts(ImpactStarts) /\ NoPart
  /\ NobodyMerges

\* What the newest revision holds.
Newest == revs'[Len(revs')].snap

\* Two branches and one document are enough for the policies, and context
\* documents mean nothing to them.
Small ==
  /\ Len(revs') <= PolicyRevs
  /\ documents' = {}
  /\ heads'[<<TheProject, Feature>>] = NoRev
  /\ revs' # << >> => \A d \in Modules \ {S1} : Newest[d] = Absent

\* A review is presented for what it reviewed, or the call would fail, and before
\* anything else is begun: no other call looks at it.
ReviewsPresented ==
  \A c \in Clients : calls'[c].pc # "idle" =>
     /\ calls'[c].review.kind # "none" => calls'[c].review.target = calls'[c].target
     /\ reviewed'[c] # NoReview => calls'[c].review = reviewed'[c]

EditsOnly ==
  /\ operations' = [r \in DOMAIN revs' |-> Edit]
  /\ UNCHANGED <<reviewed, calls, dagVars, part>>

\* Nobody turns to targets and contracts.
SourcesOnly ==
  /\ \A d \in Modules \ Sources : revs' # << >> => Newest[d] = Absent
  /\ entries' = [r \in DOMAIN revs' |-> SourcesEdited]
  /\ UNCHANGED <<call, impactVars>>

\* Views of main; all but trains take the sources in the order of their names.
MainViews ==
  /\ reader'.target[2] = Main
  /\ reader'.kind # "train" =>
        \A i \in DOMAIN reader'.selected : reader'.selected[i][2] = Topic => i = 1

\* The branch with the longest history.
FeaturePages == reading'.pc = "idle" \/ reading'.branch[2] = Feature

\* One agent besides the one at the gate of main, and no contracts.
GatesOfMain ==
  /\ gate'.target[2] = Main
  /\ entries'[Len(entries')].actor # Other
  /\ \A n \in Tasks : Newest[n] = Absent

PartsNext ==
  \/ part = "merges" /\ Next /\ Small /\ ReviewsPresented /\ SourcesOnly
       /\ UNCHANGED <<dagVars, viewVars, pageVars, part>>
  \/ part = "history" /\ DagNext
       /\ UNCHANGED <<vars, viewVars, pageVars, metadataVars, impactVars, part>>
  \/ part = "views" /\ ViewsNext /\ MainViews /\ EditsOnly /\ SourcesOnly
       /\ UNCHANGED pageVars
  \/ part = "pages" /\ PagesNext /\ FeaturePages /\ EditsOnly /\ SourcesOnly
       /\ UNCHANGED viewVars
  \/ part = "metadata" /\ MetadataNext /\ EditsOnly
       /\ UNCHANGED <<viewVars, pageVars, impactVars>>
  \/ part = "impact" /\ ImpactNext /\ GatesOfMain /\ EditsOnly
       /\ UNCHANGED <<viewVars, pageVars>>

PartsSpec ==
  PartsInit /\ [][PartsNext]_<<vars, dagVars, viewVars, pageVars, metadataVars, impactVars, part>>
==============================================================================
