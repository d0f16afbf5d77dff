------------------------------ MODULE MCEvidence -----------------------------
(* A project whose two branches have diverged: main has changed one of two  *)
(* tests, topic the program.  Agents test what is committed, or virtual     *)
(* merges; the two share no evidence.                                       *)
EXTENDS TestedMerges

CONSTANTS main, topic, project, program, check, smoke

Row(branch, parent, texts) ==
  [project |-> project, branch |-> branch, parent1 |-> parent, parent2 |-> NoRev,
   snap |-> texts, docs |-> {}]

Texts(p, c, s) == [m \in Modules |-> CASE m = program -> p [] m = check -> c [] OTHER -> s]

Diverged ==
  [revs |-> <<Row(main, NoRev, Texts(Absent, Absent, Absent)),
              Row(main, 1, Texts(2, Absent, Absent)), Row(main, 2, Texts(2, 3, Absent)),
              Row(main, 3, Texts(2, 3, 4)), Row(main, 4, Texts(2, 5, 4)),
              Row(topic, 4, Texts(6, 3, 4))>>,
   heads |-> [k \in Keys |-> IF k[2] = main THEN 5 ELSE 6]]

SomeSelections == {<<smoke, check>>, <<check>>}

VARIABLE part

MCInit ==
  /\ EvidenceInit
  /\ part \in {{"run", "batch"}, {"qualification"}}

\* One test by itself is run, two are a batch or a qualification.  Nobody edits
\* the second test; builds are moved only where virtual merges are tested, and
\* revisions are tested where others commit: on main.
MCNext ==
  /\ EvidenceNext
  /\ Len(revs') > Len(revs) => /\ revs'[Len(revs')].snap[smoke] = 4
                               /\ "run" \in part => revs'[Len(revs')].branch = main
  /\ \A a \in Agents : /\ calls'[a].kind \in part \cup {"none"}
                       /\ Len(calls'[a].selection) = 1 => calls'[a].kind = "run"
                       /\ calls'[a].kind \in {"run", "batch"} => calls'[a].subject.left # heads[<<project, topic>>]
  /\ "batch" \in part => moves' = 0
  /\ UNCHANGED part

MCSpec == MCInit /\ [][MCNext]_<<evidence, part>>

Symmetry == Permutations(Executables)
==============================================================================
