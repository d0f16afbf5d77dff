----------------------------- MODULE MCRetention -----------------------------
(* Three parts that share nothing: two publishers and two names, of one of  *)
(* two pairs of kinds; retention plans over three entries of three families *)
(* that refer to each other; and two plans that may quarantine the same     *)
(* entry, with a second payload published under its name.                   *)
EXTENDS RetainedArtifacts, RetentionPlan, Quarantine, TLC

CONSTANTS n1, n2, q1, b1

SomeSizes == [n \in Names |-> 2]
SomeKinds == {n1 :> "build" @@ n2 :> "evidence", n1 :> "candidate" @@ n2 :> "backup"}

\* A candidate build, the qualification that rests on it and the attestation of
\* the tested merge, which rests on the qualification.
SomeFamilies == [n \in Entries |-> CASE n = "build" -> 1 [] n = "qualification" -> 2 [] OTHER -> 3]
SomeAnchors == [n \in Entries |-> IF n = "attestation" THEN {2} ELSE {1}]
SomeReferences == [n \in Entries |-> CASE n = "attestation" -> {"qualification"}
                                       [] n = "qualification" -> {"build"}
                                       [] OTHER -> {}]

VARIABLE part

RetentionInit ==
  \/ part = "publication" /\ PublicationInit /\ NoPlanning /\ Init
  \/ part = "planning" /\ NoPublication /\ PlanInit(Databases) /\ Init
  \/ part = "quarantine" /\ NoPublication /\ NoPlanning /\ Init

\* The first payload to be published is b1, the first plan to begin is q1.
RetentionNext ==
  \/ part = "publication" /\ PublicationNext /\ UNCHANGED <<planVars, vars, part>>
  \/ part = "planning" /\ PlanNext /\ UNCHANGED <<publication, vars, part>>
  \/ /\ part = "quarantine"
     /\ Next
     /\ published' # {} => b1 \in published'
     /\ \A q \in Plans : journals'[q] # NoJournal => journals'[q1] # NoJournal
     /\ UNCHANGED <<publication, planVars, part>>

RetentionSpec == RetentionInit /\ [][RetentionNext]_<<publication, planVars, vars, part>>

Symmetry == Permutations(Publishers)
==============================================================================
