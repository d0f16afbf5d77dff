---------------------------- MODULE RetentionPlan ----------------------------
(****************************************************************************)
(* A dry-run retention plan, made while artifacts are published, damaged,   *)
(* moved away and back, revisions are committed, and the database may be    *)
(* replaced by a restored one.  A reconciliation reads the database, each   *)
(* family of artifacts in turn, and the database again.  The operator's     *)
(* policy names one reconciliation; the plan repeats it, records where the  *)
(* entries are, selects and measures, and checks both again.                *)
(*                                                                          *)
(* An entry is its state and a stamp, for its inode and times: damage       *)
(* inside a directory does not change the stamp of its entry.  A verifier   *)
(* reads the entry and what that rests on, which may be damaged, moved or   *)
(* published again without any change of the entry itself.  What is         *)
(* published again under an id has the contents it had: the id is derived   *)
(* from what it is made of.                                                 *)
(****************************************************************************)
EXTENDS Naturals, FiniteSets

CONSTANTS
  Entries,       \* names with an artifact id, of all families
  Families,      \* 1..n, in the order of the scan
  FamilyOf,      \* [Entries -> Families]
  AnchorsOf,     \* [Entries -> SUBSET Revisions]: the revisions its manifest names
  ReferencesOf,  \* [Entries -> SUBSET Entries]: the artifacts its manifest names
  RestsOn,       \* [Entries -> SUBSET Entries]: those that its verifier verifies again
  NeedsDatabase, \* entries whose verifier looks up their revisions
  Databases,     \* the sets of revisions a database may hold
  MaxChanges,    \* bound: changes of the disk
  MaxSwaps       \* bound: replacements of the database

ASSUME PlanAssumption ==
  /\ \A family \in Families : family \in Nat /\ family > 0 /\ 1..family \subseteq Families
  /\ FamilyOf \in [Entries -> Families]
  /\ ReferencesOf \in [Entries -> SUBSET Entries]
  /\ RestsOn \in [Entries -> SUBSET Entries]
  /\ \A n \in Entries : RestsOn[n] \subseteq ReferencesOf[n]

\* What evidence rests on is about the revisions it names itself or about
\* ancestors of theirs, and a database holds whole histories.
ASSUME AnchorsAssumption ==
  \A n \in Entries : \A m \in ReferencesOf[n] :
    /\ AnchorsOf[m] # {}
    /\ \A revisions \in Databases : AnchorsOf[n] \subseteq revisions => AnchorsOf[m] \subseteq revisions

States == {"absent", "good", "corrupt"}

VARIABLES
  stored,   \* revisions of the database
  swaps,
  disk,     \* [Entries -> state and stamp]
  aside,    \* what was moved away, under its name
  changes,  \* changes of the disk so far: the last stamp
  policy,   \* the reconciliation the operator's policy names
  call      \* the call being served

planVars == <<stored, swaps, disk, aside, changes, policy, call>>

NoId == [db |-> {}, inventory |-> [n \in Entries |-> "absent"], known |-> FALSE]

Waiting == [pc |-> "idle", purpose |-> "report", before |-> {}, family |-> 0,
            inventory |-> [n \in Entries |-> "absent"],
            located |-> [n \in Entries |-> 0], chosen |-> {}]

Absent == [state |-> "absent", stamp |-> 0]

PlanInit(databases) ==
  /\ stored \in databases
  /\ swaps = 0
  /\ disk = [n \in Entries |-> Absent]
  /\ aside = [n \in Entries |-> Absent]
  /\ changes = 0
  /\ policy = NoId
  /\ call = Waiting

\* Where planning is not what is examined.
NoPlanning == PlanInit({{}})

------------------------------------------------------------------------------
(* What happens meanwhile                                                   *)

ChangeDisk(n, entry) ==
  /\ changes < MaxChanges
  /\ changes' = changes + 1
  /\ disk' = [disk EXCEPT ![n] = entry]
  /\ UNCHANGED <<stored, swaps, policy, call>>

\* Publication, also in the place of something corrupt.  What it rests on was
\* verified before, and may be gone since.
PublishEntry(n) ==
  /\ AnchorsOf[n] \subseteq stored
  /\ disk[n].state # "good"
  /\ ChangeDisk(n, [state |-> "good", stamp |-> changes + 1])
  /\ UNCHANGED aside

DamageEntry(n) ==
  /\ disk[n].state = "good"
  /\ ChangeDisk(n, [disk[n] EXCEPT !.state = "corrupt"])
  /\ UNCHANGED aside

MoveEntryAway(n) ==
  /\ disk[n].state # "absent"
  /\ aside[n].state = "absent"
  /\ aside' = [aside EXCEPT ![n] = disk[n]]
  /\ ChangeDisk(n, Absent)

MoveEntryBack(n) ==
  /\ disk[n].state = "absent"
  /\ aside[n].state # "absent"
  /\ aside' = [aside EXCEPT ![n] = Absent]
  /\ ChangeDisk(n, [aside[n] EXCEPT !.stamp = changes + 1])

CommitRevision ==
  /\ \E revisions \in Databases : stored \subseteq revisions /\ stored # revisions /\ stored' = revisions
  /\ UNCHANGED <<swaps, disk, aside, changes, policy, call>>

\* A backup takes the place of the database: offline, so between two calls.
ReplaceDatabase ==
  /\ call.pc = "idle"
  /\ swaps < MaxSwaps
  /\ swaps' = swaps + 1
  /\ stored' \in Databases \ {stored}
  /\ UNCHANGED <<disk, aside, changes, policy, call>>

------------------------------------------------------------------------------
(* Classification                                                           *)

\* All that is verified again with n: n itself, what its verifier calls the
\* verifiers of, and so on.
Support(n) ==
  {m \in Entries : \A S \in SUBSET Entries :
                     n \in S /\ (\A x \in S : RestsOn[x] \subseteq S) => m \in S}

\* The entry's own bytes are good, and its revisions are there if they are looked up.
Intact(n, revisions) ==
  /\ disk[n].state = "good"
  /\ n \in NeedsDatabase => AnchorsOf[n] \subseteq revisions

\* An entry is as its verifier finds it.
Verified(n, revisions) ==
  CASE disk[n].state = "absent" -> "absent"
    [] disk[n].state # "absent" /\ (\A m \in Support(n) : Intact(m, revisions)) -> "good"
    [] OTHER -> "corrupt"

DirectlyReachable(inventory, revisions) ==
  {n \in Entries : inventory[n] = "good" /\ AnchorsOf[n] # {} /\ AnchorsOf[n] \subseteq revisions}

Closed(S, inventory) ==
  \A n \in S : \A m \in ReferencesOf[n] : inventory[m] = "good" => m \in S

\* All that verified evidence leads to, from what the database itself anchors.
Reachable(inventory, revisions) ==
  LET above == {S \in SUBSET Entries :
                  DirectlyReachable(inventory, revisions) \subseteq S /\ Closed(S, inventory)}
  IN  {n \in Entries : \A S \in above : n \in S}

\* Corrupt and orphaned entries; what is staged or unknown has no artifact id.
Eligible(inventory, revisions) ==
  {n \in Entries : inventory[n] # "absent"} \ Reachable(inventory, revisions)

------------------------------------------------------------------------------
(* The call                                                                 *)

Continue(next) ==
  /\ call' = next
  /\ UNCHANGED <<stored, swaps, disk, aside, changes, policy>>

StartReport ==
  /\ call.pc = "idle"
  /\ Continue([Waiting EXCEPT !.pc = "before"])

StartPlan ==
  /\ call.pc = "idle"
  /\ policy.known
  /\ Continue([Waiting EXCEPT !.pc = "before", !.purpose = "snapshot"])

ReadDatabase ==
  /\ call.pc = "before"
  /\ Continue([call EXCEPT !.pc = "scan", !.before = stored, !.family = 1])

\* One family: its entries before, each classified, its entries after.
ScanFamily ==
  /\ call.pc = "scan"
  /\ call.family \in Families
  /\ Continue([call EXCEPT
       !.family = @ + 1,
       !.inventory = [n \in Entries |-> IF FamilyOf[n] = call.family THEN Verified(n, stored) ELSE @[n]]])

Identity(revisions, inventory) ==
  [db |-> revisions, inventory |-> inventory, known |-> TRUE]

\* Mutant: what the fresh reconciliation found is not compared.
ReproducedOnce == call.purpose = "final" \/ Identity(call.before, call.inventory) = policy

Reproduced == Identity(call.before, call.inventory) = policy

\* The database again: any revision more or less ends the call.
EndReport ==
  /\ call.pc = "scan"
  /\ call.family \notin Families
  /\ call.purpose = "report"
  /\ stored = call.before
  /\ policy' = Identity(call.before, call.inventory)
  /\ call' = Waiting
  /\ UNCHANGED <<stored, swaps, disk, aside, changes>>

EndSnapshot ==
  /\ call.pc = "scan"
  /\ call.family \notin Families
  /\ call.purpose = "snapshot"
  /\ stored = call.before
  /\ Reproduced
  /\ Continue([call EXCEPT !.pc = "locate"])

\* Every entry of the reconciliation must still be somewhere.  Which eligible
\* entries the rules choose is the operator's: by family, age, number, id.
Locate ==
  /\ call.pc = "locate"
  /\ \A n \in Entries : call.inventory[n] # "absent" => disk[n].state # "absent"
  /\ \E S \in SUBSET Eligible(call.inventory, call.before) :
       Continue([call EXCEPT !.pc = "measure", !.chosen = S,
                             !.located = [n \in Entries |-> disk[n].stamp]])

Measure ==
  /\ call.pc = "measure"
  /\ \A n \in call.chosen : disk[n].state # "absent"
  /\ Continue([call EXCEPT !.pc = "locate_again"])

LocateAgain ==
  /\ call.pc = "locate_again"
  /\ \A n \in Entries : disk[n].stamp = call.located[n]
  /\ Continue([call EXCEPT !.pc = "before", !.purpose = "final"])

EndPlan ==
  /\ call.pc = "scan"
  /\ call.family \notin Families
  /\ call.purpose = "final"
  /\ stored = call.before
  /\ Reproduced
  /\ Continue([call EXCEPT !.pc = "planned"])

\* Any comparison that fails ends the call, and so does a root that changes
\* under a scan, or a limit that is met.
Refuse ==
  /\ call.pc # "idle"
  /\ Continue(Waiting)

PlanNext ==
  \/ \E n \in Entries :
       PublishEntry(n) \/ DamageEntry(n) \/ MoveEntryAway(n) \/ MoveEntryBack(n)
  \/ CommitRevision \/ ReplaceDatabase
  \/ StartReport \/ StartPlan
  \/ ReadDatabase \/ ScanFamily \/ EndReport \/ EndSnapshot
  \/ Locate \/ Measure \/ LocateAgain \/ EndPlan
  \/ Refuse

PlanSpec == PlanInit(Databases) /\ [][PlanNext]_planVars

------------------------------------------------------------------------------
\* When a plan is completed and an entry it selects is evidence that can be
\* reached from the database of that moment, then the entry or something that is
\* verified with it is no longer what was there when the entries were located: what
\* was put there since has made evidence of it.
PlansSpareEvidence ==
  [][EndPlan =>
       LET found == [n \in Entries |-> Verified(n, stored)]
       IN  \A n \in call.chosen \cap Reachable(found, stored) :
             \E m \in Support(n) : disk[m].stamp # call.located[m]]_planVars
==============================================================================
