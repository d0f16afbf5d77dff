------------------------------ MODULE Quarantine ------------------------------
(****************************************************************************)
(* Quarantine, restore and permanent deletion of one retained entry         *)
(* (artifacts.quarantine).  Each operation is a sequence of file-system     *)
(* steps; the process may die between any two of them, and the operator     *)
(* runs the same command again.                                             *)
(*                                                                          *)
(* A plan names the entry to quarantine and gives the operation its id.     *)
(* Metadata files are written whole (temporary file, fsync, rename) and a   *)
(* rename is atomic; a directory entry is synchronized before the next step *)
(* that relies on it, so a crash keeps every step made.  The lock of the    *)
(* entry is held by one operation at a time and lost with its process.      *)
(*                                                                          *)
(* A deletion names the verification it relies on, and that is of one       *)
(* database snapshot: every plan has one deletion for each.                 *)
(*                                                                          *)
(* Left out: the other entries of the artifact roots; a build that replaces *)
(* a broken directory of its name; time (the holding period may be over or  *)
(* not); and which artifacts the database requires (a deletion may always   *)
(* be refused).                                                             *)
(****************************************************************************)
EXTENDS Naturals, FiniteSets

CONSTANTS
  Plans,     \* retention plans that select the entry
  NoPlan,
  Builds,    \* payloads published under the entry's name, each once
  NoBuild,
  MaxDb      \* bound on the changes of the database

ASSUME QuarantineAssumption == NoPlan \notin Plans /\ NoBuild \notin Builds /\ MaxDb \in Nat

VARIABLES
  live,        \* the entry in the live root and the operation that put it there
  published,   \* the payloads published so far
  capsules,    \* the capsule directory of each plan
  journals,    \* the quarantine intent of each plan
  restores,    \* how far the restore of each plan got, durably
  deletes,     \* the same of its deletions, one for each verified database
  db,          \* the database snapshot
  running      \* the operation that holds the entry's lock, and the database it
               \* began with

vars == <<live, published, capsules, journals, restores, deletes, db, running>>

Entry == [build : Builds \cup {NoBuild}, by : Plans \cup {NoPlan}]

NoEntry == [build |-> NoBuild, by |-> NoPlan]

Metadata == {"intent", "manifest"}

Capsule == [place : {"absent", "staging", "final"},
            payload : {"none", "whole", "part"}, files : SUBSET Metadata]

NoCapsule == [place |-> "absent", payload |-> "none", files |-> {}]

\* What verify_normalized sees of a capsule: its directory entry.
Outside(capsule) == <<capsule.place, capsule.files, capsule.payload # "none">>

NoJournal == [entry |-> NoEntry, db |-> 0, others |-> [p \in {} |-> Outside(NoCapsule)]]

NobodyRuns == [plan |-> NoPlan, pc |-> "idle", db |-> 0]

Steps == {"stage", "move", "manifest", "publish", "restore", "record_restore",
          "cleanup", "delete", "dismantle", "record_delete"}

Journaled(q) == journals[q] # NoJournal

\* Nobody decided to delete the capsule of plan q.
Undecided(q) == \A d \in 0 .. MaxDb : deletes[q][d] = "none"

Deleted(q) == \E d \in 0 .. MaxDb : deletes[q][d] = "result"

\* Capsules, records and the running operation belong to journaled plans.
TypeOK ==
  /\ live \in Entry
  /\ published \subseteq Builds
  /\ capsules \in [Plans -> Capsule]
  /\ restores \in [Plans -> {"none", "intent", "result"}]
  /\ deletes \in [Plans -> [0 .. MaxDb -> {"none", "intent", "result"}]]
  /\ db \in 0 .. MaxDb
  /\ running \in [plan : Plans, pc : Steps, db : 0 .. MaxDb] \cup {NobodyRuns}
  /\ \A q \in Plans :
       ~Journaled(q) => /\ capsules[q] = NoCapsule
                        /\ restores[q] = "none"
                        /\ Undecided(q)

Init ==
  /\ live = NoEntry
  /\ published = {}
  /\ capsules = [q \in Plans |-> NoCapsule]
  /\ journals = [q \in Plans |-> NoJournal]
  /\ restores = [q \in Plans |-> "none"]
  /\ deletes = [q \in Plans |-> [d \in 0 .. MaxDb |-> "none"]]
  /\ db = 0
  /\ running = NobodyRuns

------------------------------------------------------------------------------
(* The rest of the system *)

\* A build, a test run or a backup is published under the lock of its name.
Publish(b) ==
  /\ running = NobodyRuns
  /\ live = NoEntry
  /\ b \notin published
  /\ live' = [build |-> b, by |-> NoPlan]
  /\ published' = published \cup {b}
  /\ UNCHANGED <<capsules, journals, restores, deletes, db, running>>

DatabaseChanges ==
  /\ db < MaxDb
  /\ db' = db + 1
  /\ UNCHANGED <<live, published, capsules, journals, restores, deletes, running>>

------------------------------------------------------------------------------
(* Quarantine *)

Others(q) == [p \in Plans \ {q} |-> Outside(capsules[p])]

\* The plan still reproduces: the intent is made durable, before the entry's
\* lock is taken.
WriteJournal(q) ==
  /\ ~Journaled(q)
  /\ live # NoEntry
  /\ journals' = [journals EXCEPT ![q] = [entry |-> live, db |-> db, others |-> Others(q)]]
  /\ UNCHANGED <<live, published, capsules, restores, deletes, db, running>>

\* Nothing has changed since the intent but what this operation changes itself.
Unchanged(q) ==
  /\ db = journals[q].db
  /\ live \in {NoEntry, journals[q].entry}
  /\ Others(q) = journals[q].others

Begins(q, pc) == running' = [plan |-> q, pc |-> pc, db |-> db]

Proceeds(q, pc) == running' = [running EXCEPT !.pc = pc]

Doing(q, pc) == running.plan = q /\ running.pc = pc

Ends == running' = NobodyRuns

\* Mutant: the move does not wait for a durable intent.
StartQuarantineUnjournaled(q) ==
  /\ running = NobodyRuns
  /\ Journaled(q) => Unchanged(q)
  /\ capsules[q].place # "final"
  /\ Begins(q, "stage")
  /\ UNCHANGED <<live, published, capsules, journals, restores, deletes, db>>

\* A final capsule is only verified again, and changes nothing.
StartQuarantine(q) ==
  /\ running = NobodyRuns
  /\ Journaled(q)
  /\ Unchanged(q)
  /\ capsules[q].place # "final"
  /\ Begins(q, "stage")
  /\ UNCHANGED <<live, published, capsules, journals, restores, deletes, db>>

Stage(q) ==
  /\ Doing(q, "stage")
  /\ capsules' = [capsules EXCEPT ![q].place = "staging",
                                  ![q].files = @ \cup {"intent"}]
  /\ Proceeds(q, "move")
  /\ UNCHANGED <<live, published, journals, restores, deletes, db>>

\* Exactly one of the live entry and the staged payload exists, or the operation
\* fails; a payload staged before a crash stays where it is.
Move(q) ==
  /\ Doing(q, "move")
  /\ (live # NoEntry) # (capsules[q].payload # "none")
  /\ live # NoEntry => live.build = journals[q].entry.build
  /\ live' = NoEntry
  /\ capsules' = [capsules EXCEPT ![q].payload = "whole"]
  /\ Proceeds(q, "manifest")
  /\ UNCHANGED <<published, journals, restores, deletes, db>>

\* Mutant: the manifest is forgotten.
WriteNoManifest(q) ==
  /\ Doing(q, "manifest")
  /\ Proceeds(q, "publish")
  /\ UNCHANGED <<live, published, capsules, journals, restores, deletes, db>>

WriteManifest(q) ==
  /\ Doing(q, "manifest")
  /\ capsules' = [capsules EXCEPT ![q].files = @ \cup {"manifest"}]
  /\ Proceeds(q, "publish")
  /\ UNCHANGED <<live, published, journals, restores, deletes, db>>

PublishCapsule(q) ==
  /\ Doing(q, "publish")
  /\ capsules' = [capsules EXCEPT ![q].place = "final"]
  /\ Ends
  /\ UNCHANGED <<live, published, journals, restores, deletes, db>>

------------------------------------------------------------------------------
(* Restore *)

\* A capsule from which the payload can be restored, and one from which it has
\* been moved.
Ready(q) ==
  capsules[q] = [place |-> "final", payload |-> "whole", files |-> Metadata]

MetadataOnly(q) ==
  capsules[q] = [place |-> "final", payload |-> "none", files |-> Metadata]

IsRestored(q) == live.build = journals[q].entry.build

StartRestore(q) ==
  /\ running = NobodyRuns
  /\ Journaled(q)
  /\ restores[q] = "none" => Ready(q) /\ live = NoEntry
  /\ restores[q] = "result" => IsRestored(q)
  /\ restores' = [restores EXCEPT ![q] = IF @ = "none" THEN "intent" ELSE @]
  /\ Begins(q, IF restores[q] = "result" THEN "cleanup" ELSE "restore")
  /\ UNCHANGED <<live, published, capsules, journals, deletes, db>>

\* Mutant: the payload replaces whatever lives under its name.
RestoreOver(q) ==
  /\ Doing(q, "restore")
  /\ Ready(q)
  /\ live' = [build |-> journals[q].entry.build, by |-> q]
  /\ capsules' = [capsules EXCEPT ![q].payload = "none"]
  /\ Proceeds(q, "record_restore")
  /\ UNCHANGED <<published, journals, restores, deletes, db>>

\* The payload moves back, or has been moved before a crash.
RestoreMove(q) ==
  /\ Doing(q, "restore")
  /\ \/ Ready(q) /\ live = NoEntry
     \/ MetadataOnly(q) /\ IsRestored(q)
  /\ live' = IF live = NoEntry THEN [build |-> journals[q].entry.build, by |-> q] ELSE live
  /\ capsules' = [capsules EXCEPT ![q].payload = "none"]
  /\ Proceeds(q, "record_restore")
  /\ UNCHANGED <<published, journals, restores, deletes, db>>

\* Mutant: the capsule is cleaned up before the result is durable.
RecordRestoreLate(q) ==
  /\ Doing(q, "record_restore")
  /\ Proceeds(q, "cleanup")
  /\ UNCHANGED <<live, published, capsules, journals, restores, deletes, db>>

RecordRestore(q) ==
  /\ Doing(q, "record_restore")
  /\ restores' = [restores EXCEPT ![q] = "result"]
  /\ Proceeds(q, "cleanup")
  /\ UNCHANGED <<live, published, capsules, journals, deletes, db>>

\* The metadata files go one by one, then the directory.
Dismantle(q) ==
  /\ Doing(q, "cleanup") \/ Doing(q, "dismantle")
  /\ capsules[q].payload = "none"
  /\ IF capsules[q].files # {}
     THEN /\ capsules' = [capsules EXCEPT ![q].files =
                            IF "intent" \in @ THEN @ \ {"intent"} ELSE {}]
          /\ UNCHANGED running
     ELSE /\ capsules' = [capsules EXCEPT ![q] = IF @.place = "final" THEN NoCapsule ELSE @]
          /\ IF Doing(q, "cleanup") THEN Ends ELSE Proceeds(q, "record_delete")
  /\ UNCHANGED <<live, published, journals, restores, deletes, db>>

------------------------------------------------------------------------------
(* Permanent deletion *)

\* Mutant: the capsule is not verified before the deletion is decided.
StartDeleteUnverified(q) ==
  /\ running = NobodyRuns
  /\ Journaled(q)
  /\ deletes[q][db] # "result"
  /\ deletes' = [deletes EXCEPT ![q][db] = "intent"]
  /\ Begins(q, "delete")
  /\ UNCHANGED <<live, published, capsules, journals, restores, db>>

\* Only the deletion verified with the present database may start or go on; a
\* recorded one is only reported again.
StartDelete(q) ==
  /\ running = NobodyRuns
  /\ Journaled(q)
  /\ \/ deletes[q][db] = "none" /\ Ready(q)
     \/ deletes[q][db] = "intent"
  /\ deletes' = [deletes EXCEPT ![q][db] = "intent"]
  /\ Begins(q, "delete")
  /\ UNCHANGED <<live, published, capsules, journals, restores, db>>

\* The payload goes piece by piece; without a capsule there is nothing to do.
DeletePayload(q) ==
  /\ Doing(q, "delete")
  /\ IF capsules[q].place = "final"
     THEN \/ /\ capsules[q].payload # "none"
             /\ \E left \in {"part", "none"} :
                  capsules' = [capsules EXCEPT ![q].payload = left]
             /\ UNCHANGED running
          \/ /\ capsules[q].payload = "none"
             /\ Proceeds(q, "dismantle")
             /\ UNCHANGED capsules
     ELSE Proceeds(q, "record_delete") /\ UNCHANGED capsules
  /\ UNCHANGED <<live, published, journals, restores, deletes, db>>

RecordDelete(q) ==
  /\ Doing(q, "record_delete")
  /\ deletes' = [deletes EXCEPT ![q][running.db] = "result"]
  /\ Ends
  /\ UNCHANGED <<live, published, capsules, journals, restores, db>>

\* A check fails, or the process dies: the lock is free again.
Stop ==
  /\ running # NobodyRuns
  /\ Ends
  /\ UNCHANGED <<live, published, capsules, journals, restores, deletes, db>>

------------------------------------------------------------------------------
Operate(q) ==
  \/ WriteJournal(q)
  \/ StartQuarantine(q)
  \/ Stage(q)
  \/ Move(q)
  \/ WriteManifest(q)
  \/ PublishCapsule(q)
  \/ StartRestore(q)
  \/ RestoreMove(q)
  \/ RecordRestore(q)
  \/ Dismantle(q)
  \/ StartDelete(q)
  \/ DeletePayload(q)
  \/ RecordDelete(q)

Next ==
  \/ \E b \in Builds : Publish(b)
  \/ DatabaseChanges
  \/ \E q \in Plans : Operate(q)
  \/ Stop

Spec == Init /\ [][Next]_vars

------------------------------------------------------------------------------
\* The plans whose capsule holds payload b whole.
Holders(b) == {q \in Plans : /\ journals[q].entry.build = b
                             /\ capsules[q].payload = "whole"}

\* A published payload is in exactly one place, live or in one capsule, unless
\* somebody decided to delete the capsule that held it.
PayloadsHeld ==
  \A b \in published :
     LET places == Cardinality(Holders(b)) + (IF live.build = b THEN 1 ELSE 0)
     IN  /\ places <= 1
         /\ places = 0 => \E q \in Plans : /\ journals[q].entry.build = b
                                           /\ ~Undecided(q)

\* A deletion that is recorded as complete, of a capsule that nobody started to
\* restore, is true.
UnrestoredDeletedIsGone ==
  \A q \in Plans : Deleted(q) /\ restores[q] = "none" =>
     LET b == journals[q].entry.build IN live.build # b /\ Holders(b) = {}

\* No payload is lost, doubled or said to be deleted while it is there.
PayloadConserved == PayloadsHeld /\ UnrestoredDeletedIsGone

\* Whenever the process that made it died, a capsule that is visible under its
\* final name is complete until somebody restores or deletes it, and keeps the
\* metadata that an interrupted restore needs to be finished.
CapsulesUsable ==
  \A q \in Plans : Undecided(q) =>
     /\ capsules[q].place = "final" /\ restores[q] = "none" => Ready(q)
     /\ restores[q] = "intent" =>
          capsules[q].place = "final" /\ capsules[q].files = Metadata

\* The payload of a recorded deletion exists nowhere: what completion evidence
\* and "a successful restore invalidates deletion of that capsule" promise.
DeletedIsGone ==
  \A q \in Plans : Deleted(q) =>
     LET b == journals[q].entry.build IN live.build # b /\ Holders(b) = {}

==============================================================================
