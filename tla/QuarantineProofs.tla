--------------------------- MODULE QuarantineProofs ---------------------------
(****************************************************************************)
(* Proofs about Quarantine, for any number of plans, payloads and changes   *)
(* of the database, and a death of the process between any two steps; and,  *)
(* at the end, about RetentionPlan.                                         *)
(*                                                                          *)
(* That no payload is lost rests on the order in which plans take an entry  *)
(* away and put it back: an entry that a plan has moved never lives again   *)
(* (what is restored is another entry, by another operation), so no plan    *)
(* moves a payload twice, and a capsule that somebody decided to delete or  *)
(* to restore is never filled again.                                        *)
(****************************************************************************)
EXTENDS Quarantine, RetentionPlan, FiniteSetTheorems, TLAPS

Holds(q, b) == journals[q].entry.build = b /\ capsules[q].payload = "whole"

\* Payload b exists nowhere.
Gone(b) == live.build # b /\ \A q \in Plans : ~Holds(q, b)

\* Payload b is in one place, or somebody decided to delete what held it.
HeldOnce(b) ==
  /\ \A p, q \in Plans : Holds(p, b) /\ Holds(q, b) => p = q
  /\ live.build = b => \A q \in Plans : ~Holds(q, b)
  /\ Gone(b) => \E q \in Plans : journals[q].entry.build = b /\ ~Undecided(q)

\* Journals name entries that were published.
JournalOK(q) ==
  Journaled(q) => journals[q].entry \in Entry /\ journals[q].entry.build \in published

\* The plan has taken its entry away.
Moved(q) == capsules[q].payload # "none" \/ restores[q] # "none" \/ ~Undecided(q)

\* The plan has put an entry back, which may have been journaled again since.
PutBack(q) == live.by = q \/ \E p \in Plans : journals[p].entry.by = q

CapsuleOK(q) ==
  /\ Moved(q) => live # journals[q].entry
  /\ PutBack(q) => restores[q] # "none" /\ capsules[q].payload = "none"
  /\ capsules[q].place # "final" =>
       /\ capsules[q].payload # "part"
       /\ capsules[q].payload = "whole" => Undecided(q) /\ restores[q] = "none"
  /\ ~Undecided(q) /\ restores[q] = "none" /\ capsules[q].payload # "whole" =>
       Gone(journals[q].entry.build)
  /\ Deleted(q) => capsules[q].payload = "none"
  /\ Undecided(q) =>
       /\ capsules[q].place = "final" /\ restores[q] = "none" => Ready(q)
       /\ restores[q] = "intent" =>
            capsules[q].place = "final" /\ capsules[q].files = Metadata

\* What the running operation has done so far.
RunningOK ==
  running # NobodyRuns =>
    LET q == running.plan
    IN  /\ Journaled(q)
        /\ running.pc = "stage" => capsules[q].place # "final"
        /\ running.pc \in {"stage", "move"} => live \in {NoEntry, journals[q].entry}
        /\ running.pc \in {"move", "manifest", "publish"} =>
             capsules[q].place = "staging" /\ "intent" \in capsules[q].files
        /\ running.pc \in {"manifest", "publish"} => capsules[q].payload = "whole"
        /\ running.pc = "publish" => capsules[q].files = Metadata
        /\ running.pc \in {"restore", "record_restore"} => restores[q] = "intent"
        /\ running.pc = "cleanup" => restores[q] = "result"
        /\ running.pc \in {"delete", "dismantle", "record_delete"} =>
             deletes[q][running.db] # "none"
        /\ running.pc = "record_delete" => capsules[q].payload = "none"

QuarantineInv ==
  /\ TypeOK
  /\ journals = [q \in Plans |-> journals[q]]
  /\ live = NoEntry \/ live.build \in published
  /\ \A q \in Plans : JournalOK(q) /\ CapsuleOK(q)
  /\ \A b \in published : HeldOnce(b)
  /\ RunningOK

------------------------------------------------------------------------------
(* What a step leaves alone                                                 *)

\* Capsule q becomes `new`; nothing but it, its records and the running operation
\* changes.
Replaces(q, new) ==
  /\ new \in Capsule
  /\ capsules' = [capsules EXCEPT ![q] = new]
  /\ \A p \in Plans \ {q} : restores'[p] = restores[p] /\ deletes'[p] = deletes[p]
  /\ UNCHANGED <<live, published, journals>>

LEMMA JournalsKept ==
  ASSUME QuarantineInv, UNCHANGED <<live, published, journals>>
  PROVE  /\ journals' = [q \in Plans |-> journals'[q]]
         /\ live' = NoEntry \/ live'.build \in published'
         /\ \A q \in Plans : JournalOK(q)' /\ (Journaled(q)' <=> Journaled(q))
  BY DEF QuarantineInv, JournalOK, Journaled

\* A journaled entry is no NoEntry.
LEMMA EntryNamed ==
  ASSUME QuarantineInv, NEW q \in Plans, Journaled(q)
  PROVE  /\ journals[q].entry \in Entry
         /\ journals[q].entry.build \in published
         /\ journals[q].entry.build # NoBuild
         /\ journals[q].entry # NoEntry
  BY QuarantineAssumption DEF QuarantineInv, JournalOK, TypeOK, Entry, NoEntry

LEMMA UnjournaledNamesNone ==
  ASSUME NEW q \in Plans, ~Journaled(q)
  PROVE  journals[q].entry = NoEntry
  BY DEF Journaled, NoJournal

\* The payloads of the other plans stay where they are.
LEMMA HeldOnceKept ==
  ASSUME QuarantineInv, NEW q \in Plans, NEW new, Replaces(q, new),
         new.payload = "whole" <=> capsules[q].payload = "whole",
         ~Undecided(q) => ~Undecided(q)', NEW b \in published
  PROVE  HeldOnce(b)' /\ (Gone(b)' <=> Gone(b))
  <1>1. capsules \in [Plans -> Capsule] /\ HeldOnce(b)
    BY DEF QuarantineInv, TypeOK
  <1>2. \A p \in Plans : Holds(p, b)' <=> Holds(p, b)
    BY <1>1 DEF Holds, Replaces
  <1>3. \A p \in Plans : ~Undecided(p) => ~Undecided(p)'
    BY DEF Undecided, Replaces
  <1>4. Gone(b)' <=> Gone(b)
    BY <1>2 DEF Gone, Replaces
  <1>5. QED
    BY <1>1, <1>2, <1>3, <1>4 DEF HeldOnce, Replaces

\* The other plans' capsules stay what they should be.
LEMMA OthersKept ==
  ASSUME QuarantineInv, NEW q \in Plans, NEW new, Replaces(q, new),
         Journaled(q),
         \A b \in published : Gone(b) => Gone(b)',
         NEW p \in Plans, p # q
  PROVE  CapsuleOK(p)'
  <1>1. /\ capsules'[p] = capsules[p] /\ restores'[p] = restores[p]
        /\ deletes'[p] = deletes[p] /\ live' = live /\ journals' = journals
        /\ CapsuleOK(p)
    BY DEF QuarantineInv, TypeOK, Replaces
  <1>2. Moved(p)' <=> Moved(p)
    BY <1>1 DEF Moved, Undecided
  <1>3. PutBack(p)' <=> PutBack(p)
    BY <1>1 DEF PutBack
  <1>4. /\ Undecided(p)' <=> Undecided(p)
        /\ Deleted(p)' <=> Deleted(p)
        /\ Ready(p)' <=> Ready(p)
    BY <1>1 DEF Undecided, Deleted, Ready
  <1>5. ~Undecided(p) => Journaled(p)
    BY DEF QuarantineInv, TypeOK
  <1>6. PICK b : b = journals[p].entry.build
    OBVIOUS
  <1>7. Gone(b) /\ Journaled(p) => Gone(b)'
    BY <1>6, EntryNamed
  <1>8. Gone(journals[p].entry.build)' <=> Gone(b)'
    BY <1>1, <1>6 DEF Gone, Holds
  <1>9. QED
    BY <1>1, <1>2, <1>3, <1>4, <1>5, <1>6, <1>7, <1>8 DEF CapsuleOK

\* Capsule q is another one: what is left to show of q and of the running operation.
LEMMA ReplacedInv ==
  ASSUME QuarantineInv, NEW q \in Plans, NEW new, Replaces(q, new), Journaled(q),
         restores' \in [Plans -> {"none", "intent", "result"}],
         deletes' \in [Plans -> [0 .. MaxDb -> {"none", "intent", "result"}]],
         db' = db, running' \in [plan : Plans, pc : Steps, db : 0 .. MaxDb] \cup {NobodyRuns},
         \A b \in published : HeldOnce(b)' /\ (Gone(b) => Gone(b)'),
         CapsuleOK(q)', RunningOK'
  PROVE  QuarantineInv'
  <1>1. TypeOK'
    <2>1. capsules' \in [Plans -> Capsule]
      BY DEF QuarantineInv, TypeOK, Replaces
    <2>2. live' = live /\ published' = published /\ journals' = journals
      BY DEF Replaces
    <2>3. ASSUME NEW p \in Plans, ~Journaled(p)'
          PROVE  capsules'[p] = NoCapsule /\ restores'[p] = "none" /\ Undecided(p)'
      <3>1. ~Journaled(p) /\ p # q
        BY <2>2, <2>3 DEF Journaled
      <3>2. capsules[p] = NoCapsule /\ restores[p] = "none" /\ Undecided(p)
        BY <3>1 DEF QuarantineInv, TypeOK
      <3>3. capsules'[p] = capsules[p] /\ restores'[p] = restores[p] /\ deletes'[p] = deletes[p]
        BY <3>1 DEF QuarantineInv, TypeOK, Replaces
      <3>4. QED
        BY <3>2, <3>3 DEF Undecided
    <2>4. QED
      BY <2>1, <2>2, <2>3 DEF QuarantineInv, TypeOK
  <1>2. ASSUME NEW p \in Plans PROVE CapsuleOK(p)'
    BY OthersKept
  <1>3. QED
    BY <1>1, <1>2, JournalsKept DEF QuarantineInv, Replaces

\* Only the running operation changes.
LEMMA OnlyRuns ==
  ASSUME QuarantineInv, UNCHANGED <<live, published, capsules, journals, restores, deletes>>,
         db' \in 0 .. MaxDb, running' \in [plan : Plans, pc : Steps, db : 0 .. MaxDb] \cup {NobodyRuns},
         RunningOK'
  PROVE  QuarantineInv'
  <1>1. TypeOK'
    BY DEF QuarantineInv, TypeOK, Journaled, Undecided
  <1>2. \A q \in Plans : CapsuleOK(q)'
    BY DEF QuarantineInv, CapsuleOK, Moved, PutBack, Undecided, Deleted, Ready, Gone, Holds
  <1>3. \A b \in published' : HeldOnce(b)'
    BY DEF QuarantineInv, HeldOnce, Gone, Holds, Undecided
  <1>4. QED
    BY <1>1, <1>2, <1>3, JournalsKept DEF QuarantineInv

\* The operation of plan q that runs.
LEMMA Running ==
  ASSUME QuarantineInv, NEW q \in Plans, NEW pc, Doing(q, pc), pc \in Steps
  PROVE  /\ running # NobodyRuns /\ running.plan = q /\ running.pc = pc
         /\ running \in [plan : Plans, pc : Steps, db : 0 .. MaxDb]
         /\ Journaled(q) /\ capsules[q] \in Capsule
         /\ restores[q] \in {"none", "intent", "result"}
  <1>1. running # NobodyRuns
    BY QuarantineAssumption DEF Doing, NobodyRuns
  <1>2. QED
    BY <1>1 DEF QuarantineInv, TypeOK, RunningOK, Doing

\* An operation that begins, and one that goes on.
LEMMA RunningBegins ==
  ASSUME QuarantineInv, NEW q \in Plans, NEW pc \in Steps, Begins(q, pc)
  PROVE  /\ running' \in [plan : Plans, pc : Steps, db : 0 .. MaxDb]
         /\ running'.plan = q /\ running'.pc = pc /\ running'.db = db
  BY DEF QuarantineInv, TypeOK, Begins

LEMMA RunningProceeds ==
  ASSUME QuarantineInv, NEW q \in Plans, NEW old \in Steps, Doing(q, old),
         NEW pc \in Steps, Proceeds(q, pc)
  PROVE  /\ running' \in [plan : Plans, pc : Steps, db : 0 .. MaxDb]
         /\ running'.plan = q /\ running'.pc = pc /\ running'.db = running.db
  <1>1. running \in [plan : Plans, pc : Steps, db : 0 .. MaxDb] /\ running.plan = q
    BY Running
  <1>2. QED
    BY <1>1 DEF Proceeds

\* Nobody runs any more.
LEMMA EndsOK ==
  ASSUME Ends
  PROVE  RunningOK' /\ running' = NobodyRuns
  BY DEF Ends, RunningOK

------------------------------------------------------------------------------
(* The steps that move no payload                                           *)

LEMMA DatabaseChangesStep ==
  ASSUME QuarantineInv, DatabaseChanges
  PROVE  QuarantineInv'
  <1>1. db' \in 0 .. MaxDb /\ running' = running
    BY QuarantineAssumption DEF DatabaseChanges, QuarantineInv, TypeOK
  <1>2. RunningOK'
    BY DEF DatabaseChanges, QuarantineInv, RunningOK, Journaled
  <1>3. QED
    BY <1>1, <1>2, OnlyRuns DEF DatabaseChanges, QuarantineInv, TypeOK

LEMMA StopStep ==
  ASSUME QuarantineInv, Stop
  PROVE  QuarantineInv'
  BY EndsOK, OnlyRuns DEF Stop, QuarantineInv, TypeOK

LEMMA StutterStep ==
  ASSUME QuarantineInv, UNCHANGED vars
  PROVE  QuarantineInv'
  <1>1. RunningOK'
    BY DEF vars, QuarantineInv, RunningOK, Journaled
  <1>2. QED
    BY <1>1, OnlyRuns DEF vars, QuarantineInv, TypeOK

LEMMA StartQuarantineStep ==
  ASSUME QuarantineInv, NEW q \in Plans, StartQuarantine(q)
  PROVE  QuarantineInv'
  <1>1. /\ running' \in [plan : Plans, pc : Steps, db : 0 .. MaxDb]
        /\ running'.plan = q /\ running'.pc = "stage"
    BY RunningBegins DEF StartQuarantine, Steps
  <1>2. RunningOK'
    BY <1>1 DEF StartQuarantine, RunningOK, Journaled, Unchanged
  <1>3. QED
    BY <1>1, <1>2, OnlyRuns DEF StartQuarantine, QuarantineInv, TypeOK

\* The entry is journaled before anything is done to it.
LEMMA WriteJournalStep ==
  ASSUME QuarantineInv, NEW q \in Plans, WriteJournal(q)
  PROVE  QuarantineInv'
  <1>1. /\ ~Journaled(q) /\ live # NoEntry /\ live \in Entry /\ live.build \in published
        /\ capsules[q] = NoCapsule /\ restores[q] = "none" /\ Undecided(q)
        /\ journals[q].entry = NoEntry
    BY UnjournaledNamesNone DEF WriteJournal, QuarantineInv, TypeOK
  <1>2. PICK new : /\ new = [entry |-> live, db |-> db, others |-> Others(q)]
                   /\ new.entry = live /\ new # NoJournal
    <2> DEFINE made == [entry |-> live, db |-> db, others |-> Others(q)]
    <2>1. made.entry = live /\ NoJournal.entry = NoEntry
      BY DEF NoJournal
    <2>2. made # NoJournal
      BY <1>1, <2>1
    <2> HIDE DEF made
    <2>3. \E new : new = made
      OBVIOUS
    <2>4. QED
      BY <2>1, <2>2, <2>3 DEF made
  <1>3. /\ journals' = [p \in Plans |-> IF p = q THEN new ELSE journals[p]]
        /\ UNCHANGED <<live, published, capsules, restores, deletes, db, running>>
    BY <1>2 DEF WriteJournal, QuarantineInv
  <1>4. /\ journals'[q].entry = live
        /\ \A p \in Plans \ {q} : journals'[p] = journals[p]
    BY <1>2, <1>3
  <1>5. Journaled(q)' /\ \A p \in Plans \ {q} : Journaled(p)' <=> Journaled(p)
    BY <1>2, <1>3 DEF Journaled
  <1>6. TypeOK'
    BY <1>3, <1>5 DEF QuarantineInv, TypeOK, Undecided
  <1>7. journals' = [p \in Plans |-> journals'[p]]
    BY <1>3
  <1>8. ASSUME NEW p \in Plans PROVE JournalOK(p)'
    BY <1>1, <1>3, <1>4, <1>5 DEF QuarantineInv, JournalOK
  <1>9. ASSUME NEW b \in published PROVE \A p \in Plans : Holds(p, b)' <=> Holds(p, b)
    <2>1. capsules'[q].payload # "whole" /\ capsules[q].payload # "whole"
      BY <1>1, <1>3 DEF NoCapsule
    <2>2. QED
      BY <1>3, <1>4, <2>1 DEF Holds
  <1>10. ASSUME NEW b \in published PROVE HeldOnce(b)' /\ (Gone(b)' <=> Gone(b))
    <2>1. Gone(b)' <=> Gone(b)
      BY <1>3, <1>9 DEF Gone
    <2>2. \A p \in Plans : ~Undecided(p) => p # q /\ ~Undecided(p)'
      BY <1>1, <1>3 DEF Undecided
    <2>3. QED
      BY <1>3, <1>4, <1>9, <2>1, <2>2 DEF QuarantineInv, HeldOnce
  <1>11. ASSUME NEW p \in Plans PROVE CapsuleOK(p)'
    <2>1. Moved(p)' <=> Moved(p)
      BY <1>3 DEF Moved, Undecided
    <2>2. PutBack(p)' => PutBack(p)
      BY <1>3, <1>4 DEF PutBack
    <2>3. /\ Undecided(p)' <=> Undecided(p)
          /\ Deleted(p)' <=> Deleted(p)
          /\ Ready(p)' <=> Ready(p)
      BY <1>3 DEF Undecided, Deleted, Ready
    <2>4. ~Moved(q)
      BY <1>1 DEF Moved, NoCapsule
    <2>5. ASSUME ~Undecided(p), Gone(journals[p].entry.build)
          PROVE  Gone(journals[p].entry.build)'
      <3>1. p # q /\ Journaled(p)
        BY <1>1, <2>5 DEF QuarantineInv, TypeOK
      <3>2. PICK b \in published : b = journals[p].entry.build
        BY <3>1, EntryNamed
      <3>3. Gone(b)'
        BY <1>10, <2>5, <3>2
      <3>4. QED
        BY <1>4, <3>1, <3>2, <3>3 DEF Gone, Holds
    <2>6. CapsuleOK(p)
      BY DEF QuarantineInv
    <2>7. p # q => journals'[p] = journals[p]
      BY <1>4
    <2>8. QED
      BY <1>1, <1>3, <2>1, <2>2, <2>3, <2>4, <2>5, <2>6, <2>7 DEF CapsuleOK, NoCapsule, Deleted, Undecided
  <1>12. RunningOK'
    <2>1. running # NobodyRuns => running.plan # q /\ running.plan \in Plans
      BY <1>1 DEF QuarantineInv, RunningOK, TypeOK
    <2>2. QED
      BY <1>3, <1>4, <1>5, <2>1 DEF QuarantineInv, RunningOK
  <1>13. QED
    BY <1>3, <1>6, <1>7, <1>8, <1>10, <1>11, <1>12 DEF QuarantineInv

\* A capsule whose payload stays where it is, and whose place and files are as they
\* should be.
LEMMA SameCapsule ==
  ASSUME QuarantineInv, NEW q \in Plans, NEW new, Replaces(q, new), Journaled(q),
         new.payload = capsules[q].payload, UNCHANGED <<restores, deletes>>,
         new.place # "final" =>
           /\ new.payload # "part"
           /\ new.payload = "whole" => Undecided(q) /\ restores[q] = "none",
         Undecided(q) =>
           /\ new.place = "final" /\ restores[q] = "none" =>
                new = [place |-> "final", payload |-> "whole", files |-> Metadata]
           /\ restores[q] = "intent" => new.place = "final" /\ new.files = Metadata
  PROVE  CapsuleOK(q)' /\ \A b \in published : HeldOnce(b)' /\ (Gone(b)' <=> Gone(b))
  <1>1. /\ capsules'[q] = new /\ live' = live /\ journals' = journals
        /\ restores' = restores /\ deletes' = deletes /\ CapsuleOK(q)
    BY DEF QuarantineInv, TypeOK, Replaces
  <1>2. /\ Moved(q)' <=> Moved(q)
        /\ PutBack(q)' <=> PutBack(q)
        /\ Undecided(q)' <=> Undecided(q)
        /\ Deleted(q)' <=> Deleted(q)
    BY <1>1 DEF Moved, PutBack, Undecided, Deleted
  <1>3. \A b \in published : HeldOnce(b)' /\ (Gone(b)' <=> Gone(b))
    BY <1>1, <1>2, HeldOnceKept
  <1>4. PICK b \in published : b = journals[q].entry.build
    BY EntryNamed
  <1>5. Gone(journals[q].entry.build)' <=> Gone(b)'
    BY <1>1, <1>4 DEF Gone, Holds
  <1>6. QED
    BY <1>1, <1>2, <1>3, <1>4, <1>5 DEF CapsuleOK, Ready

\* The intent is copied into the staged capsule.
LEMMA StageStep ==
  ASSUME QuarantineInv, NEW q \in Plans, Stage(q)
  PROVE  QuarantineInv'
  <1>1. /\ Journaled(q) /\ capsules[q] \in Capsule /\ capsules[q].place # "final"
        /\ live \in {NoEntry, journals[q].entry} /\ CapsuleOK(q)
    BY Running DEF Stage, QuarantineInv, RunningOK, Steps
  <1> DEFINE new == [capsules[q] EXCEPT !.place = "staging", !.files = @ \cup {"intent"}]
  <1>2. /\ new \in Capsule /\ new.place = "staging" /\ "intent" \in new.files
        /\ new.payload = capsules[q].payload
    BY <1>1 DEF Capsule, Metadata
  <1>3. capsules' = [capsules EXCEPT ![q] = new]
    BY DEF Stage, QuarantineInv, TypeOK
  <1>4. /\ running' \in [plan : Plans, pc : Steps, db : 0 .. MaxDb]
        /\ running'.plan = q /\ running'.pc = "move"
    BY RunningProceeds DEF Stage, Steps
  <1> HIDE DEF new
  <1>5. Replaces(q, new) /\ UNCHANGED <<restores, deletes, db>>
    BY <1>2, <1>3 DEF Stage, Replaces
  <1>6. capsules'[q] = new
    BY <1>3 DEF QuarantineInv, TypeOK
  <1>7. CapsuleOK(q)' /\ \A b \in published : HeldOnce(b)' /\ (Gone(b)' <=> Gone(b))
    BY <1>1, <1>2, <1>5, SameCapsule DEF CapsuleOK
  <1>8. RunningOK'
    BY <1>1, <1>2, <1>4, <1>5, <1>6 DEF RunningOK, Replaces, Journaled
  <1>9. QED
    BY <1>1, <1>4, <1>5, <1>7, <1>8, ReplacedInv DEF QuarantineInv, TypeOK

LEMMA WriteManifestStep ==
  ASSUME QuarantineInv, NEW q \in Plans, WriteManifest(q)
  PROVE  QuarantineInv'
  <1>1. /\ Journaled(q) /\ capsules[q] \in Capsule /\ capsules[q].place = "staging"
        /\ "intent" \in capsules[q].files /\ capsules[q].payload = "whole" /\ CapsuleOK(q)
    BY Running DEF WriteManifest, QuarantineInv, RunningOK, Steps
  <1> DEFINE new == [capsules[q] EXCEPT !.files = @ \cup {"manifest"}]
  <1>2. /\ new \in Capsule /\ new.place = "staging" /\ new.files = Metadata
        /\ new.payload = capsules[q].payload
    BY <1>1 DEF Capsule, Metadata
  <1>3. capsules' = [capsules EXCEPT ![q] = new]
    BY DEF WriteManifest, QuarantineInv, TypeOK
  <1>4. /\ running' \in [plan : Plans, pc : Steps, db : 0 .. MaxDb]
        /\ running'.plan = q /\ running'.pc = "publish"
    BY RunningProceeds DEF WriteManifest, Steps
  <1> HIDE DEF new
  <1>5. Replaces(q, new) /\ UNCHANGED <<restores, deletes, db>>
    BY <1>2, <1>3 DEF WriteManifest, Replaces
  <1>6. capsules'[q] = new
    BY <1>3 DEF QuarantineInv, TypeOK
  <1>7. CapsuleOK(q)' /\ \A b \in published : HeldOnce(b)' /\ (Gone(b)' <=> Gone(b))
    BY <1>1, <1>2, <1>5, SameCapsule DEF CapsuleOK
  <1>8. RunningOK'
    BY <1>1, <1>2, <1>4, <1>5, <1>6 DEF RunningOK, Replaces, Journaled, Metadata
  <1>9. QED
    BY <1>1, <1>4, <1>5, <1>7, <1>8, ReplacedInv DEF QuarantineInv, TypeOK

\* Only a whole capsule gets its final name.
LEMMA PublishCapsuleStep ==
  ASSUME QuarantineInv, NEW q \in Plans, PublishCapsule(q)
  PROVE  QuarantineInv'
  <1>1. /\ Journaled(q) /\ capsules[q] \in Capsule /\ capsules[q].place = "staging"
        /\ capsules[q].files = Metadata /\ capsules[q].payload = "whole" /\ CapsuleOK(q)
    BY Running DEF PublishCapsule, QuarantineInv, RunningOK, Steps
  <1> DEFINE new == [capsules[q] EXCEPT !.place = "final"]
  <1>2. /\ new \in Capsule /\ new.place = "final" /\ new.payload = capsules[q].payload
        /\ new = [place |-> "final", payload |-> "whole", files |-> Metadata]
    BY <1>1 DEF Capsule
  <1>3. capsules' = [capsules EXCEPT ![q] = new]
    BY DEF PublishCapsule, QuarantineInv, TypeOK
  <1>4. RunningOK' /\ running' = NobodyRuns
    BY EndsOK DEF PublishCapsule
  <1> HIDE DEF new
  <1>5. Replaces(q, new) /\ UNCHANGED <<restores, deletes, db>>
    BY <1>2, <1>3 DEF PublishCapsule, Replaces
  <1>6. new.files = Metadata
    BY <1>2
  <1>7. CapsuleOK(q)' /\ \A b \in published : HeldOnce(b)' /\ (Gone(b)' <=> Gone(b))
    BY <1>1, <1>2, <1>5, <1>6, SameCapsule
  <1>8. QED
    BY <1>1, <1>4, <1>5, <1>7, ReplacedInv DEF QuarantineInv, TypeOK

\* The metadata files go, and the directory, once the payload has gone.
LEMMA DismantleStep ==
  ASSUME QuarantineInv, NEW q \in Plans, Dismantle(q)
  PROVE  QuarantineInv'
  <1>1. PICK pc \in {"cleanup", "dismantle"} : Doing(q, pc)
    BY DEF Dismantle
  <1>2. /\ running \in [plan : Plans, pc : Steps, db : 0 .. MaxDb]
        /\ running # NobodyRuns /\ running.plan = q /\ running.pc = pc
        /\ Journaled(q) /\ capsules[q] \in Capsule /\ CapsuleOK(q)
        /\ capsules[q].payload = "none"
        /\ pc = "cleanup" => restores[q] = "result"
        /\ pc = "dismantle" => deletes[q][running.db] # "none" /\ ~Undecided(q)
    BY <1>1, Running DEF Dismantle, QuarantineInv, RunningOK, Steps, Undecided
  <1>3. Undecided(q) => restores[q] = "result"
    BY <1>2
  <1> DEFINE fewer == [capsules[q] EXCEPT !.files = IF "intent" \in @ THEN @ \ {"intent"} ELSE {}]
             gone == IF capsules[q].place = "final" THEN NoCapsule ELSE capsules[q]
             new == IF capsules[q].files # {} THEN fewer ELSE gone
  <1>4. new \in Capsule /\ new.payload = "none"
    <2>1. fewer \in Capsule /\ fewer.payload = "none"
      BY <1>2 DEF Capsule
    <2>2. gone \in Capsule /\ gone.payload = "none"
      BY <1>2 DEF Capsule, NoCapsule
    <2>3. QED
      BY <2>1, <2>2
  <1>5. capsules' = [capsules EXCEPT ![q] = new] /\ UNCHANGED <<restores, deletes, db>>
    BY DEF Dismantle, QuarantineInv, TypeOK
  <1> HIDE DEF new
  <1>6. Replaces(q, new)
    BY <1>4, <1>5 DEF Dismantle, Replaces
  <1>7. CapsuleOK(q)' /\ \A b \in published : HeldOnce(b)' /\ (Gone(b)' <=> Gone(b))
    BY <1>2, <1>3, <1>4, <1>5, <1>6, SameCapsule
  <1>8. capsules'[q] = new
    BY <1>5 DEF QuarantineInv, TypeOK
  <1>9. /\ running' \in [plan : Plans, pc : Steps, db : 0 .. MaxDb] \cup {NobodyRuns}
        /\ RunningOK'
    <2>1. CASE running' = running
      BY <1>2, <1>4, <1>5, <1>6, <1>8, <2>1 DEF RunningOK, Replaces, Journaled
    <2>2. CASE Ends
      BY <2>2, EndsOK
    <2>3. CASE pc = "dismantle" /\ Proceeds(q, "record_delete")
      <3>1. /\ running' \in [plan : Plans, pc : Steps, db : 0 .. MaxDb]
            /\ running'.plan = q /\ running'.pc = "record_delete" /\ running'.db = running.db
        BY <1>1, <2>3, RunningProceeds DEF Steps
      <3>2. QED
        BY <1>2, <1>4, <1>5, <1>6, <1>8, <2>3, <3>1 DEF RunningOK, Replaces, Journaled
    <2>4. QED
      BY <1>1, <1>2, <2>1, <2>2, <2>3 DEF Dismantle, Doing
  <1>10. QED
    BY <1>2, <1>5, <1>6, <1>7, <1>9, ReplacedInv DEF QuarantineInv, TypeOK

------------------------------------------------------------------------------
(* The steps that record a decision or a result                             *)

\* Nothing about capsule q but its records changes.
LEMMA RecordsOnly ==
  ASSUME QuarantineInv, NEW q \in Plans, UNCHANGED <<live, published, capsules, journals>>,
         \A p \in Plans \ {q} : restores'[p] = restores[p] /\ deletes'[p] = deletes[p],
         ~Undecided(q) => ~Undecided(q)'
  PROVE  Replaces(q, capsules[q]) /\ \A b \in published : HeldOnce(b)' /\ (Gone(b)' <=> Gone(b))
  <1>1. capsules[q] \in Capsule /\ capsules' = [capsules EXCEPT ![q] = capsules[q]]
    BY DEF QuarantineInv, TypeOK
  <1>2. Replaces(q, capsules[q])
    BY <1>1 DEF Replaces
  <1>3. QED
    BY <1>2, HeldOnceKept

LEMMA StartRestoreStep ==
  ASSUME QuarantineInv, NEW q \in Plans, StartRestore(q)
  PROVE  QuarantineInv'
  <1>1. /\ Journaled(q) /\ CapsuleOK(q) /\ restores[q] \in {"none", "intent", "result"}
        /\ restores[q] = "none" => Ready(q)
        /\ restores' = [restores EXCEPT ![q] = IF restores[q] = "none" THEN "intent" ELSE restores[q]]
        /\ UNCHANGED <<live, published, capsules, journals, deletes, db>>
    BY DEF StartRestore, QuarantineInv, TypeOK
  <1>2. restores \in [Plans -> {"none", "intent", "result"}]
    BY DEF QuarantineInv, TypeOK
  <1>3. /\ restores' \in [Plans -> {"none", "intent", "result"}]
        /\ restores'[q] = IF restores[q] = "none" THEN "intent" ELSE restores[q]
        /\ \A p \in Plans \ {q} : restores'[p] = restores[p]
    BY <1>1, <1>2
  <1>4. /\ Undecided(q)' <=> Undecided(q)
        /\ Deleted(q)' <=> Deleted(q)
        /\ PutBack(q)' <=> PutBack(q)
    BY <1>1 DEF Undecided, Deleted, PutBack
  <1>5. Replaces(q, capsules[q]) /\ \A b \in published : HeldOnce(b)' /\ (Gone(b)' <=> Gone(b))
    BY <1>1, <1>3, <1>4, RecordsOnly
  <1>6. CapsuleOK(q)'
    BY <1>1, <1>3, <1>4 DEF CapsuleOK, Moved, Ready
  <1>7. PICK pc \in {"cleanup", "restore"} : /\ Begins(q, pc)
                                             /\ pc = "cleanup" <=> restores[q] = "result"
    BY DEF StartRestore
  <1>8. /\ running' \in [plan : Plans, pc : Steps, db : 0 .. MaxDb]
        /\ running'.plan = q /\ running'.pc = pc
    BY <1>7, RunningBegins DEF Steps
  <1>9. RunningOK'
    BY <1>1, <1>3, <1>7, <1>8 DEF RunningOK, Journaled
  <1>10. deletes' \in [Plans -> [0 .. MaxDb -> {"none", "intent", "result"}]]
    BY <1>1 DEF QuarantineInv, TypeOK
  <1>11. QED
    BY <1>1, <1>3, <1>5, <1>6, <1>8, <1>9, <1>10, ReplacedInv

LEMMA RecordRestoreStep ==
  ASSUME QuarantineInv, NEW q \in Plans, RecordRestore(q)
  PROVE  QuarantineInv'
  <1>1. /\ Journaled(q) /\ CapsuleOK(q) /\ restores[q] = "intent"
        /\ restores' = [restores EXCEPT ![q] = "result"]
        /\ UNCHANGED <<live, published, capsules, journals, deletes, db>>
    BY Running DEF RecordRestore, QuarantineInv, RunningOK, Steps
  <1>2. restores \in [Plans -> {"none", "intent", "result"}]
    BY DEF QuarantineInv, TypeOK
  <1>3. /\ restores' \in [Plans -> {"none", "intent", "result"}]
        /\ restores'[q] = "result"
        /\ \A p \in Plans \ {q} : restores'[p] = restores[p]
    BY <1>1, <1>2
  <1>4. /\ Undecided(q)' <=> Undecided(q)
        /\ Deleted(q)' <=> Deleted(q)
        /\ PutBack(q)' <=> PutBack(q)
    BY <1>1 DEF Undecided, Deleted, PutBack
  <1>5. Replaces(q, capsules[q]) /\ \A b \in published : HeldOnce(b)' /\ (Gone(b)' <=> Gone(b))
    BY <1>1, <1>3, <1>4, RecordsOnly
  <1>6. CapsuleOK(q)'
    BY <1>1, <1>3, <1>4 DEF CapsuleOK, Moved
  <1>7. /\ running' \in [plan : Plans, pc : Steps, db : 0 .. MaxDb]
        /\ running'.plan = q /\ running'.pc = "cleanup"
    BY RunningProceeds DEF RecordRestore, Steps
  <1>8. RunningOK'
    BY <1>1, <1>3, <1>7 DEF RunningOK, Journaled
  <1>9. deletes' \in [Plans -> [0 .. MaxDb -> {"none", "intent", "result"}]]
    BY <1>1 DEF QuarantineInv, TypeOK
  <1>10. QED
    BY <1>1, <1>3, <1>5, <1>6, <1>7, <1>8, <1>9, ReplacedInv

\* The deletion of plan q for database d gets further.
LEMMA DeletionRecorded ==
  ASSUME QuarantineInv, NEW q \in Plans, NEW d \in 0 .. MaxDb, NEW r \in {"intent", "result"},
         deletes' = [deletes EXCEPT ![q][d] = r]
  PROVE  /\ deletes' \in [Plans -> [0 .. MaxDb -> {"none", "intent", "result"}]]
         /\ deletes'[q] \in [0 .. MaxDb -> {"none", "intent", "result"}]
         /\ deletes'[q][d] = r
         /\ \A e \in 0 .. MaxDb : e # d => deletes'[q][e] = deletes[q][e]
         /\ \A p \in Plans \ {q} : deletes'[p] = deletes[p]
         /\ ~Undecided(q)'
  <1>1. /\ deletes \in [Plans -> [0 .. MaxDb -> {"none", "intent", "result"}]]
        /\ deletes[q] \in [0 .. MaxDb -> {"none", "intent", "result"}]
    BY DEF QuarantineInv, TypeOK
  <1>2. PICK new \in [0 .. MaxDb -> {"none", "intent", "result"}] :
          new = [deletes[q] EXCEPT ![d] = r]
    BY <1>1
  <1>3. new[d] = r /\ \A e \in 0 .. MaxDb : e # d => new[e] = deletes[q][e]
    BY <1>1, <1>2
  <1>4. deletes' = [deletes EXCEPT ![q] = new]
    BY <1>2
  <1>5. /\ deletes' \in [Plans -> [0 .. MaxDb -> {"none", "intent", "result"}]]
        /\ deletes'[q] = new
        /\ \A p \in Plans \ {q} : deletes'[p] = deletes[p]
    BY <1>1, <1>4
  <1>6. QED
    BY <1>3, <1>5 DEF Undecided

LEMMA StartDeleteStep ==
  ASSUME QuarantineInv, NEW q \in Plans, StartDelete(q)
  PROVE  QuarantineInv'
  <1>1. /\ Journaled(q) /\ CapsuleOK(q) /\ db \in 0 .. MaxDb
        /\ (deletes[q][db] = "none" /\ Ready(q)) \/ deletes[q][db] = "intent"
        /\ deletes' = [deletes EXCEPT ![q][db] = "intent"]
        /\ UNCHANGED <<live, published, capsules, journals, restores, db>>
    BY DEF StartDelete, QuarantineInv, TypeOK
  <1>2. /\ deletes' \in [Plans -> [0 .. MaxDb -> {"none", "intent", "result"}]]
        /\ deletes'[q][db] = "intent"
        /\ \A e \in 0 .. MaxDb : e # db => deletes'[q][e] = deletes[q][e]
        /\ \A p \in Plans \ {q} : deletes'[p] = deletes[p]
        /\ ~Undecided(q)'
    BY <1>1, DeletionRecorded
  <1>3. Deleted(q)' => Deleted(q)
    BY <1>1, <1>2 DEF Deleted
  <1>4. PutBack(q)' <=> PutBack(q)
    BY <1>1 DEF PutBack
  <1>5. Ready(q) \/ ~Undecided(q)
    BY <1>1 DEF Undecided
  <1>6. Replaces(q, capsules[q]) /\ \A b \in published : HeldOnce(b)' /\ (Gone(b)' <=> Gone(b))
    BY <1>1, <1>2, RecordsOnly
  <1>7. PICK b \in published : b = journals[q].entry.build
    BY <1>1, EntryNamed
  <1>8. Gone(journals[q].entry.build)' <=> Gone(b)'
    BY <1>1, <1>7 DEF Gone, Holds
  <1>9. CapsuleOK(q)'
    <2>1. CASE Ready(q)
      BY <1>1, <1>2, <1>3, <1>4, <2>1 DEF CapsuleOK, Moved, Ready
    <2>2. CASE ~Undecided(q)
      BY <1>1, <1>2, <1>3, <1>4, <1>6, <1>7, <1>8, <2>2 DEF CapsuleOK, Moved
    <2>3. QED
      BY <1>5, <2>1, <2>2
  <1>10. /\ running' \in [plan : Plans, pc : Steps, db : 0 .. MaxDb]
         /\ running'.plan = q /\ running'.pc = "delete" /\ running'.db = db
    BY RunningBegins DEF StartDelete, Steps
  <1>11. RunningOK'
    BY <1>1, <1>2, <1>10 DEF RunningOK, Journaled
  <1>12. restores' \in [Plans -> {"none", "intent", "result"}]
    BY <1>1 DEF QuarantineInv, TypeOK
  <1>13. QED
    BY <1>1, <1>2, <1>6, <1>9, <1>10, <1>11, <1>12, ReplacedInv

\* A deletion is recorded when the capsule holds no payload.
LEMMA RecordDeleteStep ==
  ASSUME QuarantineInv, NEW q \in Plans, RecordDelete(q)
  PROVE  QuarantineInv'
  <1>1. PICK d \in 0 .. MaxDb : d = running.db
    BY Running DEF RecordDelete, Steps
  <1>2. /\ Journaled(q) /\ CapsuleOK(q) /\ ~Undecided(q) /\ capsules[q].payload = "none"
        /\ deletes' = [deletes EXCEPT ![q][d] = "result"]
        /\ UNCHANGED <<live, published, capsules, journals, restores, db>>
    BY <1>1, Running DEF RecordDelete, QuarantineInv, RunningOK, Steps, Undecided
  <1>3. /\ deletes' \in [Plans -> [0 .. MaxDb -> {"none", "intent", "result"}]]
        /\ \A p \in Plans \ {q} : deletes'[p] = deletes[p]
        /\ ~Undecided(q)'
    BY <1>2, DeletionRecorded
  <1>4. PutBack(q)' <=> PutBack(q)
    BY <1>2 DEF PutBack
  <1>5. Replaces(q, capsules[q]) /\ \A b \in published : HeldOnce(b)' /\ (Gone(b)' <=> Gone(b))
    BY <1>2, <1>3, RecordsOnly
  <1>6. PICK b \in published : b = journals[q].entry.build
    BY <1>2, EntryNamed
  <1>7. Gone(journals[q].entry.build)' <=> Gone(b)'
    BY <1>2, <1>6 DEF Gone, Holds
  <1>8. CapsuleOK(q)'
    BY <1>2, <1>3, <1>4, <1>5, <1>6, <1>7 DEF CapsuleOK, Moved
  <1>9. RunningOK' /\ running' = NobodyRuns
    BY EndsOK DEF RecordDelete
  <1>10. restores' \in [Plans -> {"none", "intent", "result"}]
    BY <1>2 DEF QuarantineInv, TypeOK
  <1>11. QED
    BY <1>2, <1>3, <1>5, <1>8, <1>9, <1>10, ReplacedInv

------------------------------------------------------------------------------
(* The steps that move or delete a payload                                  *)

\* Another payload of the same name is published.
LEMMA PublishStep ==
  ASSUME QuarantineInv, NEW b \in Builds, Publish(b)
  PROVE  QuarantineInv'
  <1>1. /\ live = NoEntry /\ b \notin published /\ running = NobodyRuns
        /\ live' = [build |-> b, by |-> NoPlan] /\ published' = published \cup {b}
        /\ UNCHANGED <<capsules, journals, restores, deletes, db, running>>
    BY DEF Publish
  <1>2. /\ live' \in Entry /\ live'.build = b /\ live'.by = NoPlan
        /\ live.build = NoBuild /\ live.by = NoPlan /\ b # NoBuild
    BY <1>1, QuarantineAssumption DEF Entry, NoEntry
  <1>3. TypeOK'
    BY <1>1, <1>2 DEF QuarantineInv, TypeOK, Journaled, Undecided
  <1>4. ASSUME NEW q \in Plans PROVE journals[q].entry.build # b
    <2>1. CASE Journaled(q)
      BY <1>1, <2>1, EntryNamed
    <2>2. CASE ~Journaled(q)
      BY <1>2, <2>2, UnjournaledNamesNone DEF NoEntry
    <2>3. QED
      BY <2>1, <2>2
  <1>5. ASSUME NEW c, c # b, c # NoBuild
        PROVE  Gone(c)' <=> Gone(c)
    BY <1>1, <1>2, <1>5 DEF Gone, Holds
  <1>6. ASSUME NEW q \in Plans PROVE JournalOK(q)' /\ CapsuleOK(q)'
    <2>1. JournalOK(q)'
      BY <1>1 DEF QuarantineInv, JournalOK, Journaled
    <2>2. /\ Moved(q)' <=> Moved(q)
          /\ Undecided(q)' <=> Undecided(q)
          /\ Deleted(q)' <=> Deleted(q)
          /\ Ready(q)' <=> Ready(q)
      BY <1>1 DEF Moved, Undecided, Deleted, Ready
    <2>3. PutBack(q)' => PutBack(q)
      BY <1>1, <1>2, QuarantineAssumption DEF PutBack
    <2>4. live' # journals[q].entry
      BY <1>2, <1>4
    <2>5. ~Undecided(q) => Journaled(q)
      BY DEF QuarantineInv, TypeOK
    <2>6. PICK c : c = journals[q].entry.build
      OBVIOUS
    <2>7. Journaled(q) => (Gone(c)' <=> Gone(c))
      BY <1>4, <1>5, <2>6, EntryNamed
    <2>8. Gone(journals[q].entry.build)' <=> Gone(c)'
      BY <1>1, <2>6 DEF Gone, Holds
    <2>9. QED
      BY <1>1, <2>1, <2>2, <2>3, <2>4, <2>5, <2>6, <2>7, <2>8 DEF QuarantineInv, CapsuleOK
  <1>7. ASSUME NEW c \in published' PROVE HeldOnce(c)'
    <2>1. CASE c = b
      BY <1>1, <1>2, <1>4, <2>1 DEF HeldOnce, Gone, Holds
    <2>2. CASE c # b
      <3>1. c \in published /\ c # NoBuild
        BY <1>1, <2>2, QuarantineAssumption DEF QuarantineInv, TypeOK
      <3>2. QED
        BY <1>1, <1>2, <1>5, <2>2, <3>1 DEF QuarantineInv, HeldOnce, Holds, Undecided
    <2>3. QED
      BY <2>1, <2>2
  <1>8. RunningOK'
    BY <1>1 DEF RunningOK
  <1>9. QED
    BY <1>1, <1>2, <1>3, <1>6, <1>7, <1>8 DEF QuarantineInv

\* The payload of capsule q or the live entry moves: what is left to show.
LEMMA PayloadMoves ==
  ASSUME QuarantineInv, NEW q \in Plans, Journaled(q), NEW new \in Capsule,
         capsules' = [capsules EXCEPT ![q] = new],
         UNCHANGED <<published, journals, restores, deletes, db>>,
         live' \in Entry, live' = NoEntry \/ live'.build \in published,
         running' \in [plan : Plans, pc : Steps, db : 0 .. MaxDb] \cup {NobodyRuns},
         \A p \in Plans : CapsuleOK(p)', \A b \in published : HeldOnce(b)', RunningOK'
  PROVE  QuarantineInv'
  <1>1. capsules \in [Plans -> Capsule] /\ capsules' \in [Plans -> Capsule]
        /\ \A p \in Plans \ {q} : capsules'[p] = capsules[p]
    BY DEF QuarantineInv, TypeOK
  <1>2. TypeOK'
    BY <1>1 DEF QuarantineInv, TypeOK, Journaled, Undecided
  <1>3. \A p \in Plans : JournalOK(p)'
    BY DEF QuarantineInv, JournalOK, Journaled
  <1>4. QED
    BY <1>2, <1>3 DEF QuarantineInv

\* A payload that is staged already stays where it is.
LEMMA MoveStaged ==
  ASSUME QuarantineInv, NEW q \in Plans, Move(q), live = NoEntry
  PROVE  QuarantineInv'
  <1>1. /\ Journaled(q) /\ capsules[q] \in Capsule /\ capsules[q].place = "staging"
        /\ "intent" \in capsules[q].files /\ CapsuleOK(q)
        /\ capsules[q].payload = "whole"
    BY Running DEF Move, QuarantineInv, RunningOK, Steps, CapsuleOK, Capsule
  <1> DEFINE new == [capsules[q] EXCEPT !.payload = "whole"]
  <1>2. new = capsules[q] /\ capsules' = [capsules EXCEPT ![q] = new]
    BY <1>1 DEF Move, QuarantineInv, TypeOK, Capsule
  <1> HIDE DEF new
  <1>3. /\ running' \in [plan : Plans, pc : Steps, db : 0 .. MaxDb]
        /\ running'.plan = q /\ running'.pc = "manifest"
    BY RunningProceeds DEF Move, Steps
  <1>4. Replaces(q, new) /\ UNCHANGED <<restores, deletes, db>>
    BY <1>1, <1>2 DEF Move, Replaces
  <1>5. CapsuleOK(q)' /\ \A b \in published : HeldOnce(b)' /\ (Gone(b)' <=> Gone(b))
    BY <1>1, <1>2, <1>4, SameCapsule DEF CapsuleOK
  <1>6. capsules'[q] = capsules[q] /\ journals' = journals
    BY <1>2, <1>4 DEF QuarantineInv, TypeOK, Replaces
  <1>7. RunningOK'
    BY <1>1, <1>3, <1>6 DEF RunningOK, Journaled
  <1>8. QED
    BY <1>1, <1>3, <1>4, <1>5, <1>7, ReplacedInv DEF QuarantineInv, TypeOK

\* The live entry is the journaled one, and goes into the capsule.
LEMMA MoveLive ==
  ASSUME QuarantineInv, NEW q \in Plans, Move(q), live # NoEntry
  PROVE  QuarantineInv'
  <1>1. /\ Journaled(q) /\ capsules[q] \in Capsule /\ capsules[q].place = "staging"
        /\ "intent" \in capsules[q].files /\ CapsuleOK(q)
        /\ capsules[q].payload = "none" /\ live = journals[q].entry
    BY Running DEF Move, QuarantineInv, RunningOK, Steps
  <1>2. Undecided(q) /\ restores[q] = "none" /\ ~PutBack(q)
    BY <1>1 DEF CapsuleOK, Moved
  <1> DEFINE new == [capsules[q] EXCEPT !.payload = "whole"]
  <1>3. /\ new \in Capsule /\ new.payload = "whole" /\ new.place = "staging"
        /\ "intent" \in new.files
    BY <1>1 DEF Capsule
  <1>4. /\ capsules' = [capsules EXCEPT ![q] = new]
        /\ UNCHANGED <<published, journals, restores, deletes, db>>
        /\ live' = NoEntry
    BY DEF Move, QuarantineInv, TypeOK
  <1> HIDE DEF new
  <1>5. /\ capsules'[q] = new
        /\ \A p \in Plans \ {q} : capsules'[p] = capsules[p]
    BY <1>4 DEF QuarantineInv, TypeOK
  <1>6. /\ running' \in [plan : Plans, pc : Steps, db : 0 .. MaxDb]
        /\ running'.plan = q /\ running'.pc = "manifest"
    BY RunningProceeds DEF Move, Steps
  <1>7. PICK b \in published : b = journals[q].entry.build /\ b = live.build
    BY <1>1, EntryNamed
  <1>8. live'.build = NoBuild /\ live'.by = NoPlan /\ live' \in Entry
    BY <1>4 DEF NoEntry, Entry
  <1>9. HeldOnce(b) /\ \A p \in Plans : ~Holds(p, b)
    BY <1>7 DEF QuarantineInv, HeldOnce
  <1>10. ASSUME NEW p \in Plans, NEW c \in published
         PROVE  Holds(p, c)' <=> (p = q /\ c = b) \/ Holds(p, c)
    BY <1>1, <1>3, <1>4, <1>5, <1>7 DEF Holds
  <1>11. ASSUME NEW c \in published PROVE HeldOnce(c)' /\ (Gone(c) => Gone(c)')
    <2>1. c # NoBuild
      BY <1>11, QuarantineAssumption DEF QuarantineInv, TypeOK
    <2>2. CASE c = b
      BY <1>7, <1>8, <1>9, <1>10, <2>1, <2>2 DEF HeldOnce, Gone
    <2>3. CASE c # b
      BY <1>4, <1>7, <1>8, <1>10, <2>1, <2>3 DEF QuarantineInv, HeldOnce, Gone, Undecided
    <2>4. QED
      BY <2>2, <2>3
  <1>12. ASSUME NEW p \in Plans PROVE CapsuleOK(p)'
    <2>1. /\ Undecided(p)' <=> Undecided(p)
          /\ Deleted(p)' <=> Deleted(p)
      BY <1>4 DEF Undecided, Deleted
    <2>2. PutBack(p)' => PutBack(p)
      BY <1>4, <1>8, QuarantineAssumption DEF PutBack
    <2>3. Moved(p)' => live' # journals'[p].entry
      <3>1. Moved(p)' => Journaled(p)
        BY <1>1, <1>4, <1>5 DEF Moved, QuarantineInv, TypeOK, NoCapsule, Undecided
      <3>2. QED
        BY <1>4, <3>1, EntryNamed
    <2>4. PICK c : c = journals[p].entry.build
      OBVIOUS
    <2>5. ~Undecided(p) => c \in published
      BY <2>4, EntryNamed DEF QuarantineInv, TypeOK
    <2>6. ~Undecided(p) /\ Gone(c) => Gone(c)'
      BY <1>11, <2>5
    <2>7. Gone(journals[p].entry.build)' <=> Gone(c)'
      BY <1>4, <2>4 DEF Gone, Holds
    <2>8. CASE p = q
      BY <1>2, <1>3, <1>4, <1>5, <2>1, <2>2, <2>3, <2>8 DEF CapsuleOK, Deleted, Undecided
    <2>9. CASE p # q
      <3>1. /\ CapsuleOK(p) /\ capsules'[p] = capsules[p]
            /\ Ready(p)' <=> Ready(p)
        BY <1>5, <2>9 DEF QuarantineInv, Ready
      <3>2. QED
        BY <1>4, <2>1, <2>2, <2>3, <2>4, <2>6, <2>7, <3>1 DEF CapsuleOK
    <2>10. QED
      BY <2>8, <2>9
  <1>13. RunningOK'
    BY <1>1, <1>3, <1>4, <1>5, <1>6 DEF RunningOK, Journaled
  <1>14. QED
    BY <1>1, <1>3, <1>4, <1>6, <1>8, <1>11, <1>12, <1>13, PayloadMoves

LEMMA MoveStep ==
  ASSUME QuarantineInv, NEW q \in Plans, Move(q)
  PROVE  QuarantineInv'
  BY MoveStaged, MoveLive

\* A payload that was put back before a crash stays where it is.
LEMMA RestoreMoved ==
  ASSUME QuarantineInv, NEW q \in Plans, RestoreMove(q), live # NoEntry
  PROVE  QuarantineInv'
  <1>1. /\ Journaled(q) /\ capsules[q] \in Capsule /\ CapsuleOK(q)
        /\ restores[q] = "intent" /\ capsules[q].payload = "none"
    BY Running DEF RestoreMove, QuarantineInv, RunningOK, Steps, MetadataOnly
  <1> DEFINE new == [capsules[q] EXCEPT !.payload = "none"]
  <1>2. new = capsules[q] /\ capsules' = [capsules EXCEPT ![q] = new]
    BY <1>1 DEF RestoreMove, QuarantineInv, TypeOK, Capsule
  <1> HIDE DEF new
  <1>3. /\ running' \in [plan : Plans, pc : Steps, db : 0 .. MaxDb]
        /\ running'.plan = q /\ running'.pc = "record_restore"
    BY RunningProceeds DEF RestoreMove, Steps
  <1>4. Replaces(q, new) /\ UNCHANGED <<restores, deletes, db>>
    BY <1>1, <1>2 DEF RestoreMove, Replaces
  <1>5. CapsuleOK(q)' /\ \A b \in published : HeldOnce(b)' /\ (Gone(b)' <=> Gone(b))
    BY <1>1, <1>2, <1>4, SameCapsule DEF CapsuleOK
  <1>6. RunningOK'
    BY <1>1, <1>3, <1>4 DEF RunningOK, Replaces, Journaled
  <1>7. QED
    BY <1>1, <1>3, <1>4, <1>5, <1>6, ReplacedInv DEF QuarantineInv, TypeOK

\* The payload goes back as an entry that never lived before.
LEMMA RestoreLive ==
  ASSUME QuarantineInv, NEW q \in Plans, RestoreMove(q), live = NoEntry
  PROVE  QuarantineInv'
  <1>1. /\ Journaled(q) /\ capsules[q] \in Capsule /\ CapsuleOK(q)
        /\ restores[q] = "intent"
    BY Running DEF RestoreMove, QuarantineInv, RunningOK, Steps
  <1>2. PICK b \in published : b = journals[q].entry.build /\ b # NoBuild /\ b \in Builds
    BY <1>1, EntryNamed DEF QuarantineInv, TypeOK
  <1>3. Ready(q)
    BY <1>2 DEF RestoreMove, IsRestored, NoEntry
  <1>4. /\ capsules[q].payload = "whole" /\ capsules[q].place = "final"
        /\ capsules[q].files = Metadata /\ ~PutBack(q) /\ ~Deleted(q)
    BY <1>1, <1>3 DEF Ready, CapsuleOK
  <1> DEFINE new == [capsules[q] EXCEPT !.payload = "none"]
  <1>5. /\ new \in Capsule /\ new.payload = "none" /\ new.place = "final"
        /\ new.files = Metadata
    BY <1>1, <1>4 DEF Capsule
  <1>6. /\ capsules' = [capsules EXCEPT ![q] = new]
        /\ UNCHANGED <<published, journals, restores, deletes, db>>
        /\ live' = [build |-> b, by |-> q]
    BY <1>2 DEF RestoreMove, QuarantineInv, TypeOK
  <1> HIDE DEF new
  <1>7. /\ capsules'[q] = new
        /\ \A p \in Plans \ {q} : capsules'[p] = capsules[p]
    BY <1>6 DEF QuarantineInv, TypeOK
  <1>8. /\ running' \in [plan : Plans, pc : Steps, db : 0 .. MaxDb]
        /\ running'.plan = q /\ running'.pc = "record_restore"
    BY RunningProceeds DEF RestoreMove, Steps
  <1>9. live'.build = b /\ live'.by = q /\ live' \in Entry /\ live.build = NoBuild
    BY <1>2, <1>6 DEF NoEntry, Entry
  <1>10. Holds(q, b) /\ HeldOnce(b) /\ \A p \in Plans : Holds(p, b) => p = q
    BY <1>2, <1>4 DEF QuarantineInv, HeldOnce, Holds
  <1>11. ASSUME NEW p \in Plans, NEW c \in published
         PROVE  Holds(p, c)' <=> Holds(p, c) /\ p # q
    BY <1>5, <1>6, <1>7 DEF Holds
  <1>12. ASSUME NEW c \in published PROVE HeldOnce(c)' /\ (Gone(c) => Gone(c)')
    <2>1. CASE c = b
      BY <1>9, <1>10, <1>11, <2>1 DEF HeldOnce, Gone
    <2>2. CASE c # b
      <3>1. ~Holds(q, c) /\ c # NoBuild
        BY <1>2, <1>12, <2>2, QuarantineAssumption DEF Holds, QuarantineInv, TypeOK
      <3>2. QED
        BY <1>6, <1>9, <1>11, <2>2, <3>1 DEF QuarantineInv, HeldOnce, Gone, Undecided
    <2>3. QED
      BY <2>1, <2>2
  <1>13. ASSUME NEW p \in Plans PROVE CapsuleOK(p)'
    <2>1. /\ Undecided(p)' <=> Undecided(p)
          /\ Deleted(p)' <=> Deleted(p)
      BY <1>6 DEF Undecided, Deleted
    <2>2. p # q => (PutBack(p)' => PutBack(p))
      BY <1>6, <1>9 DEF PutBack
    <2>3. live' # journals'[p].entry
      BY <1>4, <1>6, <1>9 DEF PutBack
    <2>4. PICK c : c = journals[p].entry.build
      OBVIOUS
    <2>5. ~Undecided(p) => c \in published
      BY <2>4, EntryNamed DEF QuarantineInv, TypeOK
    <2>6. ~Undecided(p) /\ Gone(c) => Gone(c)'
      BY <1>12, <2>5
    <2>7. Gone(journals[p].entry.build)' <=> Gone(c)'
      BY <1>6, <2>4 DEF Gone, Holds
    <2>8. CASE p = q
      BY <1>1, <1>4, <1>5, <1>6, <1>7, <2>1, <2>3, <2>8 DEF CapsuleOK
    <2>9. CASE p # q
      <3>1. /\ CapsuleOK(p) /\ capsules'[p] = capsules[p]
            /\ Ready(p)' <=> Ready(p)
        BY <1>7, <2>9 DEF QuarantineInv, Ready
      <3>2. QED
        BY <1>6, <2>1, <2>2, <2>3, <2>4, <2>6, <2>7, <2>9, <3>1 DEF CapsuleOK
    <2>10. QED
      BY <2>8, <2>9
  <1>14. RunningOK'
    BY <1>1, <1>6, <1>8 DEF RunningOK, Journaled
  <1>15. QED
    BY <1>1, <1>2, <1>5, <1>6, <1>8, <1>9, <1>12, <1>13, <1>14, PayloadMoves

LEMMA RestoreMoveStep ==
  ASSUME QuarantineInv, NEW q \in Plans, RestoreMove(q)
  PROVE  QuarantineInv'
  BY RestoreMoved, RestoreLive

\* The payload of a capsule that somebody decided to delete goes piece by piece.
LEMMA PieceDeleted ==
  ASSUME QuarantineInv, NEW q \in Plans, Doing(q, "delete"),
         capsules[q].place = "final", capsules[q].payload # "none",
         NEW left \in {"part", "none"},
         capsules' = [capsules EXCEPT ![q].payload = left],
         UNCHANGED <<live, published, journals, restores, deletes, db, running>>
  PROVE  QuarantineInv'
  <1>1. /\ Journaled(q) /\ capsules[q] \in Capsule /\ CapsuleOK(q) /\ ~Undecided(q)
        /\ running \in [plan : Plans, pc : Steps, db : 0 .. MaxDb]
        /\ running.plan = q /\ running.pc = "delete"
        /\ deletes[q][running.db] # "none"
    BY Running DEF QuarantineInv, RunningOK, Steps, Undecided
  <1> DEFINE new == [capsules[q] EXCEPT !.payload = left]
  <1>2. /\ new \in Capsule /\ new.payload = left /\ new.place = "final"
    BY <1>1 DEF Capsule
  <1>3. capsules' = [capsules EXCEPT ![q] = new]
    BY DEF QuarantineInv, TypeOK
  <1> HIDE DEF new
  <1>4. Replaces(q, new) /\ capsules'[q] = new
    BY <1>2, <1>3 DEF Replaces, QuarantineInv, TypeOK
  <1>5. ASSUME NEW p \in Plans, NEW c PROVE Holds(p, c)' <=> Holds(p, c) /\ p # q
    BY <1>2, <1>4 DEF Holds, Replaces, QuarantineInv, TypeOK
  <1>6. ~Undecided(q)' /\ (Deleted(q)' <=> Deleted(q)) /\ (PutBack(q)' <=> PutBack(q))
    BY <1>1 DEF Undecided, Deleted, PutBack
  <1>7. ASSUME NEW c \in published PROVE HeldOnce(c)' /\ (Gone(c) => Gone(c)')
    <2>1. Gone(c) => Gone(c)'
      BY <1>5 DEF Gone
    <2>2. Gone(c)' => Gone(c) \/ journals[q].entry.build = c
      BY <1>5 DEF Gone, Holds
    <2>3. QED
      BY <1>1, <1>5, <2>1, <2>2 DEF QuarantineInv, HeldOnce, Undecided
  <1>8. PICK b \in published : b = journals[q].entry.build
    BY <1>1, EntryNamed
  <1>9. restores[q] = "none" => Gone(b)'
    <2>1. CASE capsules[q].payload = "whole"
      <3>1. Holds(q, b) /\ HeldOnce(b)
        BY <1>8, <2>1 DEF Holds, QuarantineInv
      <3>2. QED
        BY <1>5, <3>1 DEF HeldOnce, Gone
    <2>2. CASE capsules[q].payload # "whole"
      BY <1>1, <1>7, <1>8, <2>2 DEF CapsuleOK
    <2>3. QED
      BY <2>1, <2>2
  <1>10. Gone(journals[q].entry.build)' <=> Gone(b)'
    BY <1>8 DEF Gone, Holds
  <1>11. CapsuleOK(q)'
    BY <1>1, <1>2, <1>4, <1>6, <1>9, <1>10 DEF CapsuleOK, Moved
  <1>12. RunningOK'
    BY <1>1 DEF RunningOK, Journaled
  <1>13. QED
    BY <1>1, <1>4, <1>7, <1>11, <1>12, ReplacedInv DEF QuarantineInv, TypeOK

LEMMA DeletePayloadStep ==
  ASSUME QuarantineInv, NEW q \in Plans, DeletePayload(q)
  PROVE  QuarantineInv'
  <1>1. /\ Journaled(q) /\ capsules[q] \in Capsule /\ CapsuleOK(q) /\ ~Undecided(q)
        /\ deletes[q][running.db] # "none" /\ Doing(q, "delete")
        /\ UNCHANGED <<live, published, journals, restores, deletes, db>>
    BY Running DEF DeletePayload, QuarantineInv, RunningOK, Steps, Undecided
  <1>2. CASE /\ capsules[q].place = "final" /\ capsules[q].payload # "none"
             /\ UNCHANGED running
             /\ \E left \in {"part", "none"} : capsules' = [capsules EXCEPT ![q].payload = left]
    BY <1>1, <1>2, PieceDeleted
  <1>3. ASSUME NEW pc \in {"dismantle", "record_delete"}, Proceeds(q, pc), UNCHANGED capsules,
               pc = "record_delete" => capsules[q].payload = "none"
        PROVE  QuarantineInv'
    <2>1. /\ running' \in [plan : Plans, pc : Steps, db : 0 .. MaxDb]
          /\ running'.plan = q /\ running'.pc = pc /\ running'.db = running.db
      BY <1>1, <1>3, RunningProceeds DEF Steps
    <2>2. RunningOK'
      BY <1>1, <1>3, <2>1 DEF RunningOK, Journaled
    <2>3. QED
      BY <1>1, <1>3, <2>1, <2>2, OnlyRuns DEF QuarantineInv, TypeOK
  <1>4. capsules[q].place # "final" => capsules[q].payload = "none"
    BY <1>1 DEF CapsuleOK, Capsule
  <1>5. QED
    BY <1>2, <1>3, <1>4 DEF DeletePayload

------------------------------------------------------------------------------
(* The theorems                                                             *)

LEMMA QuarantineInvInit == Init => QuarantineInv
  <1> SUFFICES ASSUME Init PROVE QuarantineInv
    OBVIOUS
  <1>1. TypeOK
    BY QuarantineAssumption DEF Init, TypeOK, Entry, NoEntry, Capsule, NoCapsule, Metadata, Undecided
  <1>2. ASSUME NEW q \in Plans
        PROVE  ~Journaled(q) /\ Undecided(q) /\ ~Deleted(q) /\ ~PutBack(q) /\ ~Moved(q)
    BY QuarantineAssumption
    DEF Init, Journaled, Undecided, Deleted, PutBack, Moved, NoCapsule, NoEntry, NoJournal
  <1>3. ASSUME NEW q \in Plans PROVE JournalOK(q) /\ CapsuleOK(q)
    BY <1>2 DEF JournalOK, CapsuleOK, Init, NoCapsule
  <1>4. RunningOK
    BY DEF Init, RunningOK
  <1>5. QED
    BY <1>1, <1>3, <1>4 DEF QuarantineInv, Init

LEMMA QuarantineInvStep ==
  ASSUME QuarantineInv, [Next]_vars
  PROVE  QuarantineInv'
  <1>1. CASE \E b \in Builds : Publish(b)
    BY <1>1, PublishStep
  <1>2. CASE DatabaseChanges
    BY <1>2, DatabaseChangesStep
  <1>3. CASE \E q \in Plans : Operate(q)
    <2>1. PICK q \in Plans : Operate(q)
      BY <1>3
    <2>2. QED
      BY <2>1, WriteJournalStep, StartQuarantineStep, StageStep, MoveStep, WriteManifestStep,
         PublishCapsuleStep, StartRestoreStep, RestoreMoveStep, RecordRestoreStep,
         DismantleStep, StartDeleteStep, DeletePayloadStep, RecordDeleteStep
      DEF Operate
  <1>4. CASE Stop
    BY <1>4, StopStep
  <1>5. CASE UNCHANGED vars
    BY <1>5, StutterStep
  <1>6. QED
    BY <1>1, <1>2, <1>3, <1>4, <1>5 DEF Next

LEMMA QuarantineInvAlways == Spec => []QuarantineInv
  <1>1. QuarantineInv /\ [Next]_vars => QuarantineInv'
    BY QuarantineInvStep
  <1>2. QED
    BY <1>1, QuarantineInvInit, PTL DEF Spec

\* The capsules, journals and records of every plan are well formed, and those of
\* a plan whose intent was never written do not exist.
THEOREM QuarantineWellFormed == Spec => []TypeOK
  <1>1. QuarantineInv => TypeOK
    BY DEF QuarantineInv
  <1>2. QED
    BY <1>1, QuarantineInvAlways, PTL

\* How many capsules hold a payload that is held once.
LEMMA HoldersCounted ==
  ASSUME NEW b, HeldOnce(b)
  PROVE  \/ Holders(b) = {} /\ Cardinality(Holders(b)) = 0
         \/ Holders(b) # {} /\ Cardinality(Holders(b)) = 1 /\ live.build # b
  <1>1. CASE Holders(b) = {}
    BY <1>1, FS_EmptySet
  <1>2. CASE Holders(b) # {}
    <2>1. PICK q : q \in Holders(b)
      BY <1>2
    <2>2. Holders(b) = {q}
      BY <2>1 DEF Holders, HeldOnce, Holds
    <2>3. Cardinality({q}) = 1
      BY FS_Singleton
    <2>4. live.build # b
      BY <2>1 DEF Holders, HeldOnce, Holds
    <2>5. QED
      BY <1>2, <2>2, <2>3, <2>4
  <1>3. QED
    BY <1>1, <1>2

\* Whatever the plans do and wherever their processes die, every published payload
\* is live or in one capsule until somebody decides to delete the capsule that
\* held it, and a recorded deletion of a capsule nobody restored is true.
THEOREM PayloadsConserved == Spec => []PayloadConserved
  <1>1. ASSUME QuarantineInv, NEW b \in published
        PROVE  LET places == Cardinality(Holders(b)) + (IF live.build = b THEN 1 ELSE 0)
               IN  /\ places <= 1
                   /\ places = 0 => \E q \in Plans : /\ journals[q].entry.build = b
                                                     /\ ~Undecided(q)
    <2>1. HeldOnce(b)
      BY <1>1 DEF QuarantineInv
    <2>2. Holders(b) = {} /\ live.build # b => Gone(b)
      BY DEF Holders, Gone, Holds
    <2>3. Gone(b) => \E q \in Plans : journals[q].entry.build = b /\ ~Undecided(q)
      BY <2>1 DEF HeldOnce
    <2>4. QED
      BY <2>1, <2>2, <2>3, HoldersCounted
  <1>2. ASSUME QuarantineInv, NEW q \in Plans, Deleted(q), restores[q] = "none"
        PROVE  LET b == journals[q].entry.build IN live.build # b /\ Holders(b) = {}
    <2>1. ~Undecided(q)
      BY <1>2 DEF Deleted, Undecided
    <2>2. CapsuleOK(q)
      BY <1>2 DEF QuarantineInv
    <2>3. Gone(journals[q].entry.build)
      BY <1>2, <2>1, <2>2 DEF CapsuleOK
    <2>4. QED
      BY <2>3 DEF Gone, Holds, Holders
  <1>3. QuarantineInv => PayloadConserved
    BY <1>1, <1>2 DEF PayloadConserved, PayloadsHeld, UnrestoredDeletedIsGone
  <1>4. QED
    BY <1>3, QuarantineInvAlways, PTL

\* A capsule visible under its final name is complete until somebody restores or
\* deletes it, and an interrupted restore finds the metadata it needs.
THEOREM CapsulesStayUsable == Spec => []CapsulesUsable
  <1>1. QuarantineInv => CapsulesUsable
    BY DEF QuarantineInv, CapsuleOK, CapsulesUsable
  <1>2. QED
    BY <1>1, QuarantineInvAlways, PTL

------------------------------------------------------------------------------
(* Retention plans.  A plan is completed over the very database and the very *)
(* classification that its policy names, so an entry that it selected is     *)
(* evidence again only if it was corrupt and is good now.  The second scan   *)
(* found it corrupt as well; an entry never gets better under its stamp, and *)
(* the revisions that its verifier missed are missing still.                 *)

DiskEntries == [state : States, stamp : Nat]

PlanCalls ==
  [pc : {"idle", "before", "scan", "locate", "measure", "locate_again", "planned"},
   purpose : {"report", "snapshot", "final"}, before : Databases \cup {{}}, family : Nat,
   inventory : [Entries -> States], located : [Entries -> Nat], chosen : SUBSET Entries]

PlanTypes ==
  /\ stored \in Databases
  /\ changes \in Nat
  /\ disk \in [Entries -> DiskEntries]
  /\ aside \in [Entries -> DiskEntries]
  /\ \A n \in Entries : disk[n].stamp \in 0..changes
  /\ call \in PlanCalls

\* The database read first has lost nothing since.
ScanOK == call.pc = "scan" => call.before \subseteq stored /\ call.family >= 1

\* No entry was located with a stamp that is still to come.
LocatedOK == \A n \in Entries : call.located[n] \in 0..changes

\* What is chosen was eligible by the policy.
ChosenOK ==
  /\ call.pc = "locate" => Identity(call.before, call.inventory) = policy
  /\ call.pc \in {"measure", "locate_again"} \/ call.purpose = "final" =>
       \A n \in call.chosen : n \in Eligible(policy.inventory, policy.db)

\* Nothing that is verified with n has been put there since it was located.
AsLocated(n) == \A m \in Support(n) : disk[m].stamp = call.located[m]

\* What the second scan finds corrupt remains so, if all it rests on is as located.
RescanOK ==
  call.pc = "scan" /\ call.purpose = "final" =>
    \A n \in call.chosen :
      FamilyOf[n] < call.family /\ call.inventory[n] = "corrupt" /\ AsLocated(n)
        => \E m \in Support(n) : ~Intact(m, call.before)

PlanInv == PlanTypes /\ ScanOK /\ LocatedOK /\ ChosenOK /\ RescanOK

\* What can be reached rests on revisions of the database: those that evidence
\* names itself, or that it inherits from what refers to it.
LEMMA EvidenceAnchored ==
  ASSUME NEW revisions \in Databases, NEW inventory, NEW n \in Reachable(inventory, revisions)
  PROVE  inventory[n] = "good" /\ AnchorsOf[n] # {} /\ AnchorsOf[n] \subseteq revisions
<1> DEFINE S == DirectlyReachable(inventory, revisions)
<1>1. S \in SUBSET Entries
  BY DEF DirectlyReachable
<1>2. Closed(S, inventory)
  BY AnchorsAssumption, PlanAssumption DEF DirectlyReachable, Closed
<1>3. n \in S
  BY <1>1, <1>2 DEF Reachable
<1> QED
  BY <1>3 DEF DirectlyReachable

\* What is good has a stamp that no entry has had.
Renewed(entry) ==
  /\ entry.stamp \in 0..changes + 1
  /\ entry.state = "good" => entry.stamp = changes + 1

\* One entry of the disk changes: it gets a new stamp, or goes, or is damaged.
LEMMA DiskStep ==
  ASSUME PlanInv, NEW n \in Entries, NEW entry \in DiskEntries, ChangeDisk(n, entry),
         aside' \in [Entries -> DiskEntries], Renewed(entry)
  PROVE  PlanInv'
<1> USE DEF PlanInv, ChangeDisk, DiskEntries, Renewed
<1>0. changes \in Nat /\ changes' = changes + 1 /\ UNCHANGED <<stored, policy, call>>
      /\ disk' = [disk EXCEPT ![n] = entry] /\ disk \in [Entries -> DiskEntries]
  BY DEF PlanTypes
<1>1. PlanTypes'
  <2>1. disk' \in [Entries -> DiskEntries]
    BY <1>0
  <2>2. ASSUME NEW m \in Entries PROVE disk'[m].stamp \in 0..changes'
    <3>1. disk'[m] = entry \/ disk'[m] = disk[m]
      BY <1>0
    <3>2. disk[m].stamp \in 0..changes
      BY DEF PlanTypes
    <3> QED
      BY <1>0, <3>1, <3>2
  <2> QED
    BY <1>0, <2>1, <2>2 DEF PlanTypes
<1>2. ScanOK' /\ LocatedOK' /\ ChosenOK'
  <2>1. \A stamp \in 0..changes : stamp \in 0..changes'
    BY <1>0
  <2> QED
    BY <1>0, <2>1 DEF ScanOK, LocatedOK, ChosenOK
<1>3. RescanOK'
  <2> SUFFICES ASSUME call'.pc = "scan", call'.purpose = "final", NEW k \in call'.chosen,
                      FamilyOf[k] < call'.family, call'.inventory[k] = "corrupt", AsLocated(k)'
               PROVE  \E m \in Support(k) : ~Intact(m, call.before)'
    BY DEF RescanOK, Support
  <2>0. \A m \in Support(k) : disk'[m].stamp = call.located[m]
    BY <1>0 DEF AsLocated, Support
  <2>1. \A m \in Support(k) : m \in Entries /\ call.located[m] \in 0..changes
    BY DEF Support, LocatedOK
  <2>2. CASE n \in Support(k)
    <3>1. disk'[n] = entry
      BY <1>0
    <3>2. entry.stamp \in 0..changes /\ changes + 1 \notin 0..changes
      BY <1>0, <2>0, <2>1, <2>2, <3>1
    <3>3. entry.state # "good"
      BY <1>0, <3>2
    <3> QED
      BY <2>2, <3>1, <3>3 DEF Intact
  <2>3. CASE n \notin Support(k)
    <3>1. \A m \in Support(k) : disk'[m] = disk[m]
      BY <1>0, <2>1, <2>3
    <3>2. PICK m \in Support(k) : ~Intact(m, call.before)
      BY <1>0, <2>0, <3>1 DEF RescanOK, AsLocated
    <3> QED
      BY <1>0, <3>1, <3>2 DEF Intact
  <2> QED
    BY <2>2, <2>3
<1> QED
  BY <1>1, <1>2, <1>3

LEMMA PlanStarts == PlanInit(Databases) => PlanInv
BY DEF PlanInit, PlanInv, PlanTypes, PlanCalls, ScanOK, LocatedOK, ChosenOK, RescanOK, DiskEntries, States,
       Absent, Waiting

LEMMA VerifiedIsState ==
  ASSUME PlanTypes, NEW n \in Entries, NEW revisions
  PROVE  Verified(n, revisions) \in States
BY DEF Verified, States

\* A call that is not in its second scan, or has only begun it.
LEMMA NotRescanning ==
  ASSUME PlanTypes, call'.pc # "scan" \/ call'.purpose # "final" \/ call'.family = 1,
         call'.chosen \subseteq Entries
  PROVE  RescanOK'
<1>1. \A n \in Entries : ~(FamilyOf[n] < 1)
  BY PlanAssumption
<1> QED
  BY <1>1 DEF RescanOK

LEMMA PlanSteps == PlanInv /\ [PlanNext]_planVars => PlanInv'
<1> SUFFICES ASSUME PlanInv, [PlanNext]_planVars PROVE PlanInv'
  OBVIOUS
<1>0. PlanTypes
  BY DEF PlanInv
<1>1. ASSUME NEW n \in Entries, PublishEntry(n) PROVE PlanInv'
  <2> DEFINE entry == [state |-> "good", stamp |-> changes + 1]
  <2>1. /\ entry \in DiskEntries /\ aside' \in [Entries -> DiskEntries]
        /\ Renewed(entry)
    BY <1>0, <1>1 DEF PlanTypes, PlanCalls, DiskEntries, States, PublishEntry, Renewed
  <2>2. ChangeDisk(n, entry)
    BY <1>1 DEF PublishEntry
  <2> HIDE DEF entry
  <2> QED
    BY <2>1, <2>2, DiskStep
<1>2. ASSUME NEW n \in Entries, DamageEntry(n) PROVE PlanInv'
  <2> DEFINE entry == [disk[n] EXCEPT !.state = "corrupt"]
  <2>1. entry \in DiskEntries /\ aside' \in [Entries -> DiskEntries] /\ Renewed(entry)
    BY <1>0, <1>2 DEF PlanTypes, PlanCalls, DiskEntries, States, DamageEntry, Renewed
  <2>2. ChangeDisk(n, entry)
    BY <1>2 DEF DamageEntry
  <2> QED
    BY <2>1, <2>2, DiskStep
<1>3. ASSUME NEW n \in Entries, MoveEntryAway(n) PROVE PlanInv'
  <2>1. /\ Absent \in DiskEntries /\ aside' \in [Entries -> DiskEntries]
        /\ Renewed(Absent)
    BY <1>0, <1>3 DEF PlanTypes, PlanCalls, DiskEntries, States, Absent, MoveEntryAway, Renewed
  <2>2. ChangeDisk(n, Absent)
    BY <1>3 DEF MoveEntryAway
  <2> QED
    BY <2>1, <2>2, DiskStep
<1>4. ASSUME NEW n \in Entries, MoveEntryBack(n) PROVE PlanInv'
  <2> DEFINE entry == [aside[n] EXCEPT !.stamp = changes + 1]
  <2>1. /\ entry \in DiskEntries /\ aside' \in [Entries -> DiskEntries]
        /\ Renewed(entry)
    BY <1>0, <1>4 DEF PlanTypes, PlanCalls, DiskEntries, States, Absent, MoveEntryBack, Renewed
  <2>2. ChangeDisk(n, entry)
    BY <1>4 DEF MoveEntryBack
  <2> HIDE DEF entry
  <2> QED
    BY <2>1, <2>2, DiskStep
<1>5. CASE CommitRevision
  <2>1. UNCHANGED <<disk, aside, changes, policy, call>> /\ stored \subseteq stored' /\ stored' \in Databases
    BY <1>5 DEF CommitRevision
  <2>2. PlanTypes' /\ ScanOK' /\ LocatedOK' /\ ChosenOK'
    BY <2>1 DEF PlanInv, PlanTypes, PlanCalls, ScanOK, LocatedOK, ChosenOK
  <2>3. RescanOK'
    BY <2>1 DEF PlanInv, RescanOK, AsLocated, Support, Intact
  <2> QED
    BY <2>2, <2>3 DEF PlanInv
<1>6. CASE ReplaceDatabase
  <2>1. /\ call.pc = "idle" /\ stored' \in Databases
        /\ UNCHANGED <<disk, aside, changes, policy, call>>
    BY <1>6 DEF ReplaceDatabase
  <2>2. PlanTypes'
    BY <1>0, <2>1 DEF PlanTypes, PlanCalls
  <2>3. ScanOK' /\ LocatedOK' /\ ChosenOK' /\ RescanOK'
    BY <2>1 DEF PlanInv, ScanOK, LocatedOK, ChosenOK, RescanOK
  <2> QED
    BY <2>2, <2>3 DEF PlanInv
<1>7. CASE StartReport \/ StartPlan \/ Refuse
  <2>1. PICK c : Continue(c) /\ c \in {Waiting, [Waiting EXCEPT !.pc = "before"],
                                      [Waiting EXCEPT !.pc = "before", !.purpose = "snapshot"]}
    BY <1>7 DEF StartReport, StartPlan, Refuse
  <2>2. /\ c \in PlanCalls /\ c.pc \in {"idle", "before"} /\ c.purpose \in {"report", "snapshot"}
        /\ c.chosen = {} /\ \A n \in Entries : c.located[n] = 0
    <3>1. /\ Waiting \in PlanCalls /\ Waiting.pc = "idle" /\ Waiting.purpose = "report"
          /\ Waiting.chosen = {} /\ \A n \in Entries : Waiting.located[n] = 0
      BY DEF Waiting, PlanCalls, States
    <3> QED
      BY <2>1, <3>1 DEF PlanCalls
  <2>3. call' = c /\ UNCHANGED <<stored, swaps, disk, aside, changes, policy>>
    BY <2>1 DEF Continue
  <2>4. PlanTypes'
    BY <1>0, <2>2, <2>3 DEF PlanTypes, PlanCalls
  <2>5. 0 \in 0..changes'
    BY <1>0, <2>3 DEF PlanTypes
  <2> QED
    BY <1>0, <2>2, <2>3, <2>4, <2>5, NotRescanning DEF PlanInv, ScanOK, LocatedOK, ChosenOK
<1>8. CASE ReadDatabase
  <2>1. /\ call' = [call EXCEPT !.pc = "scan", !.before = stored, !.family = 1]
        /\ UNCHANGED <<stored, swaps, disk, aside, changes, policy>>
    BY <1>8 DEF ReadDatabase, Continue
  <2>2. PlanTypes' /\ ScanOK' /\ LocatedOK'
    <3>1. /\ call'.pc = "scan" /\ call'.before = stored /\ call'.family = 1
          /\ call'.located = call.located
      BY <1>0, <2>1 DEF PlanTypes, PlanCalls
    <3>2. PlanTypes'
      BY <1>0, <2>1 DEF PlanTypes, PlanCalls
    <3> QED
      BY <2>1, <3>1, <3>2 DEF PlanInv, ScanOK, LocatedOK
  <2>3. ChosenOK'
    BY <1>0, <2>1 DEF PlanInv, PlanTypes, PlanCalls, ChosenOK
  <2>4. RescanOK'
    BY <1>0, <2>1, NotRescanning DEF PlanTypes, PlanCalls
  <2> QED
    BY <2>2, <2>3, <2>4 DEF PlanInv
<1>9. CASE ScanFamily
  <2> DEFINE scanned == [n \in Entries |-> IF FamilyOf[n] = call.family THEN Verified(n, stored)
                                                                        ELSE call.inventory[n]]
  <2>1. /\ call.pc = "scan" /\ call' = [call EXCEPT !.family = @ + 1, !.inventory = scanned]
        /\ UNCHANGED <<stored, swaps, disk, aside, changes, policy>>
    BY <1>9 DEF ScanFamily, Continue
  <2>2. PlanTypes' /\ ScanOK' /\ LocatedOK'
    <3>0. call.inventory \in [Entries -> States]
      BY <1>0 DEF PlanTypes, PlanCalls
    <3>1. scanned \in [Entries -> States]
      BY <1>0, <3>0, VerifiedIsState
    <3>2. call.family \in Nat /\ call.family + 1 \in Nat
      BY <1>0 DEF PlanTypes, PlanCalls
    <3>3. PlanTypes'
      BY <1>0, <2>1, <3>1, <3>2 DEF PlanTypes, PlanCalls
    <3>4. /\ call'.before = call.before /\ call'.family = call.family + 1
          /\ call'.located = call.located
      BY <1>0, <2>1 DEF PlanTypes, PlanCalls
    <3> QED
      BY <2>1, <3>2, <3>3, <3>4 DEF PlanInv, ScanOK, LocatedOK
  <2>3. ChosenOK'
    BY <1>0, <2>1 DEF PlanInv, PlanTypes, PlanCalls, ChosenOK
  <2>4. RescanOK'
    <3> SUFFICES ASSUME call.purpose = "final", NEW n \in call.chosen,
                        FamilyOf[n] < call.family + 1, scanned[n] = "corrupt", AsLocated(n)
                 PROVE  \E m \in Support(n) : ~Intact(m, call.before)
      <4>1. /\ call'.pc = "scan" /\ call'.purpose = call.purpose /\ call'.chosen = call.chosen
            /\ call'.family = call.family + 1 /\ call'.inventory = scanned
            /\ call'.located = call.located /\ call'.before = call.before
        BY <1>0, <2>1 DEF PlanTypes, PlanCalls
      <4> HIDE DEF scanned
      <4> QED
        BY <2>1, <4>1 DEF RescanOK, AsLocated, Support, Intact
    <3>1. n \in Entries /\ FamilyOf[n] \in Nat /\ call.family \in Nat /\ call.before \subseteq stored
      BY <1>0, <2>1, PlanAssumption DEF PlanInv, PlanTypes, PlanCalls, ScanOK
    <3>2. FamilyOf[n] = call.family \/ FamilyOf[n] < call.family
      BY <3>1
    <3>3. CASE FamilyOf[n] = call.family
      <4>1. Verified(n, stored) = "corrupt"
        BY <3>1, <3>3
      <4>2. PICK m \in Support(n) : ~Intact(m, stored)
        BY <4>1 DEF Verified
      <4> QED
        BY <3>1, <4>2 DEF Intact
    <3>4. CASE FamilyOf[n] < call.family /\ FamilyOf[n] # call.family
      <4>1. call.inventory[n] = "corrupt"
        BY <3>1, <3>4
      <4> QED
        BY <2>1, <3>4, <4>1 DEF PlanInv, RescanOK
    <3> QED
      BY <3>2, <3>3, <3>4
  <2> QED
    BY <2>2, <2>3, <2>4 DEF PlanInv
<1>10. CASE EndReport
  BY <1>0, <1>10 DEF EndReport, Waiting, PlanInv, PlanTypes, PlanCalls, ScanOK, LocatedOK, ChosenOK, RescanOK,
                     States
<1>11. CASE EndSnapshot
  <2>1. /\ call.pc = "scan" /\ call.purpose = "snapshot" /\ call' = [call EXCEPT !.pc = "locate"]
        /\ Identity(call.before, call.inventory) = policy
        /\ UNCHANGED <<stored, swaps, disk, aside, changes, policy>>
    BY <1>11 DEF EndSnapshot, Continue, Reproduced
  <2> QED
    BY <1>0, <2>1 DEF PlanInv, PlanTypes, PlanCalls, ScanOK, LocatedOK, ChosenOK, RescanOK
<1>12. CASE Locate
  <2> DEFINE stamps == [n \in Entries |-> disk[n].stamp]
  <2>1. PICK S \in SUBSET Eligible(call.inventory, call.before) :
          Continue([call EXCEPT !.pc = "measure", !.chosen = S, !.located = stamps])
    BY <1>12 DEF Locate
  <2>2. /\ call' = [call EXCEPT !.pc = "measure", !.chosen = S, !.located = stamps]
        /\ UNCHANGED <<stored, swaps, disk, aside, changes, policy>>
    BY <2>1 DEF Continue
  <2>3. S \subseteq Entries /\ stamps \in [Entries -> Nat]
    BY <1>0 DEF Eligible, PlanTypes, PlanCalls, DiskEntries
  <2>4. PlanTypes' /\ ScanOK' /\ RescanOK'
    BY <1>0, <2>2, <2>3, NotRescanning DEF PlanTypes, PlanCalls, ScanOK
  <2>7. \A n \in Entries : stamps[n] \in 0..changes
    BY <1>0 DEF PlanTypes
  <2>8. LocatedOK'
    BY <1>0, <2>2, <2>3, <2>7 DEF PlanTypes, PlanCalls, LocatedOK
  <2>5. ASSUME NEW n \in S
        PROVE  n \in Eligible(policy.inventory, policy.db)
    <3>1. policy = [db |-> call.before, inventory |-> call.inventory, known |-> TRUE]
      BY <1>12 DEF Locate, PlanInv, ChosenOK, Identity
    <3> QED
      BY <2>1, <3>1
  <2>6. ChosenOK'
    BY <1>0, <2>2, <2>5 DEF PlanTypes, PlanCalls, ChosenOK
  <2> QED
    BY <2>4, <2>6, <2>8 DEF PlanInv
<1>13. CASE Measure
  BY <1>0, <1>13 DEF Measure, Continue, PlanInv, PlanTypes, PlanCalls, ScanOK, LocatedOK, ChosenOK, RescanOK
<1>14. CASE LocateAgain
  BY <1>0, <1>14 DEF LocateAgain, Continue, PlanInv, PlanTypes, PlanCalls, ScanOK, LocatedOK, ChosenOK, RescanOK
<1>15. CASE EndPlan
  BY <1>0, <1>15 DEF EndPlan, Continue, PlanInv, PlanTypes, PlanCalls, ScanOK, LocatedOK, ChosenOK, RescanOK
<1>16. CASE UNCHANGED planVars
  <2>1. UNCHANGED <<stored, disk, aside, changes, policy, call>>
    BY <1>16 DEF planVars
  <2>2. RescanOK'
    BY <2>1 DEF PlanInv, RescanOK, AsLocated, Support, Intact
  <2> QED
    BY <2>1, <2>2 DEF PlanInv, PlanTypes, PlanCalls, ScanOK, LocatedOK, ChosenOK
<1> QED
  BY <1>1, <1>2, <1>3, <1>4, <1>5, <1>6, <1>7, <1>8, <1>9, <1>10, <1>11, <1>12, <1>13, <1>14,
     <1>15, <1>16
     DEF PlanNext

\* What a plan that completes has chosen is not evidence now, if everything that is
\* verified with it is still what was located.
LEMMA ChosenIsNoEvidence ==
  ASSUME PlanInv, EndPlan, NEW found, found = [n \in Entries |-> Verified(n, stored)],
         NEW k \in call.chosen, k \in Reachable(found, stored), AsLocated(k)
  PROVE  FALSE
<1>1. /\ call.pc = "scan" /\ call.purpose = "final" /\ stored = call.before
      /\ policy = [db |-> call.before, inventory |-> call.inventory, known |-> TRUE]
  BY DEF EndPlan, Reproduced, Identity
<1>2. k \in Entries /\ k \in Eligible(call.inventory, stored) /\ call.inventory[k] \in States
  BY <1>1 DEF PlanInv, PlanTypes, PlanCalls, ChosenOK
<1>3. found[k] = "good" /\ AnchorsOf[k] # {} /\ AnchorsOf[k] \subseteq stored
  BY EvidenceAnchored DEF PlanInv, PlanTypes
<1>4. call.inventory[k] # "good"
  BY <1>2, <1>3 DEF Eligible, Reachable, DirectlyReachable
<1>5. call.inventory[k] = "corrupt"
  BY <1>2, <1>4 DEF Eligible, States
<1>6. FamilyOf[k] < call.family
  <2>1. call.family \in Nat /\ call.family >= 1 /\ call.family \notin Families
    BY <1>1 DEF PlanInv, PlanTypes, PlanCalls, ScanOK, EndPlan
  <2>2. FamilyOf[k] \in Nat /\ 1..FamilyOf[k] \subseteq Families
    BY <1>2, PlanAssumption
  <2> QED
    BY <2>1, <2>2
<1>7. \E m \in Support(k) : ~Intact(m, stored)
  BY <1>1, <1>5, <1>6 DEF PlanInv, RescanOK
<1> QED
  BY <1>2, <1>3, <1>7 DEF Verified

\* A completed plan selects no evidence of the database of that moment, unless that, or
\* something that is verified with it, was put there after the plan had located the
\* entries; whatever was published, damaged, moved or committed while it was made, for
\* any artifacts and databases.
THEOREM CompletedPlansSpareEvidence == PlanSpec => PlansSpareEvidence
<1>1. PlanInv /\ [PlanNext]_planVars =>
        [EndPlan =>
          LET found == [n \in Entries |-> Verified(n, stored)]
          IN  \A n \in call.chosen \cap Reachable(found, stored) :
                \E m \in Support(n) : disk[m].stamp # call.located[m]]_planVars
  BY ChosenIsNoEvidence DEF AsLocated
<1> QED
  BY <1>1, PlanStarts, PlanSteps, PTL DEF PlanSpec, PlansSpareEvidence
==============================================================================
