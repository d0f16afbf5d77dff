-------------------------- MODULE RetainedArtifacts --------------------------
(****************************************************************************)
(* How retained artifacts are published: a directory is staged under a      *)
(* hidden name, admitted under the lock of the aggregate quota, and renamed *)
(* under the lock of its own name.  Four kinds differ in what they do with  *)
(* what they find there:                                                    *)
(*   build      a successful one is kept, anything else is moved aside;     *)
(*   candidate  a successful one is kept, anything else is refused;         *)
(*   evidence   runs, batches, qualifications and attestations: whatever is *)
(*              there stays;                                                *)
(*   backup     the same, and everything is synchronized before and after.  *)
(* Processes die between any two steps, the power fails, and operators move *)
(* entries away and back without either lock.                               *)
(****************************************************************************)
EXTENDS Naturals, FiniteSets, Functions

CONSTANTS
  Names,        \* final names
  KindMaps,     \* what they may stand for: functions [Names -> Kinds]
  SizeOf,       \* [Names -> Nat]: logical bytes of a complete result
  Publishers,   \* processes
  NoPublisher,
  MaxBytes      \* the quota

Kinds == {"build", "candidate", "evidence", "backup"}

ASSUME PublicationAssumption ==
  /\ IsFiniteSet(Names)
  /\ KindMaps \subseteq [Names -> Kinds]
  /\ SizeOf \in [Names -> Nat]
  /\ NoPublisher \notin Publishers
  /\ MaxBytes \in Nat

VARIABLES
  kindOf,     \* the kind of artifact each name stands for
  limited,    \* whether a quota is configured
  entry,      \* what is under each final name
  moved,      \* what operators have moved out of the roots
  returned,   \* names operators have put back since
  publisher,  \* what each process is doing
  quotaLock,  \* holder of the quota's lock
  nameLocks,  \* holder of each name's lock
  confirmed,  \* backups create has returned
  restored,   \* the destination of database restores
  up          \* FALSE from a power failure to the restart

publication == <<kindOf, limited, entry, moved, returned, publisher, quotaLock, nameLocks,
                 confirmed, restored, up>>

Backups == {n \in Names : kindOf[n] = "backup"}

Nothing == [present |-> FALSE, ok |-> FALSE, whole |-> TRUE, synced |-> FALSE]
Good(e) == e.present /\ e.ok /\ e.whole

\* aside is what a build found under its name and moved to a hidden one.
AtRest == [pc |-> "idle", name |-> CHOOSE n \in Names : TRUE, ok |-> FALSE,
           synced |-> FALSE, aside |-> Nothing]

PublicationInit ==
  /\ kindOf \in KindMaps
  /\ limited \in BOOLEAN
  /\ entry = [n \in Names |-> Nothing]
  /\ moved = [n \in Names |-> Nothing]
  /\ returned = {}
  /\ publisher = [p \in Publishers |-> AtRest]
  /\ quotaLock = NoPublisher
  /\ nameLocks = [n \in Names |-> NoPublisher]
  /\ confirmed = {}
  /\ restored = "none"
  /\ up = TRUE

\* Where publication is not what is examined.
NoPublication ==
  PublicationInit /\ kindOf = (CHOOSE k \in KindMaps : TRUE) /\ ~limited

------------------------------------------------------------------------------
(* The quota                                                                *)

\* A build that failed leaves no executable.
Bytes(n, ok) == IF ok THEN SizeOf[n] ELSE 1

\* Directories with hidden names are not counted: stages, and what was moved aside.
Retained(except) ==
  SumFunction([n \in Names |-> IF entry[n].present /\ n \notin except
                               THEN Bytes(n, entry[n].ok) ELSE 0])

\* Mutant: space is reserved for what is staged without counting the rest.
FitsAlone(n, ok) == Bytes(n, ok) <= MaxBytes

\* Every stage of one id has the same content, so the largest stage with the
\* prefix of that id, or any verified one, measures as the publisher's own.
Fits(n, ok) == Retained({n}) + Bytes(n, ok) <= MaxBytes

------------------------------------------------------------------------------
(* Publication                                                              *)

Set(p, r) == publisher' = [publisher EXCEPT ![p] = r]

Goes(p, pc) == Set(p, [publisher[p] EXCEPT !.pc = pc])

At(p, pc) == publisher[p].pc = pc

NameOf(p) == publisher[p].name
KindAt(p) == kindOf[NameOf(p)]

\* Both locks are flocks: they end with the call, or with its process.
Releases(p) ==
  /\ quotaLock' = IF quotaLock = p THEN NoPublisher ELSE quotaLock
  /\ nameLocks' = [n \in Names |-> IF nameLocks[n] = p THEN NoPublisher ELSE nameLocks[n]]

\* A build may fail and is published all the same; the rest is verified first.
\* A build or an attestation whose good result is there already is not made.
StageResult(p, n, ok) ==
  /\ At(p, "idle")
  /\ ok \/ kindOf[n] \in {"build", "candidate"}
  /\ kindOf[n] # "backup" => ~Good(entry[n])
  /\ Set(p, [AtRest EXCEPT !.pc = IF kindOf[n] = "backup" THEN "unsynced" ELSE "staged",
                           !.name = n, !.ok = ok])
  /\ UNCHANGED <<kindOf, limited, entry, moved, returned, quotaLock, nameLocks, confirmed, restored>>

\* Mutant: a backup is renamed before its files are synchronized.
SyncStageLater(p) ==
  /\ At(p, "unsynced")
  /\ Goes(p, "staged")
  /\ UNCHANGED <<kindOf, limited, entry, moved, returned, quotaLock, nameLocks, confirmed, restored>>

SyncStage(p) ==
  /\ At(p, "unsynced")
  /\ Set(p, [publisher[p] EXCEPT !.pc = "staged", !.synced = TRUE])
  /\ UNCHANGED <<kindOf, limited, entry, moved, returned, quotaLock, nameLocks, confirmed, restored>>

\* The quota's lock is held from the measurement to the end of the publication.
Admit(p) ==
  /\ At(p, "staged")
  /\ limited => quotaLock = NoPublisher
  /\ limited => Fits(NameOf(p), publisher[p].ok)
  /\ quotaLock' = IF limited THEN p ELSE quotaLock
  /\ Goes(p, "admitted")
  /\ UNCHANGED <<kindOf, limited, entry, moved, returned, nameLocks, confirmed, restored>>

Exceeds(p) ==
  /\ At(p, "staged")
  /\ limited
  /\ quotaLock = NoPublisher
  /\ ~Fits(NameOf(p), publisher[p].ok)
  /\ Set(p, AtRest)
  /\ UNCHANGED <<kindOf, limited, entry, moved, returned, quotaLock, nameLocks, confirmed, restored>>

LockName(p) ==
  /\ At(p, "admitted")
  /\ nameLocks[NameOf(p)] = NoPublisher
  /\ nameLocks' = [nameLocks EXCEPT ![NameOf(p)] = p]
  /\ Goes(p, "locked")
  /\ UNCHANGED <<kindOf, limited, entry, moved, returned, quotaLock, confirmed, restored>>

\* Mutant: a build replaces whatever it finds.
SupersededNever(p) == KindAt(p) # "build" /\ entry[NameOf(p)].present

\* Somebody else's result stays, and the stage is removed.
Superseded(p) ==
  IF KindAt(p) = "build" THEN Good(entry[NameOf(p)]) ELSE entry[NameOf(p)].present

Discard(p) ==
  /\ At(p, "locked")
  /\ Superseded(p)
  /\ confirmed' = IF KindAt(p) = "backup" /\ Good(entry[NameOf(p)])
                  THEN confirmed \cup {NameOf(p)} ELSE confirmed
  /\ Set(p, AtRest)
  /\ Releases(p)
  /\ UNCHANGED <<kindOf, limited, entry, moved, returned, restored>>

MoveAside(p) ==
  /\ At(p, "locked")
  /\ ~Superseded(p)
  /\ entry[NameOf(p)].present
  /\ Set(p, [publisher[p] EXCEPT !.pc = "aside", !.aside = entry[NameOf(p)]])
  /\ entry' = [entry EXCEPT ![NameOf(p)] = Nothing]
  /\ UNCHANGED <<kindOf, limited, moved, returned, quotaLock, nameLocks, confirmed, restored>>

\* The rename fails if the name was taken meanwhile: its directory is not empty.
Rename(p) ==
  /\ (At(p, "locked") /\ ~Superseded(p)) \/ At(p, "aside")
  /\ ~entry[NameOf(p)].present
  /\ entry' = [entry EXCEPT ![NameOf(p)] =
       [present |-> TRUE, ok |-> publisher[p].ok, whole |-> TRUE, synced |-> publisher[p].synced]]
  /\ returned' = returned \ {NameOf(p)}
  /\ Goes(p, "renamed")
  /\ UNCHANGED <<kindOf, limited, moved, quotaLock, nameLocks, confirmed, restored>>

\* Any other failure of the rename: what was moved aside goes back if it can.
RenameFails(p) ==
  /\ (At(p, "locked") /\ ~Superseded(p)) \/ At(p, "aside")
  /\ At(p, "locked") => ~entry[NameOf(p)].present
  /\ entry' = IF entry[NameOf(p)].present THEN entry
              ELSE [entry EXCEPT ![NameOf(p)] = publisher[p].aside]
  /\ Set(p, AtRest)
  /\ Releases(p)
  /\ UNCHANGED <<kindOf, limited, moved, returned, confirmed, restored>>

\* For a backup: the root is synchronized and the result read back.
Finish(p) ==
  /\ At(p, "renamed")
  /\ confirmed' = IF KindAt(p) = "backup" /\ Good(entry[NameOf(p)])
                  THEN confirmed \cup {NameOf(p)} ELSE confirmed
  /\ Set(p, AtRest)
  /\ Releases(p)
  /\ UNCHANGED <<kindOf, limited, entry, moved, returned, restored>>

------------------------------------------------------------------------------
(* Restoring a database from a backup: copied to a hidden file beside its   *)
(* destination, synchronized, and linked, which fails if anything is there. *)

StartDatabaseRestore(p, n) ==
  /\ At(p, "idle")
  /\ n \in Backups
  /\ Good(entry[n])
  /\ restored = "none"
  /\ Set(p, [AtRest EXCEPT !.pc = "copied", !.name = n])
  /\ UNCHANGED <<kindOf, limited, entry, moved, returned, quotaLock, nameLocks, confirmed, restored>>

SyncCopy(p) ==
  /\ At(p, "copied")
  /\ Set(p, [publisher[p] EXCEPT !.pc = "verified", !.synced = TRUE])
  /\ UNCHANGED <<kindOf, limited, entry, moved, returned, quotaLock, nameLocks, confirmed, restored>>

LinkCopy(p) ==
  /\ At(p, "verified")
  /\ restored' = IF restored # "none" THEN restored
                 ELSE IF publisher[p].synced THEN "linked" ELSE "unsynced"
  /\ Set(p, AtRest)
  /\ UNCHANGED <<kindOf, limited, entry, moved, returned, quotaLock, nameLocks, confirmed>>

\* Somebody else creates a file there.
Occupy ==
  /\ restored = "none"
  /\ restored' = "foreign"
  /\ UNCHANGED <<kindOf, limited, entry, moved, returned, publisher, quotaLock, nameLocks, confirmed>>

------------------------------------------------------------------------------
(* Operators and failures                                                   *)

\* A quarantine renames an entry into its capsule, a restore renames it back.
MoveOut(n) ==
  /\ entry[n].present
  /\ ~moved[n].present
  /\ moved' = [moved EXCEPT ![n] = entry[n]]
  /\ entry' = [entry EXCEPT ![n] = Nothing]
  /\ returned' = returned \ {n}
  /\ UNCHANGED <<kindOf, limited, publisher, quotaLock, nameLocks, confirmed, restored>>

PutBack(n) ==
  /\ ~entry[n].present
  /\ moved[n].present
  /\ entry' = [entry EXCEPT ![n] = moved[n]]
  /\ moved' = [moved EXCEPT ![n] = Nothing]
  /\ returned' = returned \cup {n}
  /\ UNCHANGED <<kindOf, limited, publisher, quotaLock, nameLocks, confirmed, restored>>

\* The stage of a dead process stays behind under its hidden name.
Die(p) ==
  /\ ~At(p, "idle")
  /\ Set(p, AtRest)
  /\ Releases(p)
  /\ UNCHANGED <<kindOf, limited, entry, moved, returned, confirmed, restored>>

\* What was not synchronized may be damaged, and its rename undone; a backup is
\* synchronized before it is renamed, and its root before create returns.
PowerFails ==
  /\ up
  /\ up' = FALSE
  /\ \E lost \in SUBSET {n \in Names : entry[n].present /\ n \notin confirmed},
        torn \in SUBSET {n \in Names : entry[n].present /\ ~entry[n].synced} :
       entry' = [n \in Names |-> IF n \in torn THEN [entry[n] EXCEPT !.whole = FALSE]
                                 ELSE IF n \in lost THEN Nothing ELSE entry[n]]
  /\ restored' \in CASE restored = "linked" -> {"none", "linked"}
                     [] restored = "unsynced" -> {"none", "torn"}
                     [] OTHER -> {restored}
  /\ publisher' = [p \in Publishers |-> AtRest]
  /\ quotaLock' = NoPublisher
  /\ nameLocks' = [n \in Names |-> NoPublisher]
  /\ UNCHANGED <<kindOf, limited, moved, returned, confirmed>>

PowerReturns ==
  /\ ~up
  /\ up' = TRUE
  /\ UNCHANGED <<kindOf, limited, entry, moved, returned, publisher, quotaLock, nameLocks,
                 confirmed, restored>>

PublisherSteps(p) ==
  \/ \E n \in Names, ok \in BOOLEAN : StageResult(p, n, ok)
  \/ SyncStage(p)
  \/ Admit(p)
  \/ Exceeds(p)
  \/ LockName(p)
  \/ Discard(p)
  \/ MoveAside(p)
  \/ Rename(p)
  \/ RenameFails(p)
  \/ Finish(p)
  \/ \E n \in Names : StartDatabaseRestore(p, n)
  \/ SyncCopy(p)
  \/ LinkCopy(p)
  \/ Die(p)

PublicationNext ==
  \/ /\ up
     /\ UNCHANGED up
     /\ \/ \E p \in Publishers : PublisherSteps(p)
        \/ \E n \in Names : MoveOut(n) \/ PutBack(n)
        \/ Occupy
  \/ PowerFails
  \/ PowerReturns

PublicationSpec == PublicationInit /\ [][PublicationNext]_publication

------------------------------------------------------------------------------
\* Publications never take the retained results beyond the quota, whichever of
\* them run at once and die; what operators put back is not theirs to count.
WithinQuota == limited => Retained(returned) <= MaxBytes

\* A backup that create has returned, and is not moved away, can be read again
\* after any crash or power failure, and a restored database is never a part of
\* one.
BackupsLast ==
  /\ \A n \in confirmed : Good(entry[n]) \/ Good(moved[n])
  /\ restored # "torn"

\* A successful build that finds a failed one under its name takes its place:
\* what the documentation says of builds, and that those of virtual merges
\* follow the same rules.
FailedBuildsReplaced ==
  [][\A p \in Publishers :
        Discard(p) /\ KindAt(p) \in {"build", "candidate"} /\ publisher[p].ok
          => Good(entry[NameOf(p)])]_publication

StateOf(e) ==
  IF ~e.present THEN "absent"
  ELSE IF ~e.whole THEN "damaged"
  ELSE IF e.ok THEN "good" ELSE "bad"

Catalog == INSTANCE ArtifactCatalog WITH
  Artifacts <- Names,
  catalog <- [n \in Names |-> StateOf(entry[n])],
  away <- [n \in Names |-> StateOf(moved[n])],
  reported <- confirmed,
  running <- up

\* Retained artifacts are a catalog: a name has nothing or one result that was
\* complete when it was published, and no publication, late, failed or dying
\* half way, takes the place of a successful one.
CatalogSpec == Catalog!CatalogSpec
==============================================================================
