---------------------------- MODULE RevisionStore ----------------------------
(****************************************************************************)
(* The repository as the code runs it: several processes, each with its own *)
(* SQLite connection, share one WAL database.  A call reads heads outside   *)
(* any transaction, computes a snapshot from immutable revisions, takes the *)
(* write lock with BEGIN IMMEDIATE, compares the heads it read with the     *)
(* current ones and publishes, or rolls everything back.                    *)
(*                                                                          *)
(* A reader never sees a transaction's writes before its commit, so the     *)
(* writes of a transaction are made by its commit step; between BEGIN and   *)
(* commit other processes read, time out on the lock, or crash.             *)
(****************************************************************************)
EXTENDS RevisionLog

CONSTANTS
  Clients,    \* processes; each serves one call at a time
  NoClient    \* nobody holds the write lock

ASSUME ClientsAssumption == NoClient \notin Clients

VARIABLES
  session,    \* the call each process is serving
  writer      \* the process inside a write transaction, or NoClient

vars == <<revs, heads, documents, session, writer>>

Operations == {"init", "write", "merge", "branch", "branch_at"}

Phases == {"idle", "source", "prepare", "ready", "locked"}

SomeKey == CHOOSE k \in Keys : TRUE

Idle == [pc |-> "idle", op |-> "write", key |-> SomeKey, source |-> SomeKey,
         base |-> NoRev, sourceHead |-> NoRev,
         snap |-> [m \in Modules |-> Absent], written |-> {}, extra |-> {}]

Session == [pc : Phases, op : Operations, key : Keys, source : Keys,
            base : Nat, sourceHead : Nat,
            snap : Snapshots, written : SUBSET Modules, extra : SUBSET Contents]

\* A process is inside a transaction exactly when it holds the write lock: no
\* path out of a call keeps the lock.
TypeOK ==
  /\ LogTypeOK
  /\ session \in [Clients -> Session]
  /\ writer \in Clients \cup {NoClient}
  /\ \A c \in Clients : session[c].pc = "locked" <=> writer = c

Init ==
  /\ LogInit
  /\ session = [c \in Clients |-> Idle]
  /\ writer = NoClient

\* The bound: a call starts only while each running call can still publish.
RoomForCall ==
  Len(revs) + Cardinality({c \in Clients : session[c].pc # "idle"}) < MaxRevs

Begins(c, call) ==
  /\ RoomForCall
  /\ session[c].pc = "idle"
  /\ session' = [session EXCEPT ![c] = call]
  /\ UNCHANGED <<revs, heads, documents, writer>>

\* The call ends; what it prepared is dropped.
EndCall(c) == session' = [session EXCEPT ![c] = Idle]

------------------------------------------------------------------------------
(* First reads.  A caller may name the head it expects: the call then goes  *)
(* on only if this first read finds that very head.                         *)

StartInit(c, p) ==
  Begins(c, [Idle EXCEPT !.pc = "ready", !.op = "init", !.key = <<p, Main>>])

\* Which write it is matters first when the snapshot is prepared.
StartWrite(c, k) ==
  /\ heads[k] # NoRev
  /\ Begins(c, [Idle EXCEPT !.pc = "prepare", !.key = k, !.base = heads[k]])

StartMerge(c, k) ==
  /\ heads[k] # NoRev
  /\ Begins(c, [Idle EXCEPT !.pc = "source", !.op = "merge", !.key = k, !.base = heads[k]])

StartCreateBranch(c, k, from) ==
  /\ k[1] = from[1]
  /\ heads[from] # NoRev
  /\ Begins(c, [Idle EXCEPT !.pc = "ready", !.op = "branch", !.key = k,
                            !.source = from, !.base = heads[from]])

\* Mutant: the revision may belong to another project.
StartCreateBranchAtAny(c, k, r) ==
  Begins(c, [Idle EXCEPT !.pc = "ready", !.op = "branch_at", !.key = k, !.base = r])

StartCreateBranchAt(c, k, r) ==
  /\ revs[r].project = k[1]
  /\ Begins(c, [Idle EXCEPT !.pc = "ready", !.op = "branch_at", !.key = k, !.base = r])

\* The second head of a merge, read later than the first.
ReadSource(c) ==
  /\ session[c].pc = "source"
  /\ \E s \in Keys :
       /\ s[1] = session[c].key[1]
       /\ heads[s] # NoRev
       /\ session' = [session EXCEPT ![c].pc = "prepare", ![c].source = s,
                                     ![c].sourceHead = heads[s]]
  /\ UNCHANGED <<revs, heads, documents, writer>>

------------------------------------------------------------------------------
(* Preparing the new snapshot from the revisions read, with no lock held    *)

Prepared(c, snap, written, extra) ==
  /\ session' = [session EXCEPT ![c].pc = "ready", ![c].snap = snap,
                                ![c].written = written, ![c].extra = extra]
  /\ UNCHANGED <<revs, heads, documents, writer>>

\* The snapshot a running write works on.
BaseSnap(c) == revs[session[c].base].snap

Preparing(c, op) == session[c].pc = "prepare" /\ session[c].op = op

\* A node edit or an edit batch on a document that exists.
PrepareEdit(c) ==
  /\ Preparing(c, "write")
  /\ \E m \in Modules :
       /\ BaseSnap(c)[m] # Absent
       /\ Prepared(c, BaseSnap(c), {m}, {})

PrepareCreateProgram(c) ==
  /\ Preparing(c, "write")
  /\ \E m \in Modules :
       /\ BaseSnap(c)[m] = Absent
       /\ Prepared(c, BaseSnap(c), {m}, {})

PrepareImportProgram(c) ==
  /\ Preparing(c, "write")
  /\ \E m \in Modules, replace \in BOOLEAN :
       /\ BaseSnap(c)[m] # Absent => replace
       /\ Prepared(c, BaseSnap(c), {m}, {})

\* Mutant: the document row is inserted in a transaction of its own, before the
\* one that publishes.
PrepareAddContextEarly(c) ==
  /\ Preparing(c, "write")
  /\ \E d \in Contents :
       /\ session' = [session EXCEPT ![c].pc = "ready", ![c].snap = BaseSnap(c),
                                     ![c].extra = {d}]
       /\ documents' = documents \cup {d}
  /\ UNCHANGED <<revs, heads, writer>>

PrepareAddContext(c) ==
  /\ Preparing(c, "write")
  /\ \E d \in Contents : Prepared(c, BaseSnap(c), {}, {d})

\* The three-way merge of the heads a merge read, or of the revisions a revert
\* picks, as the call's new snapshot.
PrepareThreeWay(c, base, theirs) ==
  LET b == revs[base].snap
      o == BaseSnap(c)
      t == revs[theirs].snap
  IN  /\ Mergeable(b, o, t)
      /\ Prepared(c, ThreeWay(b, o, t), BothChanged(b, o, t), {})

PrepareMerge(c) ==
  /\ Preparing(c, "merge")
  /\ \E base \in RevIds :
       /\ BestCommonAncestors(session[c].base, session[c].sourceHead) = {base}
       /\ PrepareThreeWay(c, base, session[c].sourceHead)

\* The preview that the caller reviewed names the head and the revision to undo;
\* an inverse that changes nothing is refused.
PrepareRevert(c) ==
  /\ Preparing(c, "write")
  /\ \E r \in RevIds :
       /\ revs[r].parent1 # NoRev
       /\ OnFirstParentHistory(r, session[c].base)
       /\ Changes(revs[r].snap, BaseSnap(c), revs[revs[r].parent1].snap)
       /\ PrepareThreeWay(c, r, revs[r].parent1)

\* A stale expectation, a missing or duplicate document, a merge conflict, no
\* single merge base, an invalid tree: the call fails before it takes the lock.
Reject(c) ==
  /\ session[c].pc \in {"source", "prepare"}
  /\ EndCall(c)
  /\ UNCHANGED <<revs, heads, documents, writer>>

------------------------------------------------------------------------------
(* The write transaction *)

Begin(c) ==
  /\ session[c].pc = "ready"
  /\ writer = NoClient
  /\ writer' = c
  /\ session' = [session EXCEPT ![c].pc = "locked"]
  /\ UNCHANGED <<revs, heads, documents>>

\* Mutant: BEGIN IMMEDIATE without a busy timeout.
BusyNever(c) == FALSE

\* BEGIN IMMEDIATE waits for busy_timeout_ms at most (DATABASE_BUSY).
Busy(c) ==
  /\ session[c].pc = "ready"
  /\ writer # NoClient
  /\ EndCall(c)
  /\ UNCHANGED <<revs, heads, documents, writer>>

\* Mutant: a merge compares only its target's head.
ExpectedTargetHead(s) ==
  CASE s.op = "branch"    -> [k \in {s.source} |-> s.base]
    [] s.op = "init"      -> [k \in {s.key} |-> NoRev]
    [] s.op = "branch_at" -> [k \in {} |-> NoRev]
    [] OTHER              -> [k \in {s.key} |-> s.base]

\* The heads the call compares inside its transaction.  A merge of a branch into
\* itself keeps one entry for it: the head read second.
ExpectedHeads(s) ==
  CASE s.op = "merge"     -> [k \in {s.key, s.source} |->
                                IF k = s.source THEN s.sourceHead ELSE s.base]
    [] s.op = "branch"    -> [k \in {s.source} |-> s.base]
    [] s.op = "init"      -> [k \in {s.key} |-> NoRev]
    [] s.op = "branch_at" -> [k \in {} |-> NoRev]
    [] OTHER              -> [k \in {s.key} |-> s.base]

\* Mutant: the transaction does not compare the heads again.
HeadsUnchecked(s) == TRUE

HeadsUnchanged(s) ==
  \A k \in DOMAIN ExpectedHeads(s) : heads[k] = ExpectedHeads(s)[k]

\* The branch to create is still free (primary key of branches).
NameFree(s) == s.op \in {"branch", "branch_at"} => heads[s.key] = NoRev

CommitBranch(s) ==
  /\ s.op \in {"branch", "branch_at"}
  /\ heads' = [heads EXCEPT ![s.key] = s.base]
  /\ UNCHANGED <<revs, documents>>

\* Mutant: a merge revision that forgets its second parent.
CommitOneParent(s) ==
  /\ s.op \notin {"branch", "branch_at"}
  /\ Publish(s.key, ExpectedHeads(s)[s.key], NoRev, s.snap, s.written, s.extra)

CommitRevision(s) ==
  /\ s.op \notin {"branch", "branch_at"}
  /\ Publish(s.key, ExpectedHeads(s)[s.key],
             IF s.op = "merge" THEN s.sourceHead ELSE NoRev,
             s.snap, s.written, s.extra)

Commit(c) ==
  /\ session[c].pc = "locked"
  /\ HeadsUnchanged(session[c])
  /\ NameFree(session[c])
  /\ \/ CommitBranch(session[c])
     \/ CommitRevision(session[c])
  /\ writer' = NoClient
  /\ EndCall(c)

\* Mutant: a failed transaction is neither committed nor rolled back.
RollbackForgotten(c) ==
  /\ session[c].pc = "locked"
  /\ ~HeadsUnchanged(session[c]) \/ ~NameFree(session[c])
  /\ EndCall(c)
  /\ UNCHANGED <<revs, heads, documents, writer>>

\* A head moved, or the name is taken: everything rolls back.
Rollback(c) ==
  /\ session[c].pc = "locked"
  /\ ~HeadsUnchanged(session[c]) \/ ~NameFree(session[c])
  /\ writer' = NoClient
  /\ EndCall(c)
  /\ UNCHANGED <<revs, heads, documents>>

\* The process dies: SQLite drops its open transaction and its lock.
Crash(c) ==
  /\ session[c].pc # "idle"
  /\ writer' = IF writer = c THEN NoClient ELSE writer
  /\ EndCall(c)
  /\ UNCHANGED <<revs, heads, documents>>

------------------------------------------------------------------------------
Start(c) ==
  \/ \E p \in Projects : StartInit(c, p)
  \/ \E k \in Keys : StartWrite(c, k)
  \/ \E k \in Keys : StartMerge(c, k)
  \/ \E k, from \in Keys : StartCreateBranch(c, k, from)
  \/ \E k \in Keys, r \in RevIds : StartCreateBranchAt(c, k, r)

\* What a running call does next.
Step(c) ==
  \/ ReadSource(c)
  \/ PrepareEdit(c)
  \/ PrepareCreateProgram(c)
  \/ PrepareImportProgram(c)
  \/ PrepareAddContext(c)
  \/ PrepareMerge(c)
  \/ PrepareRevert(c)
  \/ Reject(c)
  \/ Begin(c)
  \/ Busy(c)
  \/ Commit(c)
  \/ Rollback(c)

Next == \E c \in Clients : Start(c) \/ Step(c) \/ Crash(c)

\* Each process keeps running its own call; it may never start one, or crash.
Fairness == \A c \in Clients : WF_vars(Step(c))

\* The specification without fairness: what the safety runs check.
SafetySpec == Init /\ [][Next]_vars

Spec == SafetySpec /\ Fairness

------------------------------------------------------------------------------
\* Every call returns: nothing waits for ever for a lock or for another process.
CallsReturn == \A c \in Clients : session[c].pc # "idle" ~> session[c].pc = "idle"

==============================================================================
