---------------------------- MODULE ProcessProofs ----------------------------
(****************************************************************************)
(* Proofs about what a process shares with others that it does not control: *)
(* the database, the child processes it runs, the compilers it calls, and   *)
(* the file of a database that several processes open.                      *)
(*                                                                          *)
(* RevisionStore implements RevisionLog: whatever processes interleave,     *)
(* fail and crash, each step of theirs is one atomic operation of the log,  *)
(* applied to the heads of that moment, or leaves the log alone.  The       *)
(* argument rests on what a call may rely on while it holds no lock:        *)
(* everything it read belongs to immutable revisions, and the head it read  *)
(* stays on the history of its branch.  CallInv states that; an operation   *)
(* of another process preserves it (CallSurvives).                          *)
(*                                                                          *)
(* A child process is accounted for by bytes: what it wrote is captured or  *)
(* still in a pipe until a limit cuts it (ProcessInv).  A call of a         *)
(* compiler goes by what it has looked at before, which stays so unless     *)
(* somebody replaces the binary meanwhile (ContractInv).  A file that       *)
(* processes open keeps its rows, in the one table that is read, and none   *)
(* of them gets beyond inspection with a file that is refused (OpeningInv). *)
(****************************************************************************)
EXTENDS RevisionStore, RevisionLogProofs, BoundedProcess, CompilerContract, DatabaseOpening,
        FiniteSetTheorems, SequenceTheorems

PreparedWrite(s) ==
  \/ /\ s.snap = revs[s.base].snap
     /\ s.extra = {}
     /\ \E m \in Modules : s.written = {m}
  \/ /\ s.snap = revs[s.base].snap
     /\ s.written = {}
     /\ \E d \in Contents : s.extra = {d}
  \/ \E r \in RevIds :
       LET b == revs[r].snap
           o == revs[s.base].snap
           t == revs[revs[r].parent1].snap
       IN  /\ revs[r].parent1 # NoRev
           /\ OnFirstParentHistory(r, s.base)
           /\ Changes(b, o, t)
           /\ Mergeable(b, o, t)
           /\ s.snap = ThreeWay(b, o, t)
           /\ s.written = BothChanged(b, o, t)
           /\ s.extra = {}

PreparedMerge(s) ==
  \E base \in RevIds :
     LET b == revs[base].snap
         o == revs[s.base].snap
         t == revs[s.sourceHead].snap
     IN  /\ BestCommonAncestors(s.base, s.sourceHead) = {base}
         /\ Mergeable(b, o, t)
         /\ s.snap = ThreeWay(b, o, t)
         /\ s.written = BothChanged(b, o, t)
         /\ s.extra = {}

\* What the call s may rely on, between any two of its steps.
CallInv(s) ==
  /\ s.pc = "source" => s.op = "merge"
  /\ s.pc = "prepare" => s.op \in {"write", "merge"}
  /\ s.pc # "idle" /\ s.op # "init" =>
       s.base \in RevIds /\ revs[s.base].project = s.key[1]
  /\ s.pc # "idle" /\ s.op = "init" =>
       /\ s.key[2] = Main
       /\ s.snap = [m \in Modules |-> Absent] /\ s.written = {} /\ s.extra = {}
  /\ s.pc # "idle" /\ s.op = "branch" => s.source[1] = s.key[1]
  /\ s.pc # "idle" /\ s.op = "merge" =>
       heads[s.key] \in RevIds /\ OnFirstParentHistory(s.base, heads[s.key])
  /\ s.pc \in {"prepare", "ready", "locked"} /\ s.op = "merge" =>
       /\ s.source[1] = s.key[1]
       /\ s.sourceHead \in RevIds
       /\ s.source = s.key => OnFirstParentHistory(s.base, s.sourceHead)
  /\ s.pc \in {"ready", "locked"} /\ s.op = "write" => PreparedWrite(s)
  /\ s.pc \in {"ready", "locked"} /\ s.op = "merge" => PreparedMerge(s)

StoreInv ==
  /\ LogInv
  /\ TypeOK
  /\ \A c \in Clients, s \in Session : s = session[c] => CallInv(s)

------------------------------------------------------------------------------
(* Merge bases and heads under the operations of others                     *)

\* The merge base of two old revisions is settled.
LEMMA BestCommonAncestorsKept ==
  ASSUME LogInv, [LogNext]_logVars, NEW x \in RevIds, NEW y \in RevIds
  PROVE  BestCommonAncestors(x, y)' = BestCommonAncestors(x, y)
  <1>1. Ancestors(x)' = Ancestors(x) /\ Ancestors(y)' = Ancestors(y)
    BY HistoryOfOldKept DEF Ancestors
  <1>2. ASSUME NEW c \in RevIds, NEW d \in RevIds
        PROVE  InHistory(c, d)' <=> InHistory(c, d)
    BY HistoryOfOldKept, RevisionsKept
  <1>3. \A c, d \in Ancestors(x) \cap Ancestors(y) : InHistory(c, d)' <=> InHistory(c, d)
    BY <1>2 DEF Ancestors
  <1>4. QED
    BY <1>1, <1>3 DEF BestCommonAncestors

\* A branch with a head only ever moves forward along first parents.
LEMMA HeadsAdvance ==
  ASSUME LogInv, [LogNext]_logVars, NEW k \in Keys, NEW x \in RevIds,
         heads[k] \in RevIds, OnFirstParentHistory(x, heads[k])
  PROVE  \E h \in RevIds' : h = heads'[k] /\ OnFirstParentHistory(x, h)'
  <1>1. PICK g \in RevIds : g = heads[k] /\ OnFirstParentHistory(x, g)
    OBVIOUS
  <1>2. g \in RevIds' /\ OnFirstParentHistory(x, g)'
    BY <1>1, FirstParentHistoryKept, RevisionsKept
  <1>3. CASE UNCHANGED logVars
    BY <1>1, <1>2, <1>3 DEF logVars
  <1>4. CASE BranchStep
    <2>1. PICK j \in Keys, q \in RevIds :
             heads[j] = NoRev /\ heads' = [heads EXCEPT ![j] = q]
      BY <1>4 DEF BranchStep
    <2>2. j # k
      BY <2>1 DEF RevIds, NoRev
    <2>3. heads'[k] = g
      BY <1>1, <2>1, <2>2 DEF LogInv, LogTypeOK
    <2>4. QED
      BY <1>2, <2>3
  <1>5. CASE PublishStep
    <2>1. PICK j \in Keys, p2 \in RevIds \cup {NoRev}, snap \in Snapshots,
               docs \in SUBSET Modules, extra \in SUBSET Contents :
             Publish(j, heads[j], p2, snap, docs, extra)
      BY <1>5 DEF PublishStep
    <2>2. PICK n :
          /\ n \in RevIds'
          /\ revs'[n].parent1 = heads[j]
          /\ heads' = [heads EXCEPT ![j] = n]
      BY <2>1, PublishFacts
    <2>3. CASE j = k
      <3>1. OnFirstParentHistory(x, n)'
        BY <1>1, <2>2, <2>3, HistoryExtended
      <3>2. heads'[k] = n
        BY <2>2, <2>3 DEF LogInv, LogTypeOK
      <3>3. QED
        BY <2>2, <3>1, <3>2
    <2>4. CASE j # k
      <3>1. heads'[k] = g
        BY <1>1, <2>2, <2>4 DEF LogInv, LogTypeOK
      <3>2. QED
        BY <1>2, <3>1
    <2>5. QED
      BY <2>3, <2>4
  <1>6. QED
    BY <1>3, <1>4, <1>5, StepShape

------------------------------------------------------------------------------
(* A call in progress survives the operations of the others                 *)

LEMMA PreparedWriteKept ==
  ASSUME LogInv, [LogNext]_logVars, NEW s, s.base \in RevIds, PreparedWrite(s)
  PROVE  PreparedWrite(s)'
  <1>1. revs'[s.base] = revs[s.base]
    BY RevisionsKept
  <1>2. ASSUME s.snap = revs[s.base].snap, s.extra = {}, \E m \in Modules : s.written = {m}
        PROVE  PreparedWrite(s)'
    BY <1>1, <1>2 DEF PreparedWrite
  <1>3. ASSUME s.snap = revs[s.base].snap, s.written = {}, \E d \in Contents : s.extra = {d}
        PROVE  PreparedWrite(s)'
    BY <1>1, <1>3 DEF PreparedWrite
  <1>4. ASSUME NEW r \in RevIds,
               revs[r].parent1 # NoRev, OnFirstParentHistory(r, s.base),
               Changes(revs[r].snap, revs[s.base].snap, revs[revs[r].parent1].snap),
               Mergeable(revs[r].snap, revs[s.base].snap, revs[revs[r].parent1].snap),
               s.snap = ThreeWay(revs[r].snap, revs[s.base].snap, revs[revs[r].parent1].snap),
               s.written = BothChanged(revs[r].snap, revs[s.base].snap,
                                       revs[revs[r].parent1].snap),
               s.extra = {}
        PROVE  PreparedWrite(s)'
    <2>1. r \in RevIds' /\ revs'[r] = revs[r]
          /\ revs'[revs[r].parent1] = revs[revs[r].parent1]
      BY <1>4, RevisionsKept, ParentsExist
    <2>2. OnFirstParentHistory(r, s.base)'
      BY <1>4, FirstParentHistoryKept
    <2>3. QED
      BY <1>1, <1>4, <2>1, <2>2 DEF PreparedWrite
  <1>5. QED
    BY <1>2, <1>3, <1>4 DEF PreparedWrite

LEMMA PreparedMergeKept ==
  ASSUME LogInv, [LogNext]_logVars, NEW s,
         s.base \in RevIds, s.sourceHead \in RevIds, PreparedMerge(s)
  PROVE  PreparedMerge(s)'
  <1>1. PICK base \in RevIds :
          /\ BestCommonAncestors(s.base, s.sourceHead) = {base}
          /\ Mergeable(revs[base].snap, revs[s.base].snap, revs[s.sourceHead].snap)
          /\ s.snap = ThreeWay(revs[base].snap, revs[s.base].snap, revs[s.sourceHead].snap)
          /\ s.written = BothChanged(revs[base].snap, revs[s.base].snap,
                                     revs[s.sourceHead].snap)
          /\ s.extra = {}
    BY DEF PreparedMerge
  <1>2. BestCommonAncestors(s.base, s.sourceHead)' = {base}
    BY <1>1, BestCommonAncestorsKept
  <1>3. base \in RevIds' /\ revs'[base] = revs[base] /\ revs'[s.base] = revs[s.base]
        /\ revs'[s.sourceHead] = revs[s.sourceHead]
    BY <1>1, RevisionsKept
  <1>4. QED
    BY <1>1, <1>2, <1>3 DEF PreparedMerge

LEMMA CallSurvives ==
  ASSUME LogInv, [LogNext]_logVars, NEW s \in Session, CallInv(s)
  PROVE  CallInv(s)'
  <1> USE DEF CallInv
  <1>1. s.key \in Keys
    BY DEF Session
  <1>2. s.pc # "idle" /\ s.op # "init" =>
          s.base \in RevIds' /\ revs'[s.base].project = s.key[1]
    BY RevisionsKept
  <1>3. s.pc # "idle" /\ s.op = "merge" =>
          heads'[s.key] \in RevIds' /\ OnFirstParentHistory(s.base, heads[s.key])'
    <2>1. SUFFICES ASSUME s.pc # "idle", s.op = "merge"
                   PROVE  heads'[s.key] \in RevIds' /\ OnFirstParentHistory(s.base, heads[s.key])'
      OBVIOUS
    <2>2. s.base \in RevIds /\ heads[s.key] \in RevIds
          /\ OnFirstParentHistory(s.base, heads[s.key])
      BY <2>1
    <2>3. PICK h \in RevIds' : h = heads'[s.key] /\ OnFirstParentHistory(s.base, h)'
      BY <1>1, <2>2, HeadsAdvance
    <2>4. QED
      BY <2>3 DEF OnFirstParentHistory
  <1>4. s.pc \in {"prepare", "ready", "locked"} /\ s.op = "merge" =>
          /\ s.source[1] = s.key[1]
          /\ s.sourceHead \in RevIds'
          /\ s.source = s.key => OnFirstParentHistory(s.base, s.sourceHead)'
    BY FirstParentHistoryKept, RevisionsKept
  <1>5. s.pc \in {"ready", "locked"} /\ s.op = "write" => PreparedWrite(s)'
    BY PreparedWriteKept
  <1>6. s.pc \in {"ready", "locked"} /\ s.op = "merge" => PreparedMerge(s)'
    BY PreparedMergeKept
  <1>7. QED
    BY <1>2, <1>3, <1>4, <1>5, <1>6

\* The store's invariant, for a step that replaces the call of one process.
LEMMA StoreInvKept ==
  ASSUME StoreInv, [LogNext]_logVars, TypeOK', NEW c \in Clients, NEW next \in Session,
         session' = [session EXCEPT ![c] = next], CallInv(next)
  PROVE  StoreInv'
  <1>1. LogInv'
    BY LogInvStep DEF StoreInv
  <1>2. ASSUME NEW d \in Clients, NEW s \in Session, s = session'[d]
        PROVE  CallInv(s)'
    <2>1. CallInv(s)
      BY <1>2 DEF StoreInv, TypeOK
    <2>2. QED
      BY <2>1, CallSurvives DEF StoreInv
  <1>3. QED
    BY <1>1, <1>2 DEF StoreInv

------------------------------------------------------------------------------
(* The steps outside a commit leave the log alone and the call sound        *)

\* The next state of one process, and of the lock with it.
CallStep(c) ==
  \E next \in Session :
     /\ session' = [session EXCEPT ![c] = next]
     /\ CallInv(next)
     /\ \/ next.pc # "locked" /\ session[c].pc # "locked" /\ writer' = writer
        \/ next.pc = "locked" /\ writer = NoClient /\ writer' = c
        \/ next.pc # "locked" /\ session[c].pc = "locked" /\ writer' = NoClient

LEMMA IdleCall == Idle \in Session /\ CallInv(Idle) /\ Idle.pc = "idle"
  <1>1. <<CHOOSE p \in Projects : TRUE, Main>> \in Keys
    BY ConstantsAssumption DEF Keys
  <1>2. SomeKey \in Keys
    BY <1>1 DEF SomeKey
  <1>3. QED
    BY <1>2 DEF Idle, Session, Phases, Operations, Snapshots, CallInv, NoRev, Absent

\* The process's call ends.
LEMMA EndsCall ==
  ASSUME StoreInv, NEW c \in Clients, EndCall(c),
         \/ session[c].pc # "locked" /\ writer' = writer
         \/ session[c].pc = "locked" /\ writer' = NoClient
  PROVE  CallStep(c)
  BY IdleCall DEF EndCall, CallStep

\* An existing head is an existing revision of the branch's project.
LEMMA HeadExists ==
  ASSUME LogInv, NEW k \in Keys, heads[k] # NoRev
  PROVE  heads[k] \in RevIds /\ heads[k] \in Nat /\ revs[heads[k]].project = k[1]
  BY DEF LogInv, LogTypeOK, ProjectClosed

LEMMA StartSound ==
  ASSUME StoreInv, NEW c \in Clients, Start(c)
  PROVE  CallStep(c) /\ UNCHANGED logVars
  <1> USE IdleCall DEF StoreInv, Begins, logVars
  <1>0. [m \in Modules |-> Absent] \in Snapshots /\ NoRev \in Nat
    BY DEF Snapshots, Absent, NoRev
  <1>1. ASSUME NEW p \in Projects, StartInit(c, p)
        PROVE  CallStep(c) /\ UNCHANGED logVars
    <2> DEFINE next == [Idle EXCEPT !.pc = "ready", !.op = "init", !.key = <<p, Main>>]
    <2>1. <<p, Main>> \in Keys
      BY ConstantsAssumption DEF Keys
    <2>2. next \in Session
      BY <2>1 DEF Session, Phases, Operations
    <2>3. /\ next.pc = "ready" /\ next.op = "init" /\ next.key = <<p, Main>>
          /\ next.snap = [m \in Modules |-> Absent] /\ next.written = {} /\ next.extra = {}
      BY <2>1 DEF Idle
    <2> HIDE DEF next
    <2>4. CallInv(next)
      BY <2>3 DEF CallInv
    <2>5. QED
      BY <1>1, <2>2, <2>3, <2>4 DEF StartInit, CallStep, next
  <1>2. ASSUME NEW k \in Keys, StartWrite(c, k)
        PROVE  CallStep(c) /\ UNCHANGED logVars
    <2>1. PICK h \in RevIds : h = heads[k] /\ h \in Nat /\ revs[h].project = k[1]
      BY <1>2, HeadExists DEF StartWrite
    <2> DEFINE next == [Idle EXCEPT !.pc = "prepare", !.key = k, !.base = h]
    <2>2. next \in Session
      BY <2>1 DEF Session, Phases, Operations
    <2>3. next.pc = "prepare" /\ next.op = "write" /\ next.key = k /\ next.base = h
      BY DEF Idle
    <2> HIDE DEF next
    <2>4. CallInv(next)
      BY <2>1, <2>3 DEF CallInv
    <2>5. QED
      BY <1>2, <2>1, <2>2, <2>3, <2>4 DEF StartWrite, CallStep, next
  <1>3. ASSUME NEW k \in Keys, StartMerge(c, k)
        PROVE  CallStep(c) /\ UNCHANGED logVars
    <2>1. PICK h \in RevIds : h = heads[k] /\ h \in Nat /\ revs[h].project = k[1]
      BY <1>3, HeadExists DEF StartMerge
    <2> DEFINE next == [Idle EXCEPT !.pc = "source", !.op = "merge", !.key = k, !.base = h]
    <2>2. next \in Session
      BY <2>1 DEF Session, Phases, Operations
    <2>3. next.pc = "source" /\ next.op = "merge" /\ next.key = k /\ next.base = h
      BY DEF Idle
    <2>4. OnFirstParentHistory(h, heads[k])
      BY <2>1 DEF OnFirstParentHistory
    <2> HIDE DEF next
    <2>5. CallInv(next)
      BY <2>1, <2>3, <2>4 DEF CallInv
    <2>6. QED
      BY <1>3, <2>1, <2>2, <2>3, <2>5 DEF StartMerge, CallStep, next
  <1>4. ASSUME NEW k \in Keys, NEW from \in Keys, StartCreateBranch(c, k, from)
        PROVE  CallStep(c) /\ UNCHANGED logVars
    <2>1. PICK h \in RevIds : h = heads[from] /\ h \in Nat /\ revs[h].project = k[1]
      BY <1>4, HeadExists DEF StartCreateBranch
    <2> DEFINE next == [Idle EXCEPT !.pc = "ready", !.op = "branch", !.key = k,
                                    !.source = from, !.base = h]
    <2>2. next \in Session
      BY <2>1 DEF Session, Phases, Operations
    <2>3. /\ next.pc = "ready" /\ next.op = "branch" /\ next.key = k
          /\ next.source = from /\ next.base = h
      BY DEF Idle
    <2> HIDE DEF next
    <2>4. CallInv(next)
      BY <1>4, <2>1, <2>3 DEF CallInv, StartCreateBranch
    <2>5. QED
      BY <1>4, <2>1, <2>2, <2>3, <2>4 DEF StartCreateBranch, CallStep, next
  <1>5. ASSUME NEW k \in Keys, NEW r \in RevIds, StartCreateBranchAt(c, k, r)
        PROVE  CallStep(c) /\ UNCHANGED logVars
    <2>1. r \in Nat
      BY DEF RevIds
    <2> DEFINE next == [Idle EXCEPT !.pc = "ready", !.op = "branch_at", !.key = k, !.base = r]
    <2>2. next \in Session
      BY <2>1 DEF Session, Phases, Operations
    <2>3. next.pc = "ready" /\ next.op = "branch_at" /\ next.key = k /\ next.base = r
      BY DEF Idle
    <2> HIDE DEF next
    <2>4. CallInv(next)
      BY <1>5, <2>3 DEF CallInv, StartCreateBranchAt
    <2>5. QED
      BY <1>5, <2>2, <2>3, <2>4 DEF StartCreateBranchAt, CallStep, next
  <1>6. QED
    BY <1>1, <1>2, <1>3, <1>4, <1>5 DEF Start

\* A running call is sound, and what it read exists.
LEMMA RunningCall ==
  ASSUME StoreInv, NEW c \in Clients
  PROVE  session[c] \in Session /\ CallInv(session[c])
  BY DEF StoreInv, TypeOK

LEMMA ReadSourceSound ==
  ASSUME StoreInv, NEW c \in Clients, ReadSource(c)
  PROVE  CallStep(c) /\ UNCHANGED logVars
  <1> DEFINE old == session[c]
  <1>1. old \in Session /\ CallInv(old) /\ old.pc = "source" /\ old.op = "merge"
    BY RunningCall DEF ReadSource, CallInv
  <1>2. PICK k \in Keys :
          /\ k[1] = old.key[1]
          /\ heads[k] # NoRev
          /\ session' = [session EXCEPT ![c].pc = "prepare", ![c].source = k,
                                        ![c].sourceHead = heads[k]]
    BY DEF ReadSource
  <1>3. heads[k] \in RevIds /\ heads[k] \in Nat
    BY <1>2, HeadExists DEF StoreInv
  <1> DEFINE next == [old EXCEPT !.pc = "prepare", !.source = k, !.sourceHead = heads[k]]
  <1>4. next \in Session
    BY <1>1, <1>3 DEF Session, Phases
  <1>5. /\ next.pc = "prepare" /\ next.op = "merge" /\ next.key = old.key
        /\ next.base = old.base /\ next.source = k /\ next.sourceHead = heads[k]
    BY <1>1 DEF Session
  <1>6. session' = [session EXCEPT ![c] = next]
    BY <1>2 DEF StoreInv, TypeOK
  <1>7. next.source = next.key => OnFirstParentHistory(next.base, next.sourceHead)
    BY <1>1, <1>5 DEF CallInv
  <1> HIDE DEF next
  <1>8. CallInv(next)
    BY <1>1, <1>2, <1>3, <1>5, <1>7 DEF CallInv
  <1>9. QED
    BY <1>1, <1>4, <1>5, <1>6, <1>8 DEF ReadSource, CallStep, logVars

\* A prepared write or merge is ready to publish.
LEMMA PreparedSound ==
  ASSUME StoreInv, NEW c \in Clients, session[c].pc = "prepare",
         session[c].op \in {"write", "merge"},
         NEW snap \in Snapshots, NEW docs \in SUBSET Modules,
         NEW extra \in SUBSET Contents, Prepared(c, snap, docs, extra),
         \A s \in Session :
            /\ s.op = session[c].op /\ s.base = session[c].base
            /\ s.sourceHead = session[c].sourceHead
            /\ s.snap = snap /\ s.written = docs /\ s.extra = extra
            => IF s.op = "write" THEN PreparedWrite(s) ELSE PreparedMerge(s)
  PROVE  CallStep(c) /\ UNCHANGED logVars
  <1> DEFINE old == session[c]
             next == [old EXCEPT !.pc = "ready", !.snap = snap,
                                 !.written = docs, !.extra = extra]
  <1>1. old \in Session /\ CallInv(old)
    BY RunningCall
  <1>2. next \in Session
    BY <1>1 DEF Session, Phases
  <1>3. /\ next.pc = "ready" /\ next.op = old.op /\ next.key = old.key
        /\ next.base = old.base /\ next.source = old.source
        /\ next.sourceHead = old.sourceHead
        /\ next.snap = snap /\ next.written = docs /\ next.extra = extra
    BY <1>1 DEF Session
  <1>4. session' = [session EXCEPT ![c] = next]
    BY DEF Prepared, StoreInv, TypeOK
  <1> HIDE DEF next
  <1>5. IF next.op = "write" THEN PreparedWrite(next) ELSE PreparedMerge(next)
    BY <1>2, <1>3
  <1>6. CallInv(next)
    BY <1>1, <1>3, <1>5 DEF CallInv
  <1>7. QED
    BY <1>2, <1>3, <1>4, <1>6 DEF Prepared, CallStep, logVars

LEMMA PrepareSound ==
  ASSUME StoreInv, NEW c \in Clients,
         \/ PrepareEdit(c) \/ PrepareCreateProgram(c) \/ PrepareImportProgram(c)
         \/ PrepareAddContext(c) \/ PrepareMerge(c) \/ PrepareRevert(c)
  PROVE  CallStep(c) /\ UNCHANGED logVars
  <1> DEFINE old == session[c]
  <1>1. old \in Session /\ CallInv(old)
    BY RunningCall
  <1>2. old.pc = "prepare" /\ old.op \in {"write", "merge"}
    BY DEF Preparing, PrepareEdit, PrepareCreateProgram, PrepareImportProgram,
           PrepareAddContext, PrepareMerge, PrepareRevert
  <1>3. old.base \in RevIds /\ BaseSnap(c) \in Snapshots
    BY <1>1, <1>2, RevisionType DEF CallInv, BaseSnap, StoreInv, LogInv
  <1>4. ASSUME NEW m \in Modules, old.op = "write", Prepared(c, BaseSnap(c), {m}, {})
        PROVE  CallStep(c) /\ UNCHANGED logVars
    <2>1. {m} \in SUBSET Modules /\ {} \in SUBSET Contents
      OBVIOUS
    <2>2. \A s : /\ s.base = old.base /\ s.snap = BaseSnap(c)
                 /\ s.written = {m} /\ s.extra = {}
                 => PreparedWrite(s)
      BY DEF PreparedWrite, BaseSnap
    <2>3. QED
      BY <1>2, <1>3, <1>4, <2>1, <2>2, PreparedSound
  <1>5. ASSUME NEW d \in Contents, old.op = "write", Prepared(c, BaseSnap(c), {}, {d})
        PROVE  CallStep(c) /\ UNCHANGED logVars
    <2>1. {} \in SUBSET Modules /\ {d} \in SUBSET Contents
      OBVIOUS
    <2>2. \A s : /\ s.base = old.base /\ s.snap = BaseSnap(c)
                 /\ s.written = {} /\ s.extra = {d}
                 => PreparedWrite(s)
      BY DEF PreparedWrite, BaseSnap
    <2>3. QED
      BY <1>2, <1>3, <1>5, <2>1, <2>2, PreparedSound
  <1>6. ASSUME NEW base \in RevIds, NEW theirs \in RevIds, PrepareThreeWay(c, base, theirs),
               \A s \in Session :
                 /\ s.op = old.op /\ s.base = old.base /\ s.sourceHead = old.sourceHead
                 /\ Mergeable(revs[base].snap, revs[s.base].snap, revs[theirs].snap)
                 /\ s.snap = ThreeWay(revs[base].snap, revs[s.base].snap, revs[theirs].snap)
                 /\ s.written = BothChanged(revs[base].snap, revs[s.base].snap,
                                            revs[theirs].snap)
                 /\ s.extra = {}
                 => IF s.op = "write" THEN PreparedWrite(s) ELSE PreparedMerge(s)
        PROVE  CallStep(c) /\ UNCHANGED logVars
    <2> DEFINE b == revs[base].snap
               o == BaseSnap(c)
               t == revs[theirs].snap
    <2>1. b \in Snapshots /\ t \in Snapshots
      BY RevisionType DEF StoreInv, LogInv
    <2>2. ThreeWay(b, o, t) \in Snapshots /\ BothChanged(b, o, t) \in SUBSET Modules
      BY <1>3, <2>1, ThreeWayType
    <2>3. Mergeable(b, o, t) /\ Prepared(c, ThreeWay(b, o, t), BothChanged(b, o, t), {})
      BY <1>6 DEF PrepareThreeWay
    <2>4. {} \in SUBSET Contents
      OBVIOUS
    <2>5. \A s \in Session :
            /\ s.op = old.op /\ s.base = old.base /\ s.sourceHead = old.sourceHead
            /\ s.snap = ThreeWay(b, o, t) /\ s.written = BothChanged(b, o, t)
            /\ s.extra = {}
            => IF s.op = "write" THEN PreparedWrite(s) ELSE PreparedMerge(s)
      BY <1>6, <2>3 DEF BaseSnap
    <2> HIDE DEF b, o, t
    <2>6. QED
      BY <1>2, <2>2, <2>3, <2>4, <2>5, PreparedSound
  <1>7. CASE PrepareEdit(c) \/ PrepareCreateProgram(c) \/ PrepareImportProgram(c)
    BY <1>4, <1>7 DEF PrepareEdit, PrepareCreateProgram, PrepareImportProgram, Preparing
  <1>8. CASE PrepareAddContext(c)
    BY <1>5, <1>8 DEF PrepareAddContext, Preparing
  <1>9. CASE PrepareMerge(c)
    <2>1. PICK base \in RevIds :
            /\ BestCommonAncestors(old.base, old.sourceHead) = {base}
            /\ PrepareThreeWay(c, base, old.sourceHead)
      BY <1>9 DEF PrepareMerge
    <2>2. old.op = "merge" /\ old.sourceHead \in RevIds
      BY <1>1, <1>2, <1>9 DEF CallInv, PrepareMerge, Preparing
    <2>3. QED
      BY <1>6, <2>1, <2>2 DEF PreparedMerge
  <1>10. CASE PrepareRevert(c)
    <2>1. PICK r \in RevIds :
            /\ revs[r].parent1 # NoRev
            /\ OnFirstParentHistory(r, old.base)
            /\ Changes(revs[r].snap, BaseSnap(c), revs[revs[r].parent1].snap)
            /\ PrepareThreeWay(c, r, revs[r].parent1)
      BY <1>10 DEF PrepareRevert
    <2>2. old.op = "write" /\ revs[r].parent1 \in RevIds
      BY <1>10, <2>1, ParentsExist DEF PrepareRevert, Preparing, StoreInv
    <2>3. \A s : /\ s.base = old.base
                 /\ Mergeable(revs[r].snap, revs[s.base].snap, revs[revs[r].parent1].snap)
                 /\ s.snap = ThreeWay(revs[r].snap, revs[s.base].snap,
                                      revs[revs[r].parent1].snap)
                 /\ s.written = BothChanged(revs[r].snap, revs[s.base].snap,
                                            revs[revs[r].parent1].snap)
                 /\ s.extra = {}
                 => PreparedWrite(s)
      BY <2>1 DEF PreparedWrite, BaseSnap
    <2>4. QED
      BY <1>6, <2>1, <2>2, <2>3
  <1>11. QED
    BY <1>7, <1>8, <1>9, <1>10

------------------------------------------------------------------------------
(* Merging a head into a descendant of it                                   *)

\* History leads to earlier revisions only.
LEMMA HistoryIsEarlier ==
  ASSUME LogInv, NEW h \in RevIds, NEW r \in RevIds, InHistory(r, h)
  PROVE  r <= h
  <1> DEFINE S == 1 .. h
  <1>1. S \in SUBSET RevIds /\ h \in S
    BY DEF RevIds, LogInv, LogTypeOK
  <1>2. AncestryClosed(S)
    <2>1. SUFFICES ASSUME NEW x \in S, NEW p \in {revs[x].parent1, revs[x].parent2} \ {NoRev}
                   PROVE  p \in S
      BY DEF AncestryClosed
    <2>2. p \in 1 .. (x - 1)
      BY <1>1 DEF LogInv, ProjectClosed
    <2>3. QED
      BY <2>2 DEF RevIds
  <1>3. r \in S
    BY <1>1, <1>2 DEF InHistory
  <1>4. QED
    BY <1>3 DEF RevIds

\* An ancestor of a revision is the one best common ancestor of the two.
LEMMA AncestorIsBest ==
  ASSUME LogInv, NEW x \in RevIds, NEW y \in RevIds, InHistory(x, y)
  PROVE  BestCommonAncestors(x, y) = {x}
  <1>1. InHistory(x, x)
    BY DEF InHistory
  <1>2. x \in Ancestors(x) \cap Ancestors(y)
    BY <1>1 DEF Ancestors
  <1>3. \A d \in Ancestors(x) \ {x} : ~InHistory(x, d)
    BY HistoryIsEarlier DEF Ancestors, RevIds
  <1>4. \A d \in Ancestors(x) : InHistory(d, x)
    BY DEF Ancestors
  <1>5. QED
    BY <1>2, <1>3, <1>4 DEF BestCommonAncestors

\* A side that is its own base contributes nothing to a three-way merge.
LEMMA UnchangedSide ==
  ASSUME NEW o \in Snapshots, NEW t \in Snapshots
  PROVE  ThreeWay(o, o, t) = t /\ BothChanged(o, o, t) = {} /\ Mergeable(o, o, t)
  BY DEF ThreeWay, BothChanged, Mergeable, Snapshots

------------------------------------------------------------------------------
\* A commit is one atomic operation, on the heads of its own moment.
LEMMA CommitIsOperation ==
  ASSUME StoreInv, NEW c \in Clients, Commit(c)
  PROVE  LogNext
  <1>1. PICK s \in Session : s = session[c] /\ CallInv(s)
    BY RunningCall
  <1>2. s.pc = "locked" /\ HeadsUnchanged(s) /\ NameFree(s)
        /\ (CommitBranch(s) \/ CommitRevision(s))
    BY <1>1 DEF Commit
  <1>3. s.op \in Operations /\ s.key \in Keys /\ s.source \in Keys
    BY DEF Session
  <1>4. CASE s.op = "branch"
    <2>1. /\ heads[s.source] = s.base
          /\ heads[s.key] = NoRev
          /\ heads' = [heads EXCEPT ![s.key] = s.base]
          /\ UNCHANGED <<revs, documents>>
      BY <1>2, <1>4 DEF HeadsUnchanged, ExpectedHeads, NameFree, CommitBranch, CommitRevision
    <2>2. s.source[1] = s.key[1] /\ s.base # NoRev
      BY <1>1, <1>2, <1>4 DEF CallInv, RevIds, NoRev
    <2>3. CreateBranch(s.key, s.source)
      BY <2>1, <2>2 DEF CreateBranch
    <2>4. QED
      BY <1>3, <2>3 DEF LogNext
  <1>5. CASE s.op = "branch_at"
    <2>1. /\ heads[s.key] = NoRev
          /\ heads' = [heads EXCEPT ![s.key] = s.base]
          /\ UNCHANGED <<revs, documents>>
      BY <1>2, <1>5 DEF NameFree, CommitBranch, CommitRevision
    <2>2. s.base \in RevIds /\ revs[s.base].project = s.key[1]
      BY <1>1, <1>2, <1>5 DEF CallInv
    <2>3. CreateBranchAt(s.key, s.base)
      BY <2>1, <2>2 DEF CreateBranchAt
    <2>4. QED
      BY <1>3, <2>2, <2>3 DEF LogNext
  <1>6. CASE s.op = "init"
    <2>1. s.key = <<s.key[1], Main>> /\ s.key[1] \in Projects
      BY <1>1, <1>2, <1>3, <1>6 DEF CallInv, Keys
    <2>2. ExpectedHeads(s) = [k \in {s.key} |-> NoRev]
      BY <1>6 DEF ExpectedHeads
    <2>3. heads[s.key] = NoRev
      BY <1>2, <2>2 DEF HeadsUnchanged
    <2>4. Publish(s.key, NoRev, NoRev, s.snap, s.written, s.extra)
      BY <1>2, <1>6, <2>2 DEF CommitBranch, CommitRevision
    <2>5. InitProject(s.key[1])
      BY <1>1, <1>2, <1>6, <2>1, <2>3, <2>4 DEF InitProject, CallInv
    <2>6. QED
      BY <2>1, <2>5 DEF LogNext
  <1>7. CASE s.op = "write"
    <2>1. ExpectedHeads(s) = [k \in {s.key} |-> s.base]
      BY <1>7 DEF ExpectedHeads
    <2>2. heads[s.key] = s.base
      BY <1>2, <2>1 DEF HeadsUnchanged
    <2>3. Publish(s.key, heads[s.key], NoRev, s.snap, s.written, s.extra)
      BY <1>2, <1>7, <2>1, <2>2 DEF CommitBranch, CommitRevision
    <2>4. s.base # NoRev /\ PreparedWrite(s)
      BY <1>1, <1>2, <1>7 DEF CallInv, RevIds, NoRev
    <2>5. ASSUME NEW m \in Modules, s.snap = revs[s.base].snap, s.written = {m}, s.extra = {}
          PROVE  WriteModule(s.key, m)
      BY <2>2, <2>3, <2>4, <2>5 DEF WriteModule
    <2>6. ASSUME NEW d \in Contents, s.snap = revs[s.base].snap, s.written = {}, s.extra = {d}
          PROVE  AddContext(s.key, d)
      BY <2>2, <2>3, <2>4, <2>6 DEF AddContext
    <2>7. ASSUME NEW r \in RevIds, revs[r].parent1 # NoRev,
                 OnFirstParentHistory(r, s.base),
                 Changes(revs[r].snap, revs[s.base].snap, revs[revs[r].parent1].snap),
                 Mergeable(revs[r].snap, revs[s.base].snap, revs[revs[r].parent1].snap),
                 s.snap = ThreeWay(revs[r].snap, revs[s.base].snap,
                                   revs[revs[r].parent1].snap),
                 s.written = BothChanged(revs[r].snap, revs[s.base].snap,
                                         revs[revs[r].parent1].snap),
                 s.extra = {}
          PROVE  Revert(s.key, r)
      BY <2>2, <2>3, <2>4, <2>7 DEF Revert, PublishThreeWay, Publish
    <2>8. QED
      BY <1>3, <2>4, <2>5, <2>6, <2>7 DEF PreparedWrite, LogNext
  <1>8. CASE s.op = "merge"
    <2> DEFINE h == s.sourceHead
    <2>1. ExpectedHeads(s) = [k \in {s.key, s.source} |->
                                IF k = s.source THEN s.sourceHead ELSE s.base]
      BY <1>8 DEF ExpectedHeads
    <2>2. heads[s.source] = h
      BY <1>2, <2>1 DEF HeadsUnchanged
    <2>3. heads[s.key] = ExpectedHeads(s)[s.key]
      BY <1>2, <2>1 DEF HeadsUnchanged
    <2>4. Publish(s.key, heads[s.key], h, s.snap, s.written, s.extra)
      BY <1>2, <1>8, <2>3 DEF CommitBranch, CommitRevision
    <2>5. /\ s.source[1] = s.key[1]
          /\ s.base \in RevIds /\ h \in RevIds /\ heads[s.key] \in RevIds
          /\ s.source = s.key => OnFirstParentHistory(s.base, h)
      BY <1>1, <1>2, <1>8 DEF CallInv
    <2>6. heads[s.key] # NoRev /\ h # NoRev
      BY <2>5 DEF RevIds, NoRev
    <2>7. PICK base \in RevIds :
            /\ BestCommonAncestors(s.base, h) = {base}
            /\ Mergeable(revs[base].snap, revs[s.base].snap, revs[h].snap)
            /\ s.snap = ThreeWay(revs[base].snap, revs[s.base].snap, revs[h].snap)
            /\ s.written = BothChanged(revs[base].snap, revs[s.base].snap, revs[h].snap)
            /\ s.extra = {}
      BY <1>1, <1>2, <1>8 DEF CallInv, PreparedMerge
    <2>8. CASE s.source # s.key
      <3>1. heads[s.key] = s.base
        BY <2>1, <2>3, <2>8
      <3>2. PublishThreeWay(s.key, base, h, h) /\ AdvanceHead(s.key)
        BY <2>4, <2>7, <3>1 DEF PublishThreeWay, Publish
      <3>3. Merge(s.key, s.source)
        BY <2>2, <2>5, <2>6, <2>7, <3>1, <3>2 DEF Merge
      <3>4. QED
        BY <1>3, <3>3 DEF LogNext
    \* A branch merged into itself: the merge of the head with itself.
    <2>9. CASE s.source = s.key
      <3>1. LogInv
        BY DEF StoreInv
      <3>2. revs[s.base].snap \in Snapshots /\ revs[h].snap \in Snapshots
        BY <2>5, <3>1, RevisionType DEF LogInv
      <3>3. base = s.base
        BY <2>5, <2>7, <2>9, <3>1, AncestorIsBest, FirstParentHistoryInHistory
      <3>4. s.snap = revs[h].snap /\ s.written = {}
        BY <2>7, <3>2, <3>3, UnchangedSide
      <3>5. heads[s.key] = h
        BY <2>2, <2>9
      <3>6. BestCommonAncestors(h, h) = {h}
        BY <2>5, <3>1, AncestorIsBest DEF InHistory
      <3>7. PublishThreeWay(s.key, h, h, h) /\ AdvanceHead(s.key)
        <4> DEFINE t == revs[h].snap
        <4>1. ThreeWay(t, t, t) = t /\ BothChanged(t, t, t) = {} /\ Mergeable(t, t, t)
          BY <3>2, UnchangedSide
        <4>2. Publish(s.key, heads[s.key], h, ThreeWay(t, t, t), BothChanged(t, t, t), {})
          BY <2>4, <2>7, <3>4, <4>1
        <4>3. revs[heads[s.key]].snap = t
          BY <3>5
        <4>4. QED
          BY <4>1, <4>2, <4>3 DEF PublishThreeWay, Publish
      <3>8. Merge(s.key, s.key)
        BY <2>5, <2>6, <3>5, <3>6, <3>7 DEF Merge
      <3>9. QED
        BY <1>3, <3>8 DEF LogNext
    <2>10. QED
      BY <2>8, <2>9
  <1>9. QED
    BY <1>3, <1>4, <1>5, <1>6, <1>7, <1>8 DEF Operations

LEMMA CommitEndsCall ==
  ASSUME StoreInv, NEW c \in Clients, Commit(c)
  PROVE  CallStep(c)
  BY EndsCall DEF Commit

------------------------------------------------------------------------------
\* Each step of the processes is a step of the log or leaves it alone, and the
\* process that took it is in a sound state.
LEMMA NextShape ==
  ASSUME StoreInv, Next
  PROVE  [LogNext]_logVars /\ \E c \in Clients : CallStep(c)
  <1>1. PICK c \in Clients : Start(c) \/ Step(c) \/ Crash(c)
    BY DEF Next
  <1>2. CASE Start(c)
    BY <1>2, StartSound
  <1>3. CASE ReadSource(c)
    BY <1>3, ReadSourceSound
  <1>4. CASE \/ PrepareEdit(c) \/ PrepareCreateProgram(c) \/ PrepareImportProgram(c)
             \/ PrepareAddContext(c) \/ PrepareMerge(c) \/ PrepareRevert(c)
    BY <1>4, PrepareSound
  <1>5. CASE Reject(c) \/ Busy(c) \/ Rollback(c)
    BY <1>5, EndsCall DEF Reject, Busy, Rollback, logVars
  <1>6. CASE Begin(c)
    <2> DEFINE old == session[c]
               next == [old EXCEPT !.pc = "locked"]
    <2>1. old \in Session /\ CallInv(old) /\ old.pc = "ready"
      BY <1>6, RunningCall DEF Begin
    <2>2. next \in Session /\ session' = [session EXCEPT ![c] = next]
      BY <1>6, <2>1 DEF Begin, Session, Phases, StoreInv, TypeOK
    <2>3. /\ next.pc = "locked" /\ next.op = old.op /\ next.key = old.key
          /\ next.base = old.base /\ next.source = old.source
          /\ next.sourceHead = old.sourceHead /\ next.snap = old.snap
          /\ next.written = old.written /\ next.extra = old.extra
      BY <2>1 DEF Session
    <2> HIDE DEF next
    <2>4. CallInv(next)
      BY <2>1, <2>3 DEF CallInv, PreparedWrite, PreparedMerge
    <2>5. QED
      BY <1>6, <2>2, <2>3, <2>4 DEF Begin, CallStep, logVars
  <1>7. CASE Commit(c)
    BY <1>7, CommitIsOperation, CommitEndsCall
  <1>8. CASE Crash(c)
    <2>1. session[c].pc = "locked" <=> writer = c
      BY DEF StoreInv, TypeOK
    <2>2. QED
      BY <1>8, <2>1, EndsCall DEF Crash, logVars
  <1>9. QED
    BY <1>1, <1>2, <1>3, <1>4, <1>5, <1>6, <1>7, <1>8 DEF Step

\* Initially no call runs.
LEMMA StoreInvInit == Init => StoreInv
  <1> SUFFICES ASSUME Init PROVE StoreInv
    OBVIOUS
  <1>1. LogInv
    BY LogInvInit DEF Init
  <1>2. TypeOK
    BY <1>1, IdleCall, ClientsAssumption DEF Init, TypeOK, LogInv
  <1>3. \A c \in Clients, s \in Session : s = session[c] => CallInv(s)
    BY IdleCall DEF Init
  <1>4. QED
    BY <1>1, <1>2, <1>3 DEF StoreInv

\* Every step keeps the invariant.
LEMMA StoreInvStep ==
  ASSUME StoreInv, [Next]_vars
  PROVE  StoreInv' /\ [LogNext]_logVars
  <1>1. CASE UNCHANGED vars
    <2>1. UNCHANGED logVars /\ UNCHANGED <<session, writer>>
      BY <1>1 DEF vars, logVars
    <2>2. LogInv'
      BY <2>1, LogInvStep DEF StoreInv
    <2>3. TypeOK'
      BY <2>1, <2>2 DEF StoreInv, TypeOK, LogInv
    <2>4. ASSUME NEW d \in Clients, NEW s \in Session, s = session'[d]
          PROVE  CallInv(s)'
      BY <2>1, <2>4, CallSurvives DEF StoreInv
    <2>5. QED
      BY <2>1, <2>2, <2>3, <2>4 DEF StoreInv
  <1>2. CASE Next
    <2>1. [LogNext]_logVars
      BY <1>2, NextShape
    <2>2. PICK c \in Clients : CallStep(c)
      BY <1>2, NextShape
    <2>3. PICK next \in Session :
            /\ session' = [session EXCEPT ![c] = next]
            /\ CallInv(next)
            /\ \/ next.pc # "locked" /\ session[c].pc # "locked" /\ writer' = writer
               \/ next.pc = "locked" /\ writer = NoClient /\ writer' = c
               \/ next.pc # "locked" /\ session[c].pc = "locked" /\ writer' = NoClient
      BY <2>2 DEF CallStep
    <2>4. LogTypeOK'
      BY <2>1, LogInvStep DEF StoreInv, LogInv
    <2>5. TypeOK'
      BY <2>3, <2>4, ClientsAssumption DEF StoreInv, TypeOK
    <2>6. QED
      BY <2>1, <2>3, <2>5, StoreInvKept
  <1>3. QED
    BY <1>1, <1>2

\* The tables and every running call are well formed, and exactly the process
\* that is inside a transaction holds the lock.
THEOREM StoreWellFormed == Spec => []TypeOK
  <1>1. StoreInv => TypeOK
    BY DEF StoreInv
  <1>2. QED
    BY <1>1, StoreInvInit, StoreInvStep, PTL DEF Spec, SafetySpec

\* Whatever the processes interleave, the store behaves as if every operation
\* took effect at once.
THEOREM StoreImplementsLog == Spec => LogSpec
  <1>1. Init => LogInit
    BY DEF Init
  <1>2. QED
    BY <1>1, StoreInvInit, StoreInvStep, PTL DEF Spec, SafetySpec, LogSpec

\* So no publication of any process loses a commit of another,
THEOREM StoreKeepsUpdates == Spec => []NoLostUpdate
  BY StoreImplementsLog, LogKeepsUpdates, PTL

\* the ancestry and the heads stay inside their project,
THEOREM StoreProjectClosed == Spec => []ProjectClosed
  BY StoreImplementsLog, LogWellFormed, PTL

\* texts come from a revision's own history,
THEOREM StoreKeepsProvenance == Spec => []SnapshotProvenance
  BY StoreImplementsLog, LogKeepsProvenance, PTL

\* and context is inherited, without orphan documents.
THEOREM StoreContextSound == Spec => []ContextSound
  BY StoreImplementsLog, LogContextSound, PTL

------------------------------------------------------------------------------
(* BoundedProcess: a child that is waited for *)

CallerStates ==
  {"off", "start", "collect", "read", "drain", "drain_read", "wait", "wait_killed"} \cup Finished

ProcessTypes ==
  /\ kind \in Kinds /\ pc \in CallerStates
  /\ started \in SUBSET Processes /\ alive \in SUBSET Processes
  /\ group \in SUBSET Processes /\ killed \in SUBSET Processes
  /\ holds \in [Streams -> SUBSET Processes]
  /\ piped \in [Streams -> Nat] /\ written \in Nat /\ captured \in Nat
  /\ registered \in SUBSET Streams /\ ready \in SUBSET Streams
  /\ deadlines \in SUBSET {"run", "drain"} /\ flags \in SUBSET Flags

\* What was written is captured or still in a pipe, unless a limit has cut it.
Conserved ==
  /\ captured <= OutputLimit
  /\ captured + piped["stdout"] + piped["stderr"] <= written
  /\ flags = {} => captured + piped["stdout"] + piped["stderr"] = written

\* A stream that is no longer watched is at its end.
AtEnd ==
  /\ pc = "start" => registered = Streams
  /\ \A s \in Streams \ registered : piped[s] = 0 /\ holds[s] = {}
  /\ flags = {} /\ pc \in {"wait", "wait_killed", "done"} => registered = {}

\* A collection has one reason to stop early, and a true one.
StoppedFor ==
  /\ pc \in {"start", "collect", "read"} => flags = {}
  /\ pc \in {"drain", "drain_read"} => flags = {"timed_out"}
  /\ flags # Flags
  /\ "timed_out" \in flags => "run" \in deadlines
  /\ "output_limited" \in flags => written > OutputLimit

\* Nobody is left behind but what has left the group.
Reaped ==
  pc = "done" =>
    /\ "leader" \notin alive
    /\ \A p \in alive : MustDie(p) \/ (kind = "compiler" /\ p \notin group)

ProcessInv == ProcessTypes /\ Conserved /\ AtEnd /\ StoppedFor /\ Reaped

------------------------------------------------------------------------------
LEMMA ProcessInvInit == ProcessInit("start") => ProcessInv
  BY ProcessAssumption DEF ProcessInit, ProcessInv, ProcessTypes, Conserved, AtEnd, StoppedFor,
     Reaped, CallerStates, Finished, Kinds, Processes, Streams, Flags

\* Step by step, and part by part.
LEMMA ProcessInvNext == ProcessInv /\ [ProcessNext]_processVars => ProcessInv'
<1> SUFFICES ASSUME ProcessInv, [ProcessNext]_processVars PROVE ProcessInv'
  OBVIOUS
<1> USE ProcessAssumption
<1> USE DEF ProcessInv, Kinds, Processes, Streams, Flags, Finished, CallerStates, system, caller
<1>1. CASE Launch
  <2>1. ProcessTypes'
    <3>1. CASE pc' = "failed"
      BY <1>1, <3>1 DEF Launch, ProcessTypes
    <3>2. CASE pc' = "collect"
      <4>1. holds' \in [Streams -> SUBSET Processes]
        BY <1>1, <3>2 DEF Launch
      <4> QED
        BY <1>1, <3>2, <4>1 DEF Launch, ProcessTypes
    <3> QED
      BY <1>1, <3>1, <3>2 DEF Launch
  <2>2. Conserved'
    BY <1>1 DEF Launch, Conserved, ProcessTypes, StoppedFor
  <2>3. AtEnd'
    BY <1>1 DEF Launch, AtEnd, ProcessTypes, StoppedFor
  <2>4. StoppedFor'
    BY <1>1 DEF Launch, StoppedFor, ProcessTypes, Conserved
  <2>5. Reaped'
    BY <1>1 DEF Launch, Reaped, ProcessTypes, MustDie
  <2> QED
    BY <2>1, <2>2, <2>3, <2>4, <2>5
<1>2. CASE EndCollection
  <2>1. ProcessTypes'
    BY <1>2 DEF EndCollection, ProcessTypes, Collecting
  <2>2. Conserved'
    BY <1>2 DEF EndCollection, Conserved, ProcessTypes, StoppedFor, Collecting
  <2>3. AtEnd'
    BY <1>2 DEF EndCollection, AtEnd, ProcessTypes, StoppedFor, Collecting
  <2>4. StoppedFor'
    BY <1>2 DEF EndCollection, StoppedFor, ProcessTypes, Conserved, Collecting
  <2>5. Reaped'
    BY <1>2 DEF EndCollection, Reaped, ProcessTypes, MustDie, Collecting
  <2> QED
    BY <2>1, <2>2, <2>3, <2>4, <2>5
<1>3. CASE TimeOut
  <2>1. ProcessTypes'
    BY <1>3 DEF TimeOut, ProcessTypes, Collecting, KilledGroup
  <2>2. Conserved'
    BY <1>3 DEF TimeOut, Conserved, ProcessTypes, StoppedFor, Collecting, KilledGroup
  <2>3. AtEnd'
    BY <1>3 DEF TimeOut, AtEnd, ProcessTypes, StoppedFor, Collecting, KilledGroup
  <2>4. StoppedFor'
    BY <1>3 DEF TimeOut, StoppedFor, ProcessTypes, Conserved, Collecting, KilledGroup
  <2>5. Reaped'
    BY <1>3 DEF TimeOut, Reaped, ProcessTypes, MustDie, Collecting, KilledGroup
  <2> QED
    BY <2>1, <2>2, <2>3, <2>4, <2>5
<1>4. CASE Select
  <2>1. ProcessTypes'
    BY <1>4 DEF Select, ProcessTypes, Events
  <2>2. Conserved'
    BY <1>4 DEF Select, Conserved, ProcessTypes, StoppedFor, Events
  <2>3. AtEnd'
    BY <1>4 DEF Select, AtEnd, ProcessTypes, StoppedFor, Events
  <2>4. StoppedFor'
    BY <1>4 DEF Select, StoppedFor, ProcessTypes, Conserved, Events
  <2>5. Reaped'
    BY <1>4 DEF Select, Reaped, ProcessTypes, MustDie, Events
  <2> QED
    BY <2>1, <2>2, <2>3, <2>4, <2>5
<1>5. CASE EndEvents
  <2>1. ProcessTypes'
    BY <1>5 DEF EndEvents, ProcessTypes
  <2>2. Conserved'
    BY <1>5 DEF EndEvents, Conserved, ProcessTypes, StoppedFor
  <2>3. AtEnd'
    BY <1>5 DEF EndEvents, AtEnd, ProcessTypes, StoppedFor
  <2>4. StoppedFor'
    BY <1>5 DEF EndEvents, StoppedFor, ProcessTypes, Conserved
  <2>5. Reaped'
    BY <1>5 DEF EndEvents, Reaped, ProcessTypes, MustDie
  <2> QED
    BY <2>1, <2>2, <2>3, <2>4, <2>5
<1>6. CASE EndDrain
  <2>1. ProcessTypes'
    BY <1>6 DEF EndDrain, ProcessTypes
  <2>2. Conserved'
    BY <1>6 DEF EndDrain, Conserved, ProcessTypes, StoppedFor
  <2>3. AtEnd'
    BY <1>6 DEF EndDrain, AtEnd, ProcessTypes, StoppedFor
  <2>4. StoppedFor'
    BY <1>6 DEF EndDrain, StoppedFor, ProcessTypes, Conserved
  <2>5. Reaped'
    BY <1>6 DEF EndDrain, Reaped, ProcessTypes, MustDie
  <2> QED
    BY <2>1, <2>2, <2>3, <2>4, <2>5
<1>7. CASE SelectDrain
  <2>1. ProcessTypes'
    BY <1>7 DEF SelectDrain, ProcessTypes, Events
  <2>2. Conserved'
    BY <1>7 DEF SelectDrain, Conserved, ProcessTypes, StoppedFor, Events
  <2>3. AtEnd'
    BY <1>7 DEF SelectDrain, AtEnd, ProcessTypes, StoppedFor, Events
  <2>4. StoppedFor'
    BY <1>7 DEF SelectDrain, StoppedFor, ProcessTypes, Conserved, Events
  <2>5. Reaped'
    BY <1>7 DEF SelectDrain, Reaped, ProcessTypes, MustDie, Events
  <2> QED
    BY <2>1, <2>2, <2>3, <2>4, <2>5
<1>8. CASE WaitTimesOut
  <2>1. ProcessTypes'
    BY <1>8 DEF WaitTimesOut, ProcessTypes, KilledGroup
  <2>2. Conserved'
    BY <1>8 DEF WaitTimesOut, Conserved, ProcessTypes, StoppedFor, KilledGroup
  <2>3. AtEnd'
    BY <1>8 DEF WaitTimesOut, AtEnd, ProcessTypes, StoppedFor, KilledGroup
  <2>4. StoppedFor'
    BY <1>8 DEF WaitTimesOut, StoppedFor, ProcessTypes, Conserved, KilledGroup
  <2>5. Reaped'
    BY <1>8 DEF WaitTimesOut, Reaped, ProcessTypes, MustDie, KilledGroup
  <2> QED
    BY <2>1, <2>2, <2>3, <2>4, <2>5
<1>9. CASE Reap
  <2>1. ProcessTypes'
    BY <1>9 DEF Reap, ProcessTypes, KilledGroup
  <2>2. Conserved'
    BY <1>9 DEF Reap, Conserved, ProcessTypes, StoppedFor, KilledGroup
  <2>3. AtEnd'
    BY <1>9 DEF Reap, AtEnd, ProcessTypes, StoppedFor, KilledGroup
  <2>4. StoppedFor'
    BY <1>9 DEF Reap, StoppedFor, ProcessTypes, Conserved, KilledGroup
  <2>5. Reaped'
    BY <1>9 DEF Reap, Reaped, ProcessTypes, MustDie, KilledGroup
  <2> QED
    BY <2>1, <2>2, <2>3, <2>4, <2>5
<1>10. CASE Fork
  <2>1. ProcessTypes'
    BY <1>10 DEF Fork, ProcessTypes, Inside, Running
  <2>2. Conserved'
    BY <1>10 DEF Fork, Conserved, ProcessTypes, StoppedFor, Inside, Running
  <2>3. AtEnd'
    BY <1>10 DEF Fork, AtEnd, ProcessTypes, StoppedFor, Inside, Running
  <2>4. StoppedFor'
    BY <1>10 DEF Fork, StoppedFor, ProcessTypes, Conserved, Inside, Running
  <2>5. Reaped'
    BY <1>10 DEF Fork, Reaped, ProcessTypes, MustDie, Inside, Running
  <2> QED
    BY <2>1, <2>2, <2>3, <2>4, <2>5
<1>11. CASE LeaveGroup
  <2>1. ProcessTypes'
    BY <1>11 DEF LeaveGroup, ProcessTypes, Inside, Running
  <2>2. Conserved'
    BY <1>11 DEF LeaveGroup, Conserved, ProcessTypes, StoppedFor, Inside, Running
  <2>3. AtEnd'
    BY <1>11 DEF LeaveGroup, AtEnd, ProcessTypes, StoppedFor, Inside, Running
  <2>4. StoppedFor'
    BY <1>11 DEF LeaveGroup, StoppedFor, ProcessTypes, Conserved, Inside, Running
  <2>5. Reaped'
    BY <1>11 DEF LeaveGroup, Reaped, ProcessTypes, MustDie, Inside, Running
  <2> QED
    BY <2>1, <2>2, <2>3, <2>4, <2>5
<1>12. ASSUME NEW p \in Processes, NEW s \in Streams, Write(p, s) PROVE ProcessInv'
  <2>1. ProcessTypes'
    BY <1>12 DEF Write, ProcessTypes, Inside, Running
  <2>2. Conserved'
    BY <1>12 DEF Write, Conserved, ProcessTypes, StoppedFor, Inside, Running
  <2>3. AtEnd'
    BY <1>12 DEF Write, AtEnd, ProcessTypes, StoppedFor, Inside, Running
  <2>4. StoppedFor'
    BY <1>12 DEF Write, StoppedFor, ProcessTypes, Conserved, Inside, Running
  <2>5. Reaped'
    BY <1>12 DEF Write, Reaped, ProcessTypes, MustDie, Inside, Running
  <2> QED
    BY <2>1, <2>2, <2>3, <2>4, <2>5
<1>13. ASSUME NEW p \in Processes, NEW s \in Streams, CloseStream(p, s) PROVE ProcessInv'
  <2>1. ProcessTypes'
    BY <1>13 DEF CloseStream, ProcessTypes, Inside, Running
  <2>2. Conserved'
    BY <1>13 DEF CloseStream, Conserved, ProcessTypes, StoppedFor, Inside, Running
  <2>3. AtEnd'
    BY <1>13 DEF CloseStream, AtEnd, ProcessTypes, StoppedFor, Inside, Running
  <2>4. StoppedFor'
    BY <1>13 DEF CloseStream, StoppedFor, ProcessTypes, Conserved, Inside, Running
  <2>5. Reaped'
    BY <1>13 DEF CloseStream, Reaped, ProcessTypes, MustDie, Inside, Running
  <2> QED
    BY <2>1, <2>2, <2>3, <2>4, <2>5
<1>14. ASSUME NEW p \in Processes, Die(p) PROVE ProcessInv'
  <2>1. ProcessTypes'
    BY <1>14 DEF Die, ProcessTypes
  <2>2. Conserved'
    BY <1>14 DEF Die, Conserved, ProcessTypes, StoppedFor
  <2>3. AtEnd'
    BY <1>14 DEF Die, AtEnd, ProcessTypes, StoppedFor
  <2>4. StoppedFor'
    BY <1>14 DEF Die, StoppedFor, ProcessTypes, Conserved
  <2>5. Reaped'
    BY <1>14 DEF Die, Reaped, ProcessTypes, MustDie
  <2> QED
    BY <2>1, <2>2, <2>3, <2>4, <2>5
<1>15. ASSUME NEW d \in {"run", "drain"}, Elapse(d) PROVE ProcessInv'
  <2>1. ProcessTypes'
    BY <1>15 DEF Elapse, ProcessTypes
  <2>2. Conserved'
    BY <1>15 DEF Elapse, Conserved, ProcessTypes, StoppedFor
  <2>3. AtEnd'
    BY <1>15 DEF Elapse, AtEnd, ProcessTypes, StoppedFor
  <2>4. StoppedFor'
    BY <1>15 DEF Elapse, StoppedFor, ProcessTypes, Conserved
  <2>5. Reaped'
    BY <1>15 DEF Elapse, Reaped, ProcessTypes, MustDie
  <2> QED
    BY <2>1, <2>2, <2>3, <2>4, <2>5
<1>16. ASSUME NEW s \in Streams, Read(s) PROVE ProcessInv'
  <2>0. /\ pc \in {"read", "drain_read"}
        /\ s \in ready
        /\ ready' = ready \ {s}
        /\ UNCHANGED <<kind, started, alive, group, holds, written, deadlines>>
    BY <1>16 DEF Read
  <2>1. CASE /\ piped[s] = 0
             /\ registered' = IF holds[s] = {} THEN registered \ {s} ELSE registered
             /\ UNCHANGED <<pc, killed, piped, captured, flags>>
    <3>1. ProcessTypes'
      BY <2>0, <2>1 DEF ProcessTypes, Conserved, AtEnd, StoppedFor
    <3>2. Conserved'
      BY <2>0, <2>1 DEF Conserved, ProcessTypes, AtEnd, StoppedFor
    <3>3. AtEnd'
      BY <2>0, <2>1 DEF AtEnd, ProcessTypes, Conserved, StoppedFor
    <3>4. StoppedFor'
      BY <2>0, <2>1 DEF StoppedFor, ProcessTypes, Conserved, AtEnd
    <3>5. Reaped'
      BY <2>0, <2>1 DEF Reaped, ProcessTypes, Conserved, AtEnd, StoppedFor
    <3> QED
      BY <3>1, <3>2, <3>3, <3>4, <3>5
  <2>2. ASSUME NEW n \in 1..piped[s],
               piped' = [piped EXCEPT ![s] = @ - n],
               UNCHANGED registered,
               captured + n <= OutputLimit,
               captured' = captured + n,
               UNCHANGED <<pc, killed, flags>>
        PROVE  ProcessInv'
    <3>0. /\ n \in Nat \ {0} /\ piped[s] \in Nat /\ n <= piped[s]
          /\ captured \in Nat /\ s \in registered
          /\ piped' \in [Streams -> Nat]
      BY <2>2 DEF ProcessTypes, AtEnd
    <3>1. ProcessTypes'
      BY <2>0, <2>2, <3>0 DEF ProcessTypes, Conserved, AtEnd, StoppedFor
    <3>2. Conserved'
      BY <2>0, <2>2, <3>0 DEF Conserved, ProcessTypes, AtEnd, StoppedFor
    <3>3. AtEnd'
      BY <2>0, <2>2, <3>0 DEF AtEnd, ProcessTypes, Conserved, StoppedFor
    <3>4. StoppedFor'
      BY <2>0, <2>2, <3>0 DEF StoppedFor, ProcessTypes, Conserved, AtEnd
    <3>5. Reaped'
      BY <2>0, <2>2, <3>0 DEF Reaped, ProcessTypes, Conserved, AtEnd, StoppedFor
    <3> QED
      BY <3>1, <3>2, <3>3, <3>4, <3>5
  <2>3. ASSUME NEW n \in 1..piped[s],
               piped' = [piped EXCEPT ![s] = @ - n],
               UNCHANGED registered,
               captured + n > OutputLimit,
               captured' = OutputLimit,
               pc' = "wait",
               IF pc = "read"
               THEN flags' = flags \cup {"output_limited"} /\ killed' = KilledGroup
               ELSE UNCHANGED <<killed, flags>>
        PROVE  ProcessInv'
    <3>0. /\ n \in Nat \ {0} /\ piped[s] \in Nat /\ n <= piped[s]
          /\ captured \in Nat /\ s \in registered
          /\ piped' \in [Streams -> Nat]
      BY <2>3 DEF ProcessTypes, AtEnd
    <3>1. ProcessTypes'
      BY <2>0, <2>3, <3>0 DEF ProcessTypes, Conserved, AtEnd, StoppedFor, KilledGroup
    <3>2. Conserved'
      <4>1. captured' <= OutputLimit /\ OutputLimit \in Nat /\ captured' < captured + n
        BY <2>0, <2>3, <3>0 DEF ProcessTypes
      <4>2. piped'["stdout"] + piped'["stderr"] + n = piped["stdout"] + piped["stderr"]
        BY <2>0, <2>3, <3>0 DEF ProcessTypes, Streams
      <4>3. /\ piped["stdout"] \in Nat /\ piped["stderr"] \in Nat
            /\ piped'["stdout"] \in Nat /\ piped'["stderr"] \in Nat
        BY <2>0, <3>0 DEF ProcessTypes, Streams
      <4>4. written' = written /\ written \in Nat /\ captured' \in Nat
        BY <2>0, <2>3, <3>0, <4>1 DEF ProcessTypes
      <4>5. captured + piped["stdout"] + piped["stderr"] <= written
        BY <2>0 DEF Conserved
      <4>6. captured' + piped'["stdout"] + piped'["stderr"] <= written'
        BY <3>0, <4>1, <4>2, <4>3, <4>4, <4>5
      <4>7. flags' # {}
        BY <2>0, <2>3 DEF StoppedFor
      <4> QED
        BY <4>1, <4>6, <4>7 DEF Conserved
    <3>3. AtEnd'
      BY <2>0, <2>3, <3>0 DEF AtEnd, ProcessTypes, Conserved, StoppedFor, KilledGroup
    <3>4. StoppedFor'
      BY <2>0, <2>3, <3>0 DEF StoppedFor, ProcessTypes, Conserved, AtEnd, KilledGroup
    <3>5. Reaped'
      BY <2>0, <2>3, <3>0 DEF Reaped, ProcessTypes, Conserved, AtEnd, StoppedFor, KilledGroup
    <3> QED
      BY <3>1, <3>2, <3>3, <3>4, <3>5
  <2>4. ASSUME NEW n \in 1..piped[s],
               piped' = [piped EXCEPT ![s] = @ - n],
               captured' = IF captured + n > OutputLimit THEN OutputLimit ELSE captured + n,
               IF captured + n <= OutputLimit
               THEN UNCHANGED <<pc, killed, flags>>
               ELSE /\ pc' = "wait"
                    /\ IF pc = "read"
                       THEN flags' = flags \cup {"output_limited"} /\ killed' = KilledGroup
                       ELSE UNCHANGED <<killed, flags>>,
               UNCHANGED registered
        PROVE  ProcessInv'
    <3>0. captured + n \in Nat /\ OutputLimit \in Nat
      BY DEF ProcessTypes
    <3>1. CASE captured + n <= OutputLimit
      <4>1. captured' = captured + n
        BY <2>4, <3>0, <3>1
      <4> QED
        BY <2>2, <2>4, <3>1, <4>1
    <3>2. CASE captured + n > OutputLimit
      <4>1. captured' = OutputLimit /\ ~(captured + n <= OutputLimit)
        BY <2>4, <3>0, <3>2
      <4> QED
        BY <2>3, <2>4, <3>2, <4>1
    <3> QED
      BY <3>0, <3>1, <3>2
  <2> QED
    BY <1>16, <2>1, <2>4 DEF Read
<1>17. CASE UNCHANGED processVars
  BY <1>17 DEF processVars, ProcessTypes, Conserved, AtEnd, StoppedFor, Reaped, MustDie
<1> QED
  BY <1>1, <1>2, <1>3, <1>4, <1>5, <1>6, <1>7, <1>8, <1>9, <1>10, <1>11, <1>12, <1>13, <1>14,
     <1>15, <1>16, <1>17 DEF ProcessNext, Call

\* What is reported of a child process is what happened, for any limits, whatever
\* the processes do with their pipes and whenever the deadlines pass.
THEOREM ChildCallsEndClean == ProcessSpec => []CallsEndClean
<1>1. ProcessInv => CallsEndClean
  BY DEF ProcessInv, ProcessTypes, Conserved, AtEnd, StoppedFor, Reaped, CallsEndClean, Streams
<1> QED
  BY <1>1, ProcessInvInit, ProcessInvNext, PTL DEF ProcessSpec

------------------------------------------------------------------------------
(* CompilerContract: a compiler that is called *)

Binaries == Compilers \cup {NoCompiler}

Registries == [hash : Binaries, of : Binaries]

CallKinds == {"none", "startup", "grammar", "validate", "merge", "build", "evidence"}

CallStates ==
  {"idle", "identify", "handshake", "loaded", "frontend", "hash", "key", "compile"}

CallRecords ==
  [kind : CallKinds, pc : CallStates, reader : Readers, target : Targets \cup {"native"},
   profile : Profiles, at : Places, hash : Binaries, registry : Registries,
   compiler : Binaries]

\* Only the bridge builds; everything else asks the workspace's registry.
InPlace(c) ==
  /\ c \in CallRecords
  /\ c.kind = "none" <=> c.pc = "idle"
  /\ c.kind # "build" => c.reader = "workspace"
  /\ c.kind \notin {"build", "evidence"} => c.target = "native"
  /\ c.pc = "frontend" => c.kind \in {"validate", "merge"}
  /\ c.pc \in {"hash", "key", "compile"} => c.kind = "build"
  /\ c.kind = "build" /\ c.pc \in {"identify", "handshake", "loaded"} => c.reader = "bridge"

ContractTypes ==
  /\ installed \in [Places -> Binaries]
  /\ cache \in [Readers -> Registries]
  /\ disturbed \in BOOLEAN

\* The registry that a compiler has printed itself.
OwnRegistry(c) == [hash |-> c, of |-> c]

RegistriesOwn ==
  \A r \in Readers :
     /\ cache[r].hash = cache[r].of
     /\ cache[r].of # NoCompiler => Validates(Advertised[cache[r].of])

\* What a call goes by is of the compiler that is there.
GoesBy(c, place) ==
  /\ installed[place] # NoCompiler
  /\ c.registry = OwnRegistry(installed[place])
  /\ Validates(Advertised[installed[place]])

BuildAdmitted(c) ==
  GoesBy(c, "configured") /\ Admits(installed["configured"], c.target)

\* Whatever a call has looked at is still so.
StillSo(c) ==
  /\ c.pc = "handshake" =>
       c.at = PlaceOf(c.reader) /\ c.hash = installed[c.at]
  /\ c.pc = "loaded" =>
       /\ cache[c.reader].hash = installed[PlaceOf(c.reader)]
       /\ cache[c.reader].hash # NoCompiler
  /\ c.kind = "merge" => c.compiler = installed["configured"]
  /\ c.pc = "frontend" =>
       /\ GoesBy(c, PlaceOf("workspace"))
       /\ c.kind = "validate" => c.compiler = installed[PlaceOf("workspace")]
  /\ c.pc = "hash" => BuildAdmitted(c)
  /\ c.pc \in {"key", "compile"} \/ c.kind = "evidence" =>
       BuildAdmitted(c) /\ c.compiler = installed["configured"]

Held(a) ==
  a.kind \in {"build", "validate", "merge"} /\ a.ran # NoCompiler =>
    /\ a.registry = OwnRegistry(a.ran)
    /\ a.compiler = a.ran
    /\ Validates(Advertised[a.ran])
    /\ Admits(a.ran, a.target)

\* Every stored build was made by the compiler it is stored under.
StoredOwn == \A id \in DOMAIN stored : stored[id] = id[1]

ContractInv ==
  /\ ContractTypes
  /\ InPlace(call)
  /\ ~disturbed => RegistriesOwn /\ StoredOwn /\ StillSo(call) /\ Held(answer)

------------------------------------------------------------------------------
LEMMA IdleSound == InPlace(NoCall) /\ StillSo(NoCall)
  BY DEF InPlace, StillSo, NoCall, NewCall, CallRecords, CallKinds, CallStates, NoRegistry,
     Registries, Binaries, Readers, Profiles, Places

LEMMA StartupSound == InPlace(Startup) /\ StillSo(Startup)
  BY DEF InPlace, StillSo, Startup, NewCall, CallRecords, CallKinds, CallStates, NoRegistry,
     Registries, Binaries, Readers, Profiles, Places

LEMMA NoAnswerHeld == Held(NoAnswer)
  BY DEF Held, NoAnswer

LEMMA ContractInvInit == ContractInit => ContractInv
<1> SUFFICES ASSUME ContractInit PROVE ContractInv
  OBVIOUS
<1>1. NoRegistry \in Registries
  BY DEF NoRegistry, Registries, Binaries
<1>2. ContractTypes
  BY <1>1 DEF ContractInit, ContractTypes, Binaries
<1>3. RegistriesOwn
  BY DEF ContractInit, RegistriesOwn, NoRegistry
<1>4. StoredOwn
  BY DEF ContractInit, StoredOwn
<1> QED
  BY <1>2, <1>3, <1>4, StartupSound, NoAnswerHeld DEF ContractInit, ContractInv

\* A step of a call that changes nothing else.
LEMMA StepsKeep ==
  ASSUME ContractInv, NEW c, Steps(c), InPlace(c), ~disturbed => StillSo(c)
  PROVE  ContractInv'
<1>1. UNCHANGED <<installed, cache, answer, stored, disturbed>> /\ call' = c
  BY DEF Steps
<1>2. ContractTypes' /\ (~disturbed => RegistriesOwn' /\ StoredOwn' /\ Held(answer)')
  BY <1>1 DEF ContractInv, ContractTypes, RegistriesOwn, StoredOwn
<1>3. InPlace(call)'
  BY <1>1 DEF InPlace
<1>4. ~disturbed => StillSo(call)'
  BY <1>1 DEF StillSo, PlaceOf, BinaryAt, GoesBy, BuildAdmitted
<1> QED
  BY <1>1, <1>2, <1>3, <1>4 DEF ContractInv

\* The end of a call, which may have stored a build.
LEMMA ReturnsKeep ==
  ASSUME ContractInv, call' = NoCall, UNCHANGED <<installed, cache, disturbed>>,
         ~disturbed => StoredOwn' /\ Held(answer')
  PROVE  ContractInv'
<1>1. ContractTypes' /\ (~disturbed => RegistriesOwn')
  BY DEF ContractInv, ContractTypes, RegistriesOwn
<1>2. InPlace(call)'
  BY IdleSound DEF InPlace
<1>3. StillSo(call)'
  BY DEF StillSo, NoCall, NewCall
<1> QED
  BY <1>1, <1>2, <1>3 DEF ContractInv

LEMMA FailsKeep == ContractInv /\ Fails => ContractInv'
<1> SUFFICES ASSUME ContractInv, Fails PROVE ContractInv'
  OBVIOUS
<1>1. ~disturbed => StoredOwn' /\ Held(answer')
  BY NoAnswerHeld DEF ContractInv, Fails, Returns, StoredOwn
<1> QED
  BY <1>1, ReturnsKeep DEF Fails, Returns

\* The beginning of one.
LEMMA BeginsKeep ==
  ASSUME ContractInv, NEW c, BeginCall(c), InPlace(c), ~disturbed => StillSo(c)
  PROVE  ContractInv'
<1>1. UNCHANGED <<installed, cache, stored, disturbed>> /\ call' = c /\ answer' = NoAnswer
  BY DEF BeginCall
<1>2. ContractTypes' /\ (~disturbed => RegistriesOwn' /\ StoredOwn')
  BY <1>1 DEF ContractInv, ContractTypes, RegistriesOwn, StoredOwn
<1>3. InPlace(call)'
  BY <1>1 DEF InPlace
<1>4. ~disturbed => StillSo(call)'
  BY <1>1 DEF StillSo, PlaceOf, BinaryAt, GoesBy, BuildAdmitted
<1> QED
  BY <1>1, <1>2, <1>3, <1>4, NoAnswerHeld DEF ContractInv

\* What a call that has loaded its registry goes by.
LEMMA LoadedOwn ==
  ASSUME ContractInv, call.pc = "loaded"
  PROVE  /\ Loaded \in Registries
         /\ ~disturbed =>
              LET c == installed[PlaceOf(call.reader)]
              IN  c # NoCompiler /\ Loaded = OwnRegistry(c) /\ Validates(Advertised[c])
<1>1. call.reader \in Readers
  BY DEF ContractInv, InPlace, CallRecords
<1>2. Loaded \in Registries
  BY <1>1 DEF ContractInv, ContractTypes, Loaded
<1>3. ASSUME ~disturbed
      PROVE  LET c == installed[PlaceOf(call.reader)]
             IN  c # NoCompiler /\ Loaded = OwnRegistry(c) /\ Validates(Advertised[c])
  <2>1. Loaded.hash = Loaded.of /\ (Loaded.of # NoCompiler => Validates(Advertised[Loaded.of]))
    BY <1>1, <1>3 DEF ContractInv, RegistriesOwn, Loaded
  <2>2. Loaded.hash = installed[PlaceOf(call.reader)] /\ Loaded.hash # NoCompiler
    BY <1>3 DEF ContractInv, StillSo, Loaded
  <2>3. Loaded = [hash |-> Loaded.hash, of |-> Loaded.of]
    BY <1>2 DEF Registries
  <2> QED
    BY <2>1, <2>2, <2>3 DEF OwnRegistry
<1> QED
  BY <1>2, <1>3

LEMMA IdentifyKeeps == ContractInv /\ Identify => ContractInv'
<1> SUFFICES ASSUME ContractInv, Identify PROVE ContractInv'
  OBVIOUS
<1> DEFINE place == PlaceOf(call.reader)
           compiler == installed[place]
           known == [call EXCEPT !.pc = "loaded"]
           asked == [call EXCEPT !.pc = "handshake", !.at = place, !.hash = compiler]
<1>0. call \in CallRecords /\ InPlace(call) /\ call.pc = "identify"
  BY DEF ContractInv, InPlace, Identify
<1>1. place \in Places /\ compiler \in Binaries
  BY DEF ContractInv, ContractTypes, PlaceOf, Places
<1>2. CASE compiler = NoCompiler
  BY <1>2, FailsKeep DEF Identify, BinaryAt
<1>3. CASE compiler # NoCompiler /\ cache[call.reader].hash = compiler
  <2>1. Steps(known)
    BY <1>3 DEF Identify, BinaryAt
  <2>2. InPlace(known)
    BY <1>0 DEF InPlace, CallRecords, CallStates
  <2>3. ~disturbed => StillSo(known)
    BY <1>0, <1>3 DEF ContractInv, StillSo, CallRecords, GoesBy, BuildAdmitted
  <2> QED
    BY <2>1, <2>2, <2>3, StepsKeep
<1>4. CASE compiler # NoCompiler /\ cache[call.reader].hash # compiler
  <2>1. Steps(asked)
    BY <1>4 DEF Identify, BinaryAt
  <2>2. InPlace(asked)
    BY <1>0, <1>1 DEF InPlace, CallRecords, CallStates
  <2>3. ~disturbed => StillSo(asked)
    BY <1>0, <1>4 DEF ContractInv, StillSo, CallRecords, GoesBy, BuildAdmitted
  <2> QED
    BY <2>1, <2>2, <2>3, StepsKeep
<1> QED
  BY <1>2, <1>3, <1>4

LEMMA HandshakeKeeps == ContractInv /\ Handshake => ContractInv'
<1> SUFFICES ASSUME ContractInv, Handshake PROVE ContractInv'
  OBVIOUS
<1> DEFINE compiler == installed[call.at]
           entry == [hash |-> call.hash, of |-> compiler]
<1>0. call \in CallRecords /\ InPlace(call) /\ call.pc = "handshake"
  BY DEF ContractInv, InPlace, Handshake
<1>1. CASE Fails
  BY <1>1, FailsKeep
<1>2. CASE /\ compiler # NoCompiler
           /\ Validates(Advertised[compiler])
           /\ cache' = [cache EXCEPT ![call.reader] = entry]
           /\ call' = [call EXCEPT !.pc = "loaded"]
           /\ UNCHANGED <<installed, grammar, answer, stored, disturbed, replaced>>
  <2>1. entry \in Registries /\ call.reader \in Readers
    BY <1>0 DEF ContractInv, ContractTypes, CallRecords, Registries
  <2>2. ContractTypes' /\ (~disturbed => StoredOwn' /\ Held(answer)')
    BY <1>2, <2>1 DEF ContractInv, ContractTypes, StoredOwn
  <2>3. InPlace(call')
    BY <1>0, <1>2 DEF InPlace, CallRecords, CallStates
  <2>4. ASSUME ~disturbed PROVE RegistriesOwn' /\ StillSo(call)'
    <3>1. call.at = PlaceOf(call.reader) /\ call.hash = compiler
      BY <1>0, <2>4 DEF ContractInv, StillSo
    <3>2. RegistriesOwn'
      BY <1>2, <2>1, <2>4, <3>1 DEF ContractInv, ContractTypes, RegistriesOwn
    <3>3. StillSo(call)'
      BY <1>0, <1>2, <2>1, <2>4, <3>1
      DEF ContractInv, ContractTypes, StillSo, CallRecords, GoesBy, BuildAdmitted, PlaceOf,
         BinaryAt
    <3> QED
      BY <3>2, <3>3
  <2> QED
    BY <1>2, <2>2, <2>3, <2>4 DEF ContractInv, InPlace
<1> QED
  BY <1>1, <1>2 DEF Handshake, BinaryAt

LEMMA HelpKeeps == ContractInv /\ (NameRegistry \/ HelpWithGrammar) => ContractInv'
<1> SUFFICES ASSUME ContractInv, NameRegistry \/ HelpWithGrammar PROVE ContractInv'
  OBVIOUS
<1> DEFINE begun == NewCall("grammar", "identify", "workspace", "native", "none")
<1>1. CASE NameRegistry
  <2>1. UNCHANGED <<stored, answer>>
    BY <1>1 DEF NameRegistry
  <2> QED
    BY <1>1, <2>1, ReturnsKeep DEF NameRegistry, ContractInv, StoredOwn
<1>2. CASE BeginCall(begun)
  <2>1. InPlace(begun) /\ StillSo(begun)
    BY DEF InPlace, StillSo, NewCall, CallRecords, CallKinds, CallStates, NoRegistry, Registries,
       Binaries, Readers, Profiles, Places
  <2> QED
    BY <1>2, <2>1, BeginsKeep
<1>3. CASE LoadedFor({"grammar"}) /\ Returns(Says(Loaded, Loaded.hash, NoCompiler, TRUE))
  <2>1. answer'.kind = "grammar" /\ UNCHANGED stored
    BY <1>3 DEF LoadedFor, Returns, Says
  <2>2. ~disturbed => StoredOwn' /\ Held(answer')
    BY <2>1 DEF ContractInv, StoredOwn, Held
  <2> QED
    BY <1>3, <2>2, ReturnsKeep DEF Returns
<1> QED
  BY <1>1, <1>2, <1>3 DEF HelpWithGrammar

LEMMA ValidationKeeps ==
  ASSUME ContractInv, (\E what \in {"validate", "merge"} : StartValidation(what)) \/ AdmitFrontend
  PROVE  ContractInv'
<1>1. ASSUME NEW what \in {"validate", "merge"}, StartValidation(what) PROVE ContractInv'
  <2> DEFINE begun == [NewCall(what, "identify", "workspace", "native", "none") EXCEPT
                         !.compiler = IF what = "merge" THEN BinaryAt("configured") ELSE NoCompiler]
  <2>1. BinaryAt("configured") \in Binaries
    BY DEF ContractInv, ContractTypes, BinaryAt, Places
  <2>2. InPlace(begun)
    BY <2>1 DEF InPlace, NewCall, CallRecords, CallKinds, CallStates, NoRegistry, Registries,
       Binaries, Readers, Profiles, Places
  <2>3. StillSo(begun)
    BY DEF StillSo, NewCall, BinaryAt
  <2> QED
    BY <1>1, <2>2, <2>3, BeginsKeep DEF StartValidation
<1>2. CASE AdmitFrontend
  <2> DEFINE next == [call EXCEPT !.pc = "frontend", !.registry = Loaded,
                                  !.compiler = IF call.kind = "merge" THEN @ ELSE Loaded.hash]
  <2>0. /\ call \in CallRecords /\ InPlace(call) /\ call.pc = "loaded"
        /\ call.kind \in {"validate", "merge"}
    BY <1>2 DEF ContractInv, InPlace, AdmitFrontend, LoadedFor
  <2>1. Loaded \in Registries /\ Loaded.hash \in Binaries /\ call.reader = "workspace"
    BY <2>0, LoadedOwn DEF Registries, InPlace
  <2>2. InPlace(next)
    BY <2>0, <2>1 DEF InPlace, CallRecords, CallStates
  <2>3. ~disturbed => StillSo(next)
    BY <2>0, <2>1, LoadedOwn DEF ContractInv, StillSo, CallRecords, GoesBy, OwnRegistry
  <2> QED
    BY <1>2, <2>2, <2>3, StepsKeep DEF AdmitFrontend
<1> QED
  BY <1>1, <1>2

LEMMA FrontendKeeps == ContractInv /\ RunFrontend => ContractInv'
<1> SUFFICES ASSUME ContractInv, RunFrontend PROVE ContractInv'
  OBVIOUS
<1>1. PICK ok : Returns(Says(call.registry, call.compiler, BinaryAt("configured"), ok))
  BY DEF RunFrontend
<1>2. call.pc = "frontend" /\ call.kind \in {"validate", "merge"} /\ UNCHANGED stored
  BY <1>1 DEF ContractInv, InPlace, RunFrontend, Returns
<1>3. ~disturbed => Held(answer')
  <2> SUFFICES ASSUME ~disturbed, installed["configured"] # NoCompiler PROVE Held(answer')
    BY <1>1 DEF Returns, Says, Held, BinaryAt
  <2>1. PlaceOf("workspace") = "configured"
    BY DEF PlaceOf, BinaryAt
  <2>2. GoesBy(call, "configured") /\ call.compiler = installed["configured"]
    BY <1>2, <2>1 DEF ContractInv, StillSo
  <2>3. call.target = "native"
    BY <1>2 DEF ContractInv, InPlace
  <2> QED
    BY <1>1, <2>2, <2>3 DEF Returns, Says, Held, BinaryAt, GoesBy, Admits
<1> QED
  BY <1>1, <1>2, <1>3, ReturnsKeep DEF Returns, ContractInv, StoredOwn

LEMMA AdmissionKeeps ==
  ASSUME ContractInv,
         \/ \E target \in Targets \cup {"native"}, profile \in Profiles : StartBuild(target, profile)
         \/ AdmitBuild
  PROVE  ContractInv'
<1>1. ASSUME NEW target \in Targets \cup {"native"}, NEW profile \in Profiles,
             StartBuild(target, profile)
      PROVE  ContractInv'
  <2> DEFINE begun == NewCall("build", "identify", "bridge", target, profile)
  <2>1. InPlace(begun) /\ StillSo(begun)
    BY DEF InPlace, StillSo, NewCall, CallRecords, CallKinds, CallStates, NoRegistry, Registries,
       Binaries, Readers, Places
  <2> QED
    BY <1>1, <2>1, BeginsKeep DEF StartBuild
<1>2. CASE AdmitBuild
  <2> DEFINE next == [call EXCEPT !.pc = "hash", !.registry = Loaded]
  <2>0. call \in CallRecords /\ InPlace(call) /\ call.pc = "loaded" /\ call.kind = "build"
    BY <1>2 DEF ContractInv, InPlace, AdmitBuild, LoadedFor
  <2>1. Loaded \in Registries /\ PlaceOf(call.reader) = "configured"
    BY <2>0, LoadedOwn DEF InPlace, PlaceOf
  <2>2. CASE Admits(Loaded.of, call.target)
    <3>1. InPlace(next)
      BY <2>0, <2>1 DEF InPlace, CallRecords, CallStates
    <3>2. ~disturbed => StillSo(next)
      BY <2>0, <2>1, <2>2, LoadedOwn
      DEF StillSo, CallRecords, GoesBy, BuildAdmitted, OwnRegistry, Admits
    <3> QED
      BY <1>2, <2>2, <3>1, <3>2, StepsKeep DEF AdmitBuild
  <2> QED
    BY <1>2, <2>2, FailsKeep DEF AdmitBuild
<1> QED
  BY <1>1, <1>2

LEMMA HashKeeps == ContractInv /\ HashCompiler => ContractInv'
<1> SUFFICES ASSUME ContractInv, HashCompiler PROVE ContractInv'
  OBVIOUS
<1> DEFINE next ==
      [call EXCEPT !.compiler = BinaryAt("configured"),
                   !.pc = IF call.profile = "none" THEN "key" ELSE "identify",
                   !.kind = IF call.profile = "none" THEN "build" ELSE "evidence",
                   !.reader = "workspace"]
<1>0. call \in CallRecords /\ InPlace(call) /\ call.pc = "hash"
  BY DEF ContractInv, InPlace, HashCompiler
<1>1. BinaryAt("configured") \in Binaries
  BY DEF ContractInv, ContractTypes, BinaryAt, Places
<1>2. InPlace(next)
  BY <1>0, <1>1 DEF InPlace, CallRecords, CallStates, CallKinds, Readers
<1>3. ~disturbed => StillSo(next)
  BY <1>0 DEF ContractInv, StillSo, CallRecords, GoesBy, BuildAdmitted, BinaryAt
<1> QED
  BY <1>2, <1>3, StepsKeep, FailsKeep DEF HashCompiler

LEMMA EvidenceKeeps == ContractInv /\ RequireEvidence => ContractInv'
<1> SUFFICES ASSUME ContractInv, RequireEvidence PROVE ContractInv'
  OBVIOUS
<1> DEFINE next == [call EXCEPT !.pc = "key", !.kind = "build"]
<1>0. call \in CallRecords /\ InPlace(call) /\ call.pc = "loaded" /\ call.kind = "evidence"
  BY DEF ContractInv, InPlace, RequireEvidence, LoadedFor
<1>1. InPlace(next)
  BY <1>0 DEF InPlace, CallRecords, CallStates, CallKinds
<1>2. ~disturbed => StillSo(next)
  BY <1>0 DEF ContractInv, StillSo, CallRecords, GoesBy, BuildAdmitted
<1> QED
  BY <1>1, <1>2, StepsKeep, FailsKeep DEF RequireEvidence

LEMMA ReuseKeeps == ContractInv /\ ReuseBuild => ContractInv'
<1> SUFFICES ASSUME ContractInv, ReuseBuild PROVE ContractInv'
  OBVIOUS
<1> DEFINE next == [call EXCEPT !.pc = "compile"]
<1>0. call \in CallRecords /\ InPlace(call) /\ call.pc = "key"
  BY DEF ContractInv, InPlace, ReuseBuild
<1>1. CASE Steps(next)
  <2>1. InPlace(next)
    BY <1>0 DEF InPlace, CallRecords, CallStates
  <2>2. ~disturbed => StillSo(next)
    BY <1>0 DEF ContractInv, StillSo, CallRecords, GoesBy, BuildAdmitted
  <2> QED
    BY <1>1, <2>1, <2>2, StepsKeep
<1>2. CASE /\ BuildId(call) \in DOMAIN stored
           /\ Returns(Says(call.registry, call.compiler, stored[BuildId(call)], TRUE))
  <2>1. ASSUME ~disturbed PROVE Held(answer')
    <3>1. stored[BuildId(call)] = call.compiler
      BY <1>2, <2>1 DEF ContractInv, StoredOwn, BuildId
    <3>2. BuildAdmitted(call) /\ call.compiler = installed["configured"]
      BY <1>0, <2>1 DEF ContractInv, StillSo
    <3> QED
      BY <1>2, <3>1, <3>2 DEF Returns, Says, Held, BuildAdmitted, GoesBy, Admits
  <2> QED
    BY <1>2, <2>1, ReturnsKeep DEF Returns, ContractInv, StoredOwn
<1> QED
  BY <1>1, <1>2 DEF ReuseBuild

LEMMA CompileKeeps == ContractInv /\ Compile => ContractInv'
<1> SUFFICES ASSUME ContractInv, Compile PROVE ContractInv'
  OBVIOUS
<1> DEFINE compiler == installed["configured"]
           id == BuildId(call)
<1>0. call \in CallRecords /\ InPlace(call) /\ call.pc = "compile"
  BY DEF ContractInv, InPlace, Compile
<1>1. PICK report \in Reports \cup {NotStarted} :
        LET ok == Succeeds(report, call.target)
        IN  /\ answer' = [Says(call.registry, call.compiler, compiler, ok) EXCEPT
                            !.why = Complaints(report, call.target), !.left = Left(report)]
            /\ stored' = IF ok THEN [i \in DOMAIN stored \cup {id} |->
                                      IF i = id THEN compiler ELSE stored[i]]
                         ELSE stored
  BY DEF Compile, BinaryAt
<1>2. ASSUME ~disturbed PROVE StoredOwn' /\ Held(answer')
  <2>1. BuildAdmitted(call) /\ call.compiler = compiler
    BY <1>0, <1>2 DEF ContractInv, StillSo
  <2>2. id[1] = compiler
    BY <2>1 DEF BuildId
  <2>3. StoredOwn'
    BY <1>1, <1>2, <2>2 DEF ContractInv, StoredOwn
  <2>4. Held(answer')
    BY <1>1, <2>1 DEF Says, Held, BuildAdmitted, GoesBy, Admits
  <2> QED
    BY <2>3, <2>4
<1> QED
  BY <1>2, ReturnsKeep DEF Compile

LEMMA InstallKeeps ==
  ASSUME ContractInv, NEW place \in Places, NEW compiler \in Binaries, Install(place, compiler)
  PROVE  ContractInv'
<1>1. ContractTypes' /\ InPlace(call)'
  BY DEF ContractInv, ContractTypes, InPlace, Install
<1>2. ASSUME ~disturbed' PROVE RegistriesOwn' /\ StoredOwn' /\ StillSo(call)' /\ Held(answer)'
  <2>1. ~disturbed /\ call.pc = "idle" /\ call.kind = "none"
    BY <1>2 DEF ContractInv, ContractTypes, InPlace, Install
  <2>2. RegistriesOwn' /\ StoredOwn'
    BY <2>1 DEF ContractInv, RegistriesOwn, StoredOwn, Install
  <2>3. StillSo(call)'
    BY <2>1 DEF StillSo, Install
  <2> QED
    BY <2>2, <2>3, NoAnswerHeld DEF Install
<1> QED
  BY <1>1, <1>2 DEF ContractInv

LEMMA RestartKeeps == ContractInv /\ Restart => ContractInv'
<1> SUFFICES ASSUME ContractInv, Restart PROVE ContractInv'
  OBVIOUS
<1>1. NoRegistry \in Registries
  BY DEF NoRegistry, Registries, Binaries
<1>2. ContractTypes'
  BY <1>1 DEF ContractInv, ContractTypes, Restart
<1>3. InPlace(call)' /\ StillSo(call)'
  BY StartupSound DEF Restart, InPlace, StillSo, Startup, NewCall
<1>4. RegistriesOwn'
  BY DEF Restart, RegistriesOwn, NoRegistry
<1> QED
  BY <1>2, <1>3, <1>4, NoAnswerHeld DEF ContractInv, Restart, StoredOwn

LEMMA ContractInvNext == ContractInv /\ [ContractNext]_contractVars => ContractInv'
<1> SUFFICES ASSUME ContractInv, [ContractNext]_contractVars PROVE ContractInv'
  OBVIOUS
<1>1. CASE UNCHANGED contractVars
  BY <1>1 DEF contractVars, ContractInv, ContractTypes, InPlace, RegistriesOwn, StoredOwn, StillSo,
     Held, GoesBy, BuildAdmitted, PlaceOf, BinaryAt
<1>2. ASSUME NEW place \in Places, NEW c \in Compilers \cup {NoCompiler}, Install(place, c)
      PROVE  ContractInv'
  BY <1>2, InstallKeeps DEF Binaries
<1> QED
  BY <1>1, <1>2, IdentifyKeeps, HandshakeKeeps, HelpKeeps, ValidationKeeps, FrontendKeeps,
     AdmissionKeeps, HashKeeps, EvidenceKeeps, ReuseKeeps, CompileKeeps, RestartKeeps
  DEF ContractNext

\* As long as binaries are replaced between calls only, every result names the
\* compiler that made it, for any compilers, registries and targets.
THEOREM ContractsHeld == ContractSpec => []ContractHeld
<1>1. ContractInv => ContractHeld
  BY DEF ContractInv, RegistriesOwn, Held, OwnRegistry, ContractHeld
<1> QED
  BY <1>1, ContractInvInit, ContractInvNext, PTL DEF ContractSpec

------------------------------------------------------------------------------
\* What a build makes of any report: it succeeds without complaint, or complains,
\* unless the compiler claims an executable that is not there.
LEMMA ReportsExplained ==
  ASSUME NEW report \in Reports \cup {NotStarted}, NEW target
  PROVE  IF Succeeds(report, target)
         THEN Complaints(report, target) = {} /\ Left(report) = "success"
         ELSE Complaints(report, target) # {} \/ Left(report) = "success without executable"
<1> DEFINE d == report.diagnostics
           m == report.manifest
           code == ReturnCode(report)
           own == {<<"compiler", i>> : i \in DOMAIN d.entries}
<1>0. report.executable \in BOOLEAN /\ (Parsed(d) => d.entries \in Seq({"error", "malformed"}))
  <2>1. CASE report \in Reports
    BY <2>1, ReportsAssumption DEF Parsed
  <2>2. CASE report = NotStarted
    BY <2>2 DEF NotStarted, Missing, Parsed
  <2> QED
    BY <2>1, <2>2
<1>1. CASE ~Trusted(report)
  BY <1>1 DEF Complaints, Succeeds
<1>2. CASE ~SoundManifest(report, target)
  BY <1>2 DEF Complaints, Succeeds
<1>3. CASE Trusted(report) /\ SoundManifest(report, target) /\ d.entries # << >>
  <2>1. d.entries \in Seq({"error", "malformed"})
    BY <1>0, <1>3 DEF Trusted
  <2>7. 1 \in DOMAIN d.entries
    BY <1>3, <2>1
  <2>2. Complaints(report, target) # {}
    BY <1>3, <2>7 DEF Complaints
  <2>3. d.status # "succeeded" /\ d.status = Claimed(d.exit) /\ m.status = d.status
    BY <1>3 DEF Trusted, SoundDiagnostics, SoundManifest
  <2>4. m.status = Claimed(code)
    BY <1>3 DEF SoundManifest
  <2>5. ~Succeeds(report, target)
    BY <2>3, <2>4 DEF Succeeds, Claimed
  <2> QED
    BY <2>2, <2>5
<1>4. CASE Trusted(report) /\ SoundManifest(report, target) /\ d.entries = << >>
  <2>1. Parsed(d) /\ d.status # "failed" /\ d.status = Claimed(d.exit) /\ Parsed(m)
        /\ m.status = d.status /\ m.status = Claimed(code)
    BY <1>4 DEF Trusted, SoundDiagnostics, SoundManifest
  <2>2. d.status = "succeeded" /\ code = 0
    BY <2>1 DEF Claimed
  <2>3. own = {}
    BY <1>4
  <2>4. Complaints(report, target) = {}
    BY <1>4, <2>3 DEF Complaints
  <2>5. Left(report) = IF report.executable THEN "success" ELSE "success without executable"
    BY <1>0, <2>1, <2>2 DEF Left
  <2>6. Succeeds(report, target) <=> report.executable
    BY <1>0, <1>4, <2>2 DEF Succeeds
  <2> QED
    BY <1>0, <2>4, <2>5, <2>6
<1> QED
  BY <1>1, <1>2, <1>3, <1>4

LEMMA BuildsExplainedNext ==
  ContractInv /\ BuildsExplained /\ [ContractNext]_contractVars => BuildsExplained'
<1> SUFFICES ASSUME ContractInv, BuildsExplained, [ContractNext]_contractVars
             PROVE  BuildsExplained'
  OBVIOUS
<1>1. CASE UNCHANGED answer \/ answer' = NoAnswer
  <2>1. CASE UNCHANGED answer
    BY <2>1, Zenon DEF BuildsExplained
  <2>2. CASE answer' = NoAnswer
    <3>1. answer'.kind # "build"
      BY <2>2 DEF NoAnswer
    <3> QED
      BY <3>1 DEF BuildsExplained
  <2> QED
    BY <1>1, <2>1, <2>2
<1>2. CASE HelpWithGrammar
  <2>1. CASE LoadedFor({"grammar"}) /\ Returns(Says(Loaded, Loaded.hash, NoCompiler, TRUE))
    <3>1. answer'.kind # "build"
      BY <2>1 DEF LoadedFor, Returns, Says
    <3> QED
      BY <3>1 DEF BuildsExplained
  <2> QED
    BY <1>1, <1>2, <2>1 DEF HelpWithGrammar, BeginCall
<1>3. CASE RunFrontend
  <2>1. call.kind # "build"
    BY <1>3 DEF ContractInv, InPlace, RunFrontend
  <2>2. PICK ok : answer' = Says(call.registry, call.compiler, BinaryAt("configured"), ok)
    BY <1>3 DEF RunFrontend, Returns
  <2>3. answer'.kind # "build"
    BY <2>1, <2>2 DEF Says
  <2> QED
    BY <2>3 DEF BuildsExplained
<1>4. CASE ReuseBuild
  <2>1. CASE Returns(Says(call.registry, call.compiler, stored[BuildId(call)], TRUE))
    BY <2>1 DEF Returns, Says, BuildsExplained
  <2> QED
    BY <1>1, <1>4, <2>1 DEF ReuseBuild, Steps
<1>5. CASE Compile
  <2>1. PICK report \in Reports \cup {NotStarted} : \E ran :
          answer' = [Says(call.registry, call.compiler, ran, Succeeds(report, call.target)) EXCEPT
                       !.why = Complaints(report, call.target), !.left = Left(report)]
    BY <1>5 DEF Compile
  <2>2. /\ answer'.ok = Succeeds(report, call.target)
        /\ answer'.why = Complaints(report, call.target)
        /\ answer'.left = Left(report)
    BY <2>1 DEF Says
  <2> QED
    BY <2>2, ReportsExplained DEF BuildsExplained
<1> QED
  BY <1>1, <1>2, <1>3, <1>4, <1>5
  DEF ContractNext, contractVars, Identify, Handshake, NameRegistry, StartValidation, BeginCall,
      AdmitFrontend, StartBuild, AdmitBuild, HashCompiler, RequireEvidence, Install, Restart,
      Steps, Fails, Returns

\* However a compiler ends and whatever it leaves behind, a build that succeeds has
\* no complaint, and one that fails says why.
THEOREM EveryBuildExplained == ContractSpec => []BuildsExplained
<1>1. ContractInit => BuildsExplained
  <2> SUFFICES ASSUME ContractInit PROVE BuildsExplained
    OBVIOUS
  <2>1. answer.kind # "build"
    BY DEF ContractInit, NoAnswer
  <2> QED
    BY <2>1 DEF BuildsExplained
<1> QED
  BY <1>1, ContractInvInit, ContractInvNext, BuildsExplainedNext, PTL DEF ContractSpec

------------------------------------------------------------------------------
(* DatabaseOpening: a file that is opened *)

Rows == [table : {LegacyTable, Compressed}, revision : Nat, name : Names,
         text : Texts, hash : Texts]

FileTypes ==
  /\ file \in OldFiles
  /\ first \in Files
  /\ DOMAIN opener = Openers

OldRevisions == DOMAIN first.roots

Retabled(rows, table) == {[row EXCEPT !.table = table] : row \in rows}

\* The rows that were found are there, in the table that is read.
RowsHold ==
  /\ \A row \in file.rows :
       /\ row.table = SnapshotMode(file) /\ row.table \in file.objects
       /\ row.revision \in DOMAIN file.roots
  /\ OldRevisions \subseteq DOMAIN file.roots
  /\ \A q \in OldRevisions : file.roots[q] = first.roots[q]
  /\ {row \in file.rows : row.revision \in OldRevisions} = Retabled(first.rows, SnapshotMode(file))
  /\ Content(file.rows) = kept

\* How much of the schema there is for a process.
ScriptRun(o) ==
  /\ o.pc \in {"script", "open"} => LegacyTable \notin file.objects
  /\ o.pc = "script" =>
       /\ o.next \in 1 .. Len(Script) + 1
       /\ \A i \in 1 .. (o.next - 1) : Script[i] \in file.objects
  /\ o.pc = "open" =>
       /\ file.version = SchemaVersion
       /\ \A i \in 1 .. Len(Script) : Script[i] \in file.objects

\* Not because of what it holds, but of how it is.
Inadmissible(f) ==
  \/ f.version > SchemaVersion
  \/ /\ f.version < SchemaVersion
     /\ "revisions" \in f.objects
     /\ ~(/\ Admissible(f) /\ Linked(f)
          /\ \A revision \in DOMAIN f.roots : Loads(f, revision, SnapshotMode(f)))

\* How far a process gets with a database that is refused.
RefusedSoFar(o) ==
  /\ o.pc \in {"closed", "schema", "objects", "rows", "kind", "migrate"}
  /\ o.pc # "closed" => ~(first.version > SchemaVersion)
  /\ o.pc = "rows" =>
       o.table = SnapshotMode(first) /\ Admissible(first)
  /\ o.pc \in {"kind", "migrate"} => ~Inadmissible(first)

RefusalHolds ==
  Refused(first) => file = first /\ \A p \in Openers : RefusedSoFar(opener[p])

OpeningInv ==
  /\ FileTypes
  /\ RowsHold
  /\ \A p \in Openers : ScriptRun(opener[p])
  /\ RefusalHolds

------------------------------------------------------------------------------
LEMMA ModesDiffer == Compressed # LegacyTable /\ View # LegacyTable /\ View # Compressed
  BY DEF Compressed, LegacyTable, View

LEMMA ScriptObjects ==
  /\ Len(Script) = 9
  /\ DOMAIN Script = 1 .. 9
  /\ Objects = {"projects", "revisions", "branches", Compressed, View, "operations",
                "documents", "guards", "candidates", LegacyTable}
  /\ \A i \in 1 .. 9 : Script[i] \in Objects /\ Script[i] # LegacyTable
  /\ Script[4] = Compressed
<1>1. Len(Script) = 9 /\ DOMAIN Script = 1 .. 9
  BY DEF Script
<1>2. /\ Script[1] = "projects" /\ Script[2] = "revisions" /\ Script[3] = "branches"
      /\ Script[4] = Compressed /\ Script[5] = View /\ Script[6] = "operations"
      /\ Script[7] = "documents" /\ Script[8] = "guards" /\ Script[9] = "candidates"
  BY DEF Script
<1>3. \A i \in 1 .. 9 :
        i = 1 \/ i = 2 \/ i = 3 \/ i = 4 \/ i = 5 \/ i = 6 \/ i = 7 \/ i = 8 \/ i = 9
  OBVIOUS
<1>4. {Script[i] : i \in 1 .. 9} =
        {"projects", "revisions", "branches", Compressed, View, "operations",
         "documents", "guards", "candidates"}
  BY <1>2, <1>3
<1>5. \A s \in {"projects", "revisions", "branches", Compressed, View, "operations",
                "documents", "guards", "candidates"} : s # LegacyTable
  BY DEF Compressed, View, LegacyTable
<1>6. \A i \in 1 .. 9 : Script[i] \in Objects /\ Script[i] # LegacyTable
  BY <1>1, <1>4, <1>5 DEF Objects
<1> QED
  BY <1>1, <1>2, <1>4, <1>6 DEF Objects

LEMMA OpeningInvInit == OpeningInit => OpeningInv
<1> SUFFICES ASSUME OpeningInit PROVE OpeningInv
  OBVIOUS
<1>1. /\ file \in Files /\ file \in OldFiles /\ first = file
      /\ opener = [p \in Openers |-> Closed]
      /\ kept = Content(file.rows)
  BY FilesAssumption DEF OpeningInit
<1>2. FileTypes
  BY <1>1 DEF FileTypes
<1>3. RowsHold
  <2>1. \A row \in file.rows :
          /\ row.table = SnapshotMode(file) /\ row.table \in file.objects
          /\ row.revision \in DOMAIN file.roots
    BY <1>1, FilesAssumption
  <2>2. \A row \in file.rows : [row EXCEPT !.table = SnapshotMode(file)] = row
    BY <1>1, <2>1 DEF OldFiles
  <2>3. {row \in file.rows : row.revision \in OldRevisions} = Retabled(first.rows, SnapshotMode(file))
    BY <1>1, <2>1, <2>2 DEF Retabled, OldRevisions
  <2> QED
    BY <1>1, <2>1, <2>3 DEF RowsHold, OldRevisions
<1>4. \A p \in Openers : ScriptRun(opener[p]) /\ RefusedSoFar(opener[p])
  BY <1>1 DEF ScriptRun, RefusedSoFar, Closed
<1> QED
  BY <1>1, <1>2, <1>3, <1>4 DEF OpeningInv, RefusalHolds

\* A process goes on without touching the file.
LEMMA ReadsKeep ==
  ASSUME OpeningInv, NEW p \in Openers, NEW o, Go(p, o), OnlyReads,
         ScriptRun(o), Refused(first) => RefusedSoFar(o)
  PROVE  OpeningInv'
<1>1. UNCHANGED <<file, first, kept>> /\ opener' = [opener EXCEPT ![p] = o]
  BY DEF Go, OnlyReads
<1>2. FileTypes'
  BY <1>1 DEF OpeningInv, FileTypes
<1>3. RowsHold'
  BY <1>1 DEF OpeningInv, RowsHold, OldRevisions
<1>4. \A q \in Openers : opener'[q] = IF q = p THEN o ELSE opener[q]
  BY <1>1 DEF OpeningInv, FileTypes
<1>5. \A q \in Openers : ScriptRun(opener[q])'
  BY <1>1, <1>4 DEF OpeningInv, ScriptRun
<1>6. RefusalHolds'
  BY <1>1, <1>4 DEF OpeningInv, RefusalHolds, RefusedSoFar
<1> QED
  BY <1>2, <1>3, <1>5, <1>6 DEF OpeningInv

LEMMA InspectionKeeps ==
  ASSUME OpeningInv, NEW p \in Openers,
         ReadVersion(p) \/ HasExistingSchema(p) \/ InspectObjects(p) \/ InspectRows(p) \/ Leave(p)
  PROVE  OpeningInv'
<1> DEFINE Stage(stage) == [pc |-> stage]
<1>0. /\ Refused(first) => file = first /\ RefusedSoFar(opener[p])
      /\ ScriptRun(Closed) /\ RefusedSoFar(Closed)
  BY DEF OpeningInv, RefusalHolds, Closed, ScriptRun, RefusedSoFar
<1>1. CASE ReadVersion(p)
  <2> DEFINE o == Stage(IF file.version < SchemaVersion THEN "schema" ELSE "kind")
  <2>1. ScriptRun(o)
    BY DEF ScriptRun
  <2>2. first \in OldFiles /\ file.version <= SchemaVersion
    BY <1>1, FilesAssumption DEF OpeningInv, FileTypes, ReadVersion
  <2>3. Refused(first) => RefusedSoFar(o)
    BY <1>0, <2>2 DEF RefusedSoFar, Inadmissible, SchemaVersion, OldFiles
  <2> QED
    BY <1>1, <2>1, <2>3, ReadsKeep DEF ReadVersion
<1>2. CASE HasExistingSchema(p)
  <2> DEFINE o == Stage(IF "revisions" \in file.objects THEN "objects" ELSE "kind")
  <2>1. ScriptRun(o)
    BY DEF ScriptRun
  <2>2. Refused(first) => RefusedSoFar(o)
    BY <1>0, <1>2 DEF HasExistingSchema, At, RefusedSoFar, Inadmissible
  <2> QED
    BY <1>2, <2>1, <2>2, ReadsKeep DEF HasExistingSchema
<1>3. CASE InspectObjects(p)
  <2> DEFINE o == IF Admissible(file) THEN [pc |-> "rows", table |-> SnapshotMode(file)] ELSE Closed
  <2>1. ScriptRun(o)
    BY DEF ScriptRun, Closed
  <2>2. Refused(first) => RefusedSoFar(o)
    BY <1>0, <1>3 DEF InspectObjects, At, RefusedSoFar, Closed
  <2> QED
    BY <1>3, <2>1, <2>2, ReadsKeep DEF InspectObjects
<1>4. CASE InspectRows(p)
  <2> DEFINE o == IF RowsSound(file, opener[p].table) THEN [pc |-> "kind"] ELSE Closed
  <2>1. ScriptRun(o)
    BY DEF ScriptRun, Closed
  <2>2. ASSUME Refused(first) PROVE RefusedSoFar(o)
    <3>1. CASE ~RowsSound(file, opener[p].table)
      BY <1>0, <3>1
    <3>2. CASE RowsSound(file, opener[p].table)
      BY <1>0, <1>4, <2>2, <3>2 DEF InspectRows, At, RefusedSoFar, Inadmissible, RowsSound
    <3> QED
      BY <3>1, <3>2
  <2> QED
    BY <1>4, <2>1, <2>2, ReadsKeep DEF InspectRows, GoIf
<1>5. CASE Leave(p)
  BY <1>0, <1>5, ReadsKeep DEF Leave
<1> QED
  BY <1>1, <1>2, <1>3, <1>4, <1>5

LEMMA FindKeeps == ASSUME OpeningInv, NEW p \in Openers, FindLegacyTable(p) PROVE OpeningInv'
<1> DEFINE o == IF LegacyTable \in file.objects THEN [pc |-> "migrate"] ELSE FirstStatement
<1>1. ScriptRun(o)
  BY ScriptObjects DEF ScriptRun, FirstStatement
<1>2. ASSUME Refused(first) PROVE RefusedSoFar(o)
  <2>1. file = first /\ RefusedSoFar(opener[p]) /\ opener[p].pc = "kind"
    BY <1>2 DEF OpeningInv, RefusalHolds, FindLegacyTable, At
  <2>2. LegacyTable \in first.objects
    BY <1>2, <2>1 DEF RefusedSoFar, Inadmissible, Refused
  <2> QED
    BY <2>1, <2>2 DEF RefusedSoFar
<1> QED
  BY <1>1, <1>2, ReadsKeep DEF FindLegacyTable

------------------------------------------------------------------------------
\* Rows that change the table change nothing else.
LEMMA RetabledContent ==
  ASSUME NEW rows \in SUBSET Rows, NEW table
  PROVE  Content(Retabled(rows, table)) = Content(rows)
<1>1. \A row \in rows :
        LET moved == [row EXCEPT !.table = table]
        IN  <<moved.revision, moved.name, moved.text, moved.hash>>
              = <<row.revision, row.name, row.text, row.hash>>
  BY DEF Rows
<1>2. ASSUME NEW c \in Content(Retabled(rows, table)) PROVE c \in Content(rows)
  <2>1. PICK moved \in Retabled(rows, table) :
          c = <<moved.revision, moved.name, moved.text, moved.hash>>
    BY <1>2 DEF Content
  <2>2. PICK row \in rows : moved = [row EXCEPT !.table = table]
    BY <2>1 DEF Retabled
  <2> QED
    BY <1>1, <2>1, <2>2 DEF Content
<1>3. ASSUME NEW c \in Content(rows) PROVE c \in Content(Retabled(rows, table))
  <2>1. PICK row \in rows : c = <<row.revision, row.name, row.text, row.hash>>
    BY <1>3 DEF Content
  <2> DEFINE moved == [row EXCEPT !.table = table]
  <2>2. moved \in Retabled(rows, table)
    BY DEF Retabled
  <2>3. c = <<moved.revision, moved.name, moved.text, moved.hash>>
    BY <1>1, <2>1
  <2> QED
    BY <2>2, <2>3 DEF Content
<1> QED
  BY <1>2, <1>3

\* The last of two moves counts.
LEMMA RetabledTwice ==
  ASSUME NEW rows \in SUBSET Rows, NEW t1, NEW t2
  PROVE  Retabled(Retabled(rows, t1), t2) = Retabled(rows, t2)
<1>1. \A row \in rows : [[row EXCEPT !.table = t1] EXCEPT !.table = t2] = [row EXCEPT !.table = t2]
  BY DEF Rows
<1>2. ASSUME NEW x \in Retabled(Retabled(rows, t1), t2) PROVE x \in Retabled(rows, t2)
  <2>1. PICK moved \in Retabled(rows, t1) : x = [moved EXCEPT !.table = t2]
    BY <1>2 DEF Retabled
  <2>2. PICK row \in rows : moved = [row EXCEPT !.table = t1]
    BY <2>1 DEF Retabled
  <2> QED
    BY <1>1, <2>1, <2>2 DEF Retabled
<1>3. ASSUME NEW x \in Retabled(rows, t2) PROVE x \in Retabled(Retabled(rows, t1), t2)
  <2>1. PICK row \in rows : x = [row EXCEPT !.table = t2]
    BY <1>3 DEF Retabled
  <2>2. [row EXCEPT !.table = t1] \in Retabled(rows, t1)
    BY DEF Retabled
  <2> QED
    BY <1>1, <2>1, <2>2 DEF Retabled
<1> QED
  BY <1>2, <1>3

\* Rows stay with their revisions.
LEMMA RetabledOf ==
  ASSUME NEW rows \in SUBSET Rows, NEW table, NEW S
  PROVE  {row \in Retabled(rows, table) : row.revision \in S}
           = Retabled({row \in rows : row.revision \in S}, table)
<1>1. \A row \in rows : [row EXCEPT !.table = table].revision = row.revision
  BY DEF Rows
<1>2. ASSUME NEW x \in Retabled(rows, table), x.revision \in S
      PROVE  x \in Retabled({row \in rows : row.revision \in S}, table)
  <2>1. PICK row \in rows : x = [row EXCEPT !.table = table]
    BY DEF Retabled
  <2>2. row.revision \in S
    BY <1>1, <1>2, <2>1
  <2> QED
    BY <2>1, <2>2 DEF Retabled
<1>3. ASSUME NEW x \in Retabled({row \in rows : row.revision \in S}, table)
      PROVE  x \in Retabled(rows, table) /\ x.revision \in S
  <2>1. PICK row \in {row \in rows : row.revision \in S} : x = [row EXCEPT !.table = table]
    BY <1>3 DEF Retabled
  <2> QED
    BY <1>1, <2>1 DEF Retabled
<1> QED
  BY <1>2, <1>3

LEMMA RetabledRows ==
  ASSUME NEW rows \in SUBSET Rows, NEW table \in {LegacyTable, Compressed}
  PROVE  /\ Retabled(rows, table) \in SUBSET Rows
         /\ \A x \in Retabled(rows, table) :
              x.table = table /\ \E row \in rows : x.revision = row.revision
<1>1. ASSUME NEW x \in Retabled(rows, table)
      PROVE  x \in Rows /\ x.table = table /\ \E row \in rows : x.revision = row.revision
  <2>1. PICK row \in rows : x = [row EXCEPT !.table = table]
    BY DEF Retabled
  <2> QED
    BY <2>1 DEF Rows
<1> QED
  BY <1>1

LEMMA MigrateKeeps == ASSUME OpeningInv, NEW p \in Openers, Migrate(p) PROVE OpeningInv'
<1>0. /\ opener[p].pc = "migrate" /\ UNCHANGED <<first, kept>>
      /\ file \in OldFiles /\ file.rows \in SUBSET Rows
      /\ first \in Files /\ first \in OldFiles /\ first.rows \in SUBSET Rows
  BY FilesAssumption DEF OpeningInv, FileTypes, Migrate, At, OldFiles, Rows
<1> DEFINE fits == LegacyTable \in file.objects /\ \A row \in file.rows : Compresses(row.text)
<1>1. CASE ~fits
  <2>1. ScriptRun(Closed) /\ RefusedSoFar(Closed)
    BY DEF ScriptRun, RefusedSoFar, Closed
  <2> QED
    BY <1>1, <2>1, ReadsKeep DEF Migrate, OnlyReads
<1>2. CASE fits
  <2>1. file' = [file EXCEPT !.objects = (@ \ {LegacyTable}) \cup {Compressed, View},
                            !.rows = Moved(@), !.version = 2]
    BY <1>2 DEF Migrate
  <2>2. /\ file'.objects = (file.objects \ {LegacyTable}) \cup {Compressed, View}
        /\ file'.rows = Retabled(file.rows, Compressed)
        /\ file'.version = 2 /\ file'.roots = file.roots /\ file'.related = file.related
    BY <1>0, <2>1 DEF OldFiles, Moved, Retabled
  <2>3. /\ file'.rows \in SUBSET Rows
        /\ \A x \in file'.rows :
             x.table = Compressed /\ \E row \in file.rows : x.revision = row.revision
    BY <1>0, <2>2, RetabledRows
  <2>4. opener' = [opener EXCEPT ![p] = FirstStatement]
    BY <1>2 DEF Migrate, Go
  <2>5. FileTypes'
    <3>1. file'.rows \in SUBSET Rows
      BY <2>3
    <3>2. file'.objects \in SUBSET Objects
      BY <1>0, <2>2, ScriptObjects DEF OldFiles
    <3>3. file' \in OldFiles
      BY <1>0, <2>1, <2>2, <3>1, <3>2 DEF OldFiles, Rows
    <3> QED
      BY <1>0, <2>4, <3>3 DEF OpeningInv, FileTypes
  <2>6. SnapshotMode(file') = Compressed /\ Compressed \in file'.objects
    BY <2>2 DEF SnapshotMode
  <2>7. RowsHold'
    <3>1. \A row \in file'.rows :
            /\ row.table = Compressed /\ row.revision \in DOMAIN file'.roots
      BY <2>2, <2>3 DEF OpeningInv, RowsHold
    <3>3. {row \in file'.rows : row.revision \in OldRevisions}
            = Retabled({row \in file.rows : row.revision \in OldRevisions}, Compressed)
      <4>1. {row \in Retabled(file.rows, Compressed) : row.revision \in OldRevisions}
              = Retabled({row \in file.rows : row.revision \in OldRevisions}, Compressed)
        BY <1>0, RetabledOf
      <4>2. OldRevisions' = OldRevisions
        BY <1>0 DEF OldRevisions
      <4> QED
        BY <2>2, <4>1
    <3>5. Retabled(Retabled(first.rows, SnapshotMode(file)), Compressed)
            = Retabled(first.rows, Compressed)
      BY <1>0, RetabledTwice
    <3>6. Content(file'.rows) = kept'
      BY <1>0, <2>2, RetabledContent DEF OpeningInv, RowsHold
    <3> QED
      BY <1>0, <2>2, <2>6, <3>1, <3>3, <3>5, <3>6 DEF OpeningInv, RowsHold, OldRevisions
  <2>8. ~Refused(first)
    BY <1>0, <1>2 DEF OpeningInv, RefusalHolds, RefusedSoFar, Refused, Inadmissible
  <2>9. \A q \in Openers : ScriptRun(opener[q])'
    <3>1. \A q \in Openers : opener'[q] = IF q = p THEN FirstStatement ELSE opener[q]
      BY <2>4 DEF OpeningInv, FileTypes
    <3>2. LegacyTable \notin file'.objects
      BY <2>2, ModesDiffer
    <3>3. \A q \in Openers : opener[q].pc \notin {"script", "open"}
      BY <1>2 DEF OpeningInv, ScriptRun
    <3> QED
      BY <3>1, <3>2, <3>3, ScriptObjects DEF ScriptRun, FirstStatement
  <2> QED
    BY <1>0, <2>5, <2>7, <2>8, <2>9 DEF OpeningInv, RefusalHolds
<1> QED
  BY <1>1, <1>2

LEMMA ScriptKeeps == ASSUME OpeningInv, NEW p \in Openers, RunStatement(p) PROVE OpeningInv'
<1>0. /\ opener[p].pc = "script" /\ UNCHANGED <<first, kept>>
      /\ file \in OldFiles /\ file.rows \in SUBSET Rows
      /\ first \in Files /\ first \in OldFiles
      /\ opener[p].next \in 1 .. 10 /\ LegacyTable \notin file.objects
      /\ \A j \in 1 .. (opener[p].next - 1) : Script[j] \in file.objects
  BY FilesAssumption, ScriptObjects
     DEF OpeningInv, FileTypes, ScriptRun, RunStatement, At, OldFiles, Rows
<1> DEFINE i == opener[p].next
<1>1. PICK o :
        /\ opener' = [opener EXCEPT ![p] = o]
        /\ file'.rows = file.rows /\ file'.roots = file.roots
        /\ \/ /\ i \in 1 .. 9 /\ o = [pc |-> "script", next |-> i + 1]
              /\ file' = [file EXCEPT !.objects = @ \cup {Script[i]}]
              /\ file'.objects = file.objects \cup {Script[i]}
              /\ file'.version = file.version
           \/ /\ i = 10 /\ o = [pc |-> "open"]
              /\ file' = [file EXCEPT !.version = SchemaVersion]
              /\ file'.objects = file.objects
              /\ file'.version = SchemaVersion
  <2>1. CASE i <= Len(Script)
    <3>1. i \in 1 .. 9
      BY <1>0, <2>1, ScriptObjects
    <3>2. /\ opener' = [opener EXCEPT ![p] = [pc |-> "script", next |-> i + 1]]
          /\ file' = [file EXCEPT !.objects = @ \cup {Script[i]}]
      BY <2>1 DEF RunStatement, Go
    <3>3. /\ file'.rows = file.rows /\ file'.roots = file.roots /\ file'.version = file.version
          /\ file'.objects = file.objects \cup {Script[i]}
      BY <1>0, <3>2 DEF OldFiles
    <3> QED
      BY <3>1, <3>2, <3>3
  <2>2. CASE ~(i <= Len(Script))
    <3>1. i = 10
      BY <1>0, <2>2, ScriptObjects
    <3>2. /\ opener' = [opener EXCEPT ![p] = [pc |-> "open"]]
          /\ file' = [file EXCEPT !.version = SchemaVersion]
      BY <2>2 DEF RunStatement, Go
    <3>3. /\ file'.rows = file.rows /\ file'.roots = file.roots
          /\ file'.version = SchemaVersion /\ file'.objects = file.objects
      BY <1>0, <3>2 DEF OldFiles
    <3> QED
      BY <3>1, <3>2, <3>3
  <2> QED
    BY <2>1, <2>2
<1>2. /\ file.objects \subseteq file'.objects /\ LegacyTable \notin file'.objects
      /\ file'.objects \subseteq Objects
  BY <1>0, <1>1, ScriptObjects DEF OldFiles
<1>3. FileTypes'
  <2>1. file' \in OldFiles
    BY <1>0, <1>1, <1>2 DEF OldFiles, SchemaVersion
  <2> QED
    BY <1>0, <1>1, <2>1 DEF OpeningInv, FileTypes
<1>4. RowsHold'
  <2>1. CASE Compressed \in file.objects
    <3>1. SnapshotMode(file') = SnapshotMode(file)
      BY <1>2, <2>1 DEF SnapshotMode
    <3> QED
      BY <1>0, <1>1, <1>2, <3>1 DEF OpeningInv, RowsHold, OldRevisions
  <2>2. CASE Compressed \notin file.objects
    <3>1. file.rows = {}
      BY <1>0, <2>2 DEF OpeningInv, RowsHold, SnapshotMode
    <3>2. first.rows = {}
      BY <3>1 DEF OpeningInv, RowsHold, Retabled
    <3>3. Retabled(first.rows, SnapshotMode(file')) = {}
      BY <3>2 DEF Retabled
    <3> QED
      BY <1>0, <1>1, <3>1, <3>3 DEF OpeningInv, RowsHold, OldRevisions
  <2> QED
    BY <2>1, <2>2
<1>5. ~Refused(first)
  BY <1>0 DEF OpeningInv, RefusalHolds, RefusedSoFar
<1>6. \A q \in Openers : ScriptRun(opener[q])'
  <2>1. \A q \in Openers : opener'[q] = IF q = p THEN o ELSE opener[q]
    BY <1>1 DEF OpeningInv, FileTypes
  <2>2. ASSUME NEW q \in Openers, q # p PROVE ScriptRun(opener[q])'
    <3>1. opener'[q] = opener[q] /\ ScriptRun(opener[q])
      BY <2>1, <2>2 DEF OpeningInv
    <3>2. opener[q].pc = "open" => file'.version = SchemaVersion
      BY <1>1, <3>1 DEF ScriptRun
    <3> QED
      BY <1>2, <3>1, <3>2 DEF ScriptRun
  <2>3. ScriptRun(opener[p])'
    <3>1. opener'[p] = o
      BY <2>1
    <3>2. CASE i \in 1 .. 9
      <4>1. o = [pc |-> "script", next |-> i + 1] /\ Script[i] \in file'.objects
        BY <1>1, <3>2
      <4>2. i + 1 \in 1 .. 10 /\ \A j \in 1 .. (i + 1 - 1) : j \in 1 .. (i - 1) \/ j = i
        BY <3>2
      <4> HIDE DEF i
      <4>3. \A j \in 1 .. (i + 1 - 1) : Script[j] \in file'.objects
        BY <1>0, <1>2, <4>1, <4>2 DEF i
      <4> QED
        <5>1. opener'[p].pc = "script" /\ opener'[p].next = i + 1
          BY <3>1, <4>1
        <5>2. Len(Script) + 1 = 10
          BY ScriptObjects
        <5>3. opener'[p].next \in 1 .. Len(Script) + 1
          BY <4>2, <5>1, <5>2
        <5>4. \A j \in 1 .. (opener'[p].next - 1) : Script[j] \in file'.objects
          BY <3>2, <4>3, <5>1
        <5> QED
          BY <1>2, <5>1, <5>3, <5>4 DEF ScriptRun
    <3>3. CASE i = 10
      BY <1>0, <1>1, <1>2, <3>1, <3>3, ScriptObjects DEF ScriptRun
    <3> QED
      BY <1>0, <3>2, <3>3
  <2> QED
    BY <2>2, <2>3
<1> QED
  BY <1>0, <1>3, <1>4, <1>5, <1>6 DEF OpeningInv, RefusalHolds

LEMMA FunctionsAreSequences ==
  ASSUME NEW S, NEW n \in Nat, NEW f \in [1 .. n -> S]
  PROVE  f \in Seq(S)
  BY SeqDef, Zenon

LEMMA CommitKeeps == ASSUME OpeningInv, NEW p \in Openers, StoreRevision(p) PROVE OpeningInv'
<1>0. /\ opener[p].pc = "open" /\ UNCHANGED <<first, opener>>
      /\ file \in OldFiles /\ file.rows \in SUBSET Rows
      /\ first \in Files /\ first \in OldFiles
      /\ Compressed \in file.objects
  <2>1. 4 \in 1 .. 9
    OBVIOUS
  <2> QED
    BY <2>1, FilesAssumption, ScriptObjects
       DEF OpeningInv, FileTypes, ScriptRun, StoreRevision, At, OldFiles, Rows
<1> DEFINE r == Cardinality(DOMAIN file.roots) + 1
<1>1. PICK names \in SUBSET Names : \E texts \in [names -> {t \in Texts : Compresses(t)}] :
         LET rows == {Row(Compressed, r, n, texts[n], texts[n]) : n \in names}
         IN  /\ file' = [file EXCEPT !.rows = @ \cup rows,
                   !.roots = [q \in DOMAIN @ \cup {r} |->
                      IF q = r THEN {<<n, texts[n]>> : n \in names} ELSE @[q]]]
             /\ kept' = kept \cup Content(rows)
  BY DEF StoreRevision
<1>2. PICK texts \in [names -> {t \in Texts : Compresses(t)}] :
         LET rows == {Row(Compressed, r, n, texts[n], texts[n]) : n \in names}
         IN  /\ file' = [file EXCEPT !.rows = @ \cup rows,
                   !.roots = [q \in DOMAIN @ \cup {r} |->
                      IF q = r THEN {<<n, texts[n]>> : n \in names} ELSE @[q]]]
             /\ kept' = kept \cup Content(rows)
  BY <1>1
<1> DEFINE rows == {Row(Compressed, r, n, texts[n], texts[n]) : n \in names}
           root == {<<n, texts[n]>> : n \in names}
<1> DEFINE k == Len(file.roots)
<1>3. /\ k \in Nat /\ DOMAIN file.roots = 1 .. k
      /\ file.roots \in [1 .. k -> SUBSET (Names \X Texts)]
  <2>1. file.roots \in Seq(SUBSET (Names \X Texts))
    BY <1>0 DEF OldFiles
  <2> QED
    BY <2>1, LenProperties
<1>4. r = k + 1 /\ r \notin DOMAIN file.roots
  <2>1. Cardinality(1 .. k) = k
    BY <1>3, FS_Interval
  <2> QED
    BY <1>3, <2>1
<1> HIDE DEF k
<1>5. /\ file'.objects = file.objects /\ file'.version = file.version
      /\ file'.related = file.related
      /\ file'.rows = file.rows \cup rows
      /\ DOMAIN file'.roots = DOMAIN file.roots \cup {r}
      /\ file'.roots = [q \in DOMAIN file.roots \cup {r} |-> IF q = r THEN root ELSE file.roots[q]]
      /\ \A q \in DOMAIN file.roots : file'.roots[q] = file.roots[q]
  BY <1>0, <1>2, <1>4 DEF OldFiles
<1>6. \A row \in rows : row \in Rows /\ row.table = Compressed /\ row.revision = r
  <2>1. ASSUME NEW n \in names
        PROVE  /\ Row(Compressed, r, n, texts[n], texts[n]) \in Rows
               /\ Row(Compressed, r, n, texts[n], texts[n]).table = Compressed
               /\ Row(Compressed, r, n, texts[n], texts[n]).revision = r
    BY <1>3, <1>4 DEF Row, Rows
  <2> QED
    BY <2>1
<1>7. FileTypes'
  <2>1. file'.rows \in SUBSET Rows
    BY <1>0, <1>5, <1>6
  <2>2. root \in SUBSET (Names \X Texts)
    OBVIOUS
  <2>3. file'.roots \in [1 .. (k + 1) -> SUBSET (Names \X Texts)]
    <3>1. 1 .. (k + 1) = 1 .. k \cup {r}
      BY <1>3, <1>4
    <3> HIDE DEF root, r
    <3> QED
      BY <1>3, <1>4, <1>5, <2>2, <3>1
  <2>4. file'.roots \in Seq(SUBSET (Names \X Texts))
    BY <1>3, <2>3, FunctionsAreSequences
  <2>5. file' \in OldFiles
    BY <1>0, <1>2, <1>5, <2>1, <2>4 DEF OldFiles, Rows
  <2> QED
    BY <1>0, <2>5 DEF OpeningInv, FileTypes
<1> HIDE DEF rows, root, r
<1>8. SnapshotMode(file') = SnapshotMode(file) /\ SnapshotMode(file) = Compressed
  BY <1>0, <1>5 DEF SnapshotMode
<1>9. RowsHold'
  <2>1. \A row \in file'.rows :
          /\ row.table = Compressed /\ row.table \in file'.objects
          /\ row.revision \in DOMAIN file'.roots
    BY <1>0, <1>5, <1>6, <1>8 DEF OpeningInv, RowsHold
  <2>2. {row \in file'.rows : row.revision \in OldRevisions}
          = {row \in file.rows : row.revision \in OldRevisions}
    BY <1>4, <1>5, <1>6 DEF OpeningInv, RowsHold
  <2>3. Content(file'.rows) = Content(file.rows) \cup Content(rows)
    BY <1>5 DEF Content
  <2>4. kept' = kept \cup Content(rows)
    BY <1>2 DEF rows, r
  <2>5. OldRevisions' = OldRevisions
    BY <1>0 DEF OldRevisions
  <2>6. /\ OldRevisions \subseteq DOMAIN file'.roots
        /\ \A q \in OldRevisions : file'.roots[q] = first'.roots[q]
    BY <1>0, <1>5 DEF OpeningInv, RowsHold
  <2> QED
    BY <1>0, <1>8, <2>1, <2>2, <2>3, <2>4, <2>5, <2>6 DEF OpeningInv, RowsHold
<1>10. ~Refused(first)
  BY <1>0 DEF OpeningInv, RefusalHolds, RefusedSoFar
<1>11. \A q \in Openers : ScriptRun(opener[q])'
  BY <1>0, <1>5 DEF OpeningInv, ScriptRun
<1> QED
  BY <1>0, <1>7, <1>9, <1>10, <1>11 DEF OpeningInv, RefusalHolds

LEMMA OpeningInvNext == OpeningInv /\ [OpeningNext]_dbVars => OpeningInv'
<1> SUFFICES ASSUME OpeningInv, [OpeningNext]_dbVars PROVE OpeningInv'
  OBVIOUS
<1>1. CASE OpeningNext
  BY <1>1, InspectionKeeps, FindKeeps, MigrateKeeps, ScriptKeeps, CommitKeeps DEF OpeningNext
<1>2. CASE UNCHANGED dbVars
  BY <1>2 DEF dbVars, OpeningInv, FileTypes, RowsHold, ScriptRun, RefusalHolds, RefusedSoFar,
     OldRevisions
<1> QED
  BY <1>1, <1>2

------------------------------------------------------------------------------
\* A revision that loads from where it was found loads after it has moved.
LEMMA LoadsMoved ==
  ASSUME OpeningInv, ~Refused(first), Compressed \in file.objects,
         NEW q \in OldRevisions, Loads(first, q, SnapshotMode(first))
  PROVE  Loads(file, q, Compressed)
<1> DEFINE mode   == SnapshotMode(first)
           before == {row \in first.rows : row.table = mode /\ row.revision = q}
           after  == {row \in file.rows : row.table = Compressed /\ row.revision = q}
<1>1. /\ first \in Files /\ first.rows \in SUBSET Rows /\ SnapshotMode(file) = Compressed
      /\ file.roots[q] = first.roots[q]
  BY FilesAssumption DEF OpeningInv, FileTypes, RowsHold, OldFiles, Rows, SnapshotMode
<1>2. \A row \in first.rows : row.table = mode /\ row.table \in first.objects
  BY <1>1, FilesAssumption
<1>3. ASSUME NEW row \in before
      PROVE  \E moved \in after : moved.name = row.name /\ moved.text = row.text
  <2> DEFINE moved == [row EXCEPT !.table = Compressed]
  <2>1. moved \in Retabled(first.rows, SnapshotMode(file))
    BY <1>1 DEF Retabled
  <2>2. /\ moved.table = Compressed /\ moved.revision = row.revision
        /\ moved.name = row.name /\ moved.text = row.text
    BY <1>1 DEF Rows
  <2>3. moved \in file.rows
    BY <2>1 DEF OpeningInv, RowsHold
  <2> QED
    BY <2>2, <2>3
<1>4. ASSUME NEW moved \in after
      PROVE  \E row \in before :
               moved.name = row.name /\ moved.text = row.text /\ moved.hash = row.hash
  <2>1. moved \in Retabled(first.rows, Compressed)
    BY <1>1 DEF OpeningInv, RowsHold
  <2>2. PICK row \in first.rows : moved = [row EXCEPT !.table = Compressed]
    BY <2>1 DEF Retabled
  <2>3. /\ moved.revision = row.revision
        /\ moved.name = row.name /\ moved.text = row.text /\ moved.hash = row.hash
    BY <1>1, <2>2 DEF Rows
  <2> QED
    BY <1>2, <2>3
<1>5. {<<row.name, row.text>> : row \in after} = {<<row.name, row.text>> : row \in before}
  BY <1>3, <1>4
<1>6. \A row \in before : Decodes(row) /\ Packed[row.text] <= PackedLimit
  <2>1. \A row \in before : Decodes(row)
    BY DEF Loads
  <2>2. ASSUME NEW row \in before PROVE Packed[row.text] <= PackedLimit
    <3>1. CASE mode = Compressed
      BY <2>1, <3>1 DEF Decodes
    <3>2. CASE mode = LegacyTable
      <4>1. LegacyTable \in first.objects
        BY <1>2, <3>2
      <4> QED
        BY <4>1 DEF Refused, Compresses
    <3> QED
      BY <3>1, <3>2 DEF SnapshotMode
  <2> QED
    BY <2>1, <2>2
<1>7. \A moved \in after : Decodes(moved)
  <2>1. ASSUME NEW moved \in after PROVE Decodes(moved)
    <3>1. PICK row \in before :
            moved.name = row.name /\ moved.text = row.text /\ moved.hash = row.hash
      BY <1>4
    <3> QED
      BY <1>6, <3>1 DEF Decodes
  <2> QED
    BY <2>1
<1>8. /\ Cardinality({<<row.name, row.text>> : row \in before}) <= ModuleLimit
      /\ TotalSize({<<row.name, row.text>> : row \in before}) <= RevisionLimit
      /\ {<<row.name, row.text>> : row \in before} = first.roots[q]
  BY DEF Loads
<1> HIDE DEF before, after
<1>9. /\ Cardinality({<<row.name, row.text>> : row \in after}) <= ModuleLimit
      /\ TotalSize({<<row.name, row.text>> : row \in after}) <= RevisionLimit
      /\ {<<row.name, row.text>> : row \in after} = file.roots[q]
  BY <1>1, <1>5, <1>8
<1> QED
  BY <1>7, <1>9 DEF Loads, after

LEMMA OpeningInvImplies == OpeningInv => DataOutlastsOpening
<1> SUFFICES ASSUME OpeningInv PROVE DataOutlastsOpening
  OBVIOUS
<1>1. SnapshotsKept
  BY DEF OpeningInv, RowsHold, SnapshotsKept
<1>2. Refused(first) => file = first
  BY DEF OpeningInv, RefusalHolds
<1>3. ASSUME NEW p \in Openers, At(p, "open")
      PROVE  /\ file.version = SchemaVersion
             /\ {Script[i] : i \in DOMAIN Script} \subseteq file.objects
             /\ LegacyTable \notin file.objects
             /\ first.version < SchemaVersion =>
                  \A revision \in DOMAIN first.roots : Loads(file, revision, Compressed)
  <2>1. /\ file.version = SchemaVersion /\ LegacyTable \notin file.objects
        /\ \A i \in 1 .. 9 : Script[i] \in file.objects
    BY <1>3, ScriptObjects DEF OpeningInv, ScriptRun, At
  <2>2. ~Refused(first)
    BY <1>3 DEF OpeningInv, RefusalHolds, RefusedSoFar, At
  <2>3. Compressed \in file.objects
    <3>1. 4 \in 1 .. 9
      OBVIOUS
    <3> QED
      BY <2>1, <3>1, ScriptObjects
  <2>4. ASSUME first.version < SchemaVersion, NEW revision \in DOMAIN first.roots
        PROVE  Loads(file, revision, Compressed)
    <3>1. "revisions" \in first.objects
      BY FilesAssumption DEF OpeningInv, FileTypes
    <3>2. Loads(first, revision, SnapshotMode(first))
      BY <2>2, <2>4, <3>1 DEF Refused
    <3> QED
      BY <2>2, <2>3, <3>2, LoadsMoved DEF OldRevisions
  <2> QED
    BY <2>1, <2>4, ScriptObjects
<1> QED
  BY <1>1, <1>2, <1>3 DEF DataOutlastsOpening, OpenedOrUntouched

\* However many processes open a database of any release, write to it and die,
\* at whatever point: what it held is still in it, or the opening was refused
\* and has changed nothing (connection, initialize_database).
THEOREM DatabasesOutlastOpening == OpeningSpec => []DataOutlastsOpening
<1>1. OpeningInit => OpeningInv
  BY OpeningInvInit
<1>2. OpeningInv /\ [OpeningNext]_dbVars => OpeningInv'
  BY OpeningInvNext
<1>3. OpeningInv => DataOutlastsOpening
  BY OpeningInvImplies
<1> QED
  BY <1>1, <1>2, <1>3, PTL DEF OpeningSpec

==============================================================================
