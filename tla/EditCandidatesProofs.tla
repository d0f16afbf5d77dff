------------------------- MODULE EditCandidatesProofs -------------------------
(****************************************************************************)
(* Proofs about edit candidates, for any number of processes, candidates,   *)
(* qualifications, projects, branches and revisions.                        *)
(*                                                                          *)
(* The inductive invariant is CandidatesInv.  A call works from what it     *)
(* read in an earlier step, so the invariant says, besides what every       *)
(* candidate is (RowOK), what every call still may rely on (CallOK): that   *)
(* its candidate exists, that the base it was told to expect is one the     *)
(* service allows, and that the qualification it saw is on record.          *)
(****************************************************************************)
EXTENDS EditCandidates, RevisionLogProofs

\* The edits in force lead from the base to the head, first parent by first parent.
EditsLead(row) ==
  /\ \A n \in DOMAIN row.edits : row.edits[n] \in RevIds
  /\ row.edits = << >> => row.head = row.base
  /\ row.edits # << >> =>
        /\ row.head = row.edits[Len(row.edits)]
        /\ revs[row.edits[1]].parent1 = row.base
  /\ \A n \in 1 .. (Len(row.edits) - 1) :
        revs[row.edits[n + 1]].parent1 = row.edits[n]

\* A candidate's revisions are its project's, and the head descends from the base.
RowOK(row) ==
  /\ row.base \in RevIds /\ revs[row.base].project = row.project
  /\ row.head \in RevIds /\ revs[row.head].project = row.project
  /\ OnFirstParentHistory(row.base, row.head)
  /\ EditsLead(row)
  /\ (row.status = "published") <=> (row.published # NoRev)

Opening(call) == call.pc = "ready" /\ call.op \in {"open", "replay"}

OnCandidate(call) == call.pc # "idle" /\ ~Opening(call)

\* A passing qualification of level `level` for revision r of candidate i.
QualifiedAt(i, r, level) ==
  \E q \in Range(qualifications) :
     q.candidate = i /\ q.revision = r /\ q.level = level /\ q.status = "passed"

CallOK(call) ==
  /\ Opening(call) =>
        /\ call.name \in Names
        /\ call.base \in RevIds
        /\ revs[call.base].project = call.key[1]
  /\ OnCandidate(call) =>
        /\ call.candidate \in DOMAIN candidates
        /\ call.head \in RevIds
        /\ call.op = "publish" =>
             /\ call.key[1] = candidates[call.candidate].project
             /\ ~CallerBases => call.base = candidates[call.candidate].base
  /\ call.pc = "candidate" => call.op = "replay"
  /\ call.pc = "qualification" => call.op = "publish"
  /\ call.pc = "ready" /\ call.op = "publish" /\ call.level # NoLevel =>
        QualifiedAt(call.candidate, call.head, call.level)

CandidatesInv ==
  /\ LogInv
  /\ candidates \in Seq(Candidate)
  /\ qualifications \in Seq(Qualification)
  /\ calls \in [Clients -> Call]
  /\ \A i \in DOMAIN candidates : RowOK(candidates[i])
  /\ \A c \in Clients : CallOK(calls[c])

------------------------------------------------------------------------------
(* What a step leaves alone                                                 *)

\* A candidate that a step leaves alone stays what it should be.
LEMMA RowKept ==
  ASSUME LogInv, LogGrows, NEW row \in Candidate, RowOK(row)
  PROVE  RowOK(row)'
  <1>1. /\ row.base \in RevIds' /\ revs'[row.base].project = row.project
        /\ row.head \in RevIds' /\ revs'[row.head].project = row.project
    BY DEF RowOK, LogGrows
  <1>2. OnFirstParentHistory(row.base, row.head)'
    BY FirstParentGrows DEF RowOK
  <1>3. EditsLead(row)'
    <2>1. row.edits \in Seq(Nat) /\ Len(row.edits) \in Nat
          /\ DOMAIN row.edits = 1 .. Len(row.edits)
      BY DEF Candidate
    <2>2. \A n \in DOMAIN row.edits : row.edits[n] \in RevIds /\ row.edits[n] \in RevIds'
      BY DEF RowOK, EditsLead, LogGrows
    <2>3. row.edits # << >> => 1 \in DOMAIN row.edits
      BY <2>1
    <2>4. row.edits # << >> => revs'[row.edits[1]].parent1 = row.base
      BY <2>2, <2>3 DEF RowOK, EditsLead, LogGrows
    <2>5. \A n \in 1 .. (Len(row.edits) - 1) :
             revs'[row.edits[n + 1]].parent1 = row.edits[n]
      <3>1. TAKE n \in 1 .. (Len(row.edits) - 1)
      <3>2. n + 1 \in DOMAIN row.edits
        BY <2>1
      <3>3. revs'[row.edits[n + 1]] = revs[row.edits[n + 1]]
        BY <2>2, <3>2 DEF LogGrows
      <3>4. QED
        BY <3>3 DEF RowOK, EditsLead
    <2>6. QED
      BY <2>2, <2>4, <2>5 DEF RowOK, EditsLead
  <1>4. QED
    BY <1>1, <1>2, <1>3 DEF RowOK

\* No candidate changes its project or its base, and no qualification is removed.
TablesGrow ==
  /\ DOMAIN candidates \subseteq DOMAIN candidates'
  /\ \A i \in DOMAIN candidates : /\ candidates'[i].project = candidates[i].project
                                 /\ candidates'[i].base = candidates[i].base
  /\ Range(qualifications) \subseteq Range(qualifications')

\* Then a call that a step leaves alone may rely on what it could rely on before.
LEMMA CallKept ==
  ASSUME LogGrows, TablesGrow, NEW call \in Call, CallOK(call)
  PROVE  CallOK(call)'
  <1>1. Opening(call) => /\ call.name \in Names
                         /\ call.base \in RevIds'
                         /\ revs'[call.base].project = call.key[1]
    BY DEF CallOK, LogGrows
  <1>2. OnCandidate(call) =>
          /\ call.candidate \in DOMAIN candidates'
          /\ call.head \in RevIds'
          /\ call.op = "publish" =>
               /\ call.key[1] = candidates'[call.candidate].project
               /\ ~CallerBases => call.base = candidates'[call.candidate].base
    BY DEF CallOK, LogGrows, TablesGrow
  <1>3. ASSUME QualifiedAt(call.candidate, call.head, call.level)
        PROVE  QualifiedAt(call.candidate, call.head, call.level)'
    BY <1>3 DEF QualifiedAt, TablesGrow
  <1>4. QED
    BY <1>1, <1>2, <1>3 DEF CallOK, Opening, OnCandidate

------------------------------------------------------------------------------
(* What the steps do to the log                                             *)

\* The other tools' operations are operations of the log.
LEMMA ElsewhereIsLogStep ==
  ASSUME Elsewhere
  PROVE  LogNext
  BY DEF Elsewhere, LogNext

LEMMA ElsewhereGrows ==
  ASSUME LogInv, Elsewhere
  PROVE  LogInv' /\ LogGrows
  BY ElsewhereIsLogStep, LogInvStep, RevisionsKept DEF LogGrows

------------------------------------------------------------------------------
(* What the steps do to the tables                                          *)

\* One row is replaced.
LEMMA RowReplaced ==
  ASSUME candidates \in Seq(Candidate), NEW i \in DOMAIN candidates,
         NEW row \in Candidate, candidates' = [candidates EXCEPT ![i] = row]
  PROVE  /\ candidates' \in Seq(Candidate)
         /\ DOMAIN candidates' = DOMAIN candidates
         /\ candidates'[i] = row
         /\ \A j \in DOMAIN candidates : j # i => candidates'[j] = candidates[j]
  OBVIOUS

\* A call returns or continues.
LEMMA CallReplaced ==
  ASSUME calls \in [Clients -> Call], NEW c \in Clients, NEW call \in Call,
         Continue(c, call)
  PROVE  /\ calls' \in [Clients -> Call]
         /\ calls'[c] = call
         /\ \A d \in Clients : d # c => calls'[d] = calls[d]
  BY DEF Continue

LEMMA IdleOK ==
  /\ Idle \in Call
  /\ CallOK(Idle)
  /\ CallOK(Idle)'
  <1>1. PICK p \in Projects : <<p, Main>> \in Keys
    BY ConstantsAssumption DEF Keys
  <1>2. SomeKey \in Keys
    BY <1>1 DEF SomeKey
  <1>3. Idle \in Call
    BY <1>2 DEF Idle, Call, Operations, NoRev
  <1>4. QED
    BY <1>3 DEF CallOK, Opening, OnCandidate, Idle

\* The candidates and the calls that a step leaves alone, together: what remains
\* to be shown of a step is the row and the call that it writes.
LEMMA InvFromParts ==
  ASSUME CandidatesInv, LogGrows, LogInv', TablesGrow,
         candidates' \in Seq(Candidate), qualifications' \in Seq(Qualification),
         NEW c \in Clients, NEW call \in Call, Continue(c, call), CallOK(call)',
         NEW i, \A j \in DOMAIN candidates' \ {i} :
                   j \in DOMAIN candidates /\ candidates'[j] = candidates[j],
         i \in DOMAIN candidates' => RowOK(candidates[i])'
  PROVE  CandidatesInv'
  <1>1. \A j \in DOMAIN candidates' : RowOK(candidates[j])'
    <2>1. ASSUME NEW j \in DOMAIN candidates', j # i PROVE RowOK(candidates[j])'
      <3>1. PICK row \in Candidate : row = candidates[j] /\ RowOK(row)
        BY <2>1 DEF CandidatesInv
      <3>2. RowOK(row)'
        BY <3>1, RowKept DEF CandidatesInv
      <3>3. candidates'[j] = row
        BY <2>1, <3>1
      <3>4. QED
        BY <3>2, <3>3
    <2>2. QED
      BY <2>1
  <1>2. calls' \in [Clients -> Call] /\ calls'[c] = call
        /\ \A d \in Clients : d # c => calls'[d] = calls[d]
    BY CallReplaced DEF CandidatesInv
  <1>3. \A d \in Clients : CallOK(calls[d])'
    <2>1. ASSUME NEW d \in Clients, d # c PROVE CallOK(calls[d])'
      <3>1. PICK other \in Call : other = calls[d] /\ CallOK(other)
        BY DEF CandidatesInv
      <3>2. CallOK(other)'
        BY <3>1, CallKept
      <3>3. calls'[d] = other
        BY <1>2, <2>1, <3>1
      <3>4. QED
        BY <3>2, <3>3
    <2>2. QED
      BY <1>2, <2>1
  <1>4. QED
    BY <1>1, <1>2, <1>3 DEF CandidatesInv

\* The same for a step of the call alone.
LEMMA OnlyCall ==
  ASSUME CandidatesInv, UNCHANGED <<revs, heads, documents, candidates, qualifications>>,
         NEW c \in Clients, NEW call \in Call, Continue(c, call), CallOK(call)
  PROVE  CandidatesInv'
  <1>1. LogGrows /\ TablesGrow
    BY DEF LogGrows, TablesGrow, RevIds, Range
  <1>2. LogInv'
    BY DEF CandidatesInv, LogInv, LogTypeOK, ProjectClosed, RevIds
  <1>3. CallOK(call)'
    BY <1>1, CallKept
  <1>4. /\ candidates' \in Seq(Candidate) /\ qualifications' \in Seq(Qualification)
        /\ 0 \notin DOMAIN candidates'
        /\ \A j \in DOMAIN candidates' \ {0} :
              j \in DOMAIN candidates /\ candidates'[j] = candidates[j]
    BY DEF CandidatesInv
  <1>5. QED
    BY <1>1, <1>2, <1>3, <1>4, InvFromParts

------------------------------------------------------------------------------
(* The steps                                                                *)

LEMMA StartOpenStep ==
  ASSUME CandidatesInv, NEW c \in Clients, NEW k \in Keys, NEW name \in Names,
         NEW op \in {"open", "replay"}, StartOpen(c, k, name, op)
  PROVE  CandidatesInv'
  <1>1. PICK base \in {heads[k]} \cup {r \in RevIds : revs[r].project = k[1]} :
           Reads(c, [Idle EXCEPT !.pc = "ready", !.op = op, !.key = k, !.name = name,
                                 !.base = base])
    BY DEF StartOpen
  <1>2. base \in RevIds /\ revs[base].project = k[1]
    BY DEF StartOpen, CandidatesInv, LogInv, ProjectClosed
  <1> DEFINE call == [Idle EXCEPT !.pc = "ready", !.op = op, !.key = k, !.name = name,
                                  !.base = base]
  <1>3. base \in Nat
    BY <1>2 DEF RevIds
  <1>4. call \in Call
    BY <1>3, IdleOK DEF Call, Operations
  <1>5. /\ call.pc = "ready" /\ call.op = op /\ call.key = k /\ call.name = name
        /\ call.base = base
    BY DEF Idle
  <1> HIDE DEF call
  <1>6. CallOK(call)
    BY <1>2, <1>5 DEF CallOK, Opening, OnCandidate
  <1>7. QED
    BY <1>1, <1>4, <1>6, OnlyCall DEF Reads, call

LEMMA StartOnStep ==
  ASSUME CandidatesInv, NEW c \in Clients, NEW i \in DOMAIN candidates, StartOn(c, i)
  PROVE  CandidatesInv'
  <1>1. PICK row \in Candidate : row = candidates[i] /\ RowOK(row)
    BY DEF CandidatesInv
  <1> DEFINE call == [Idle EXCEPT !.pc = "ready", !.op = "any", !.candidate = i,
                                  !.head = row.head]
  <1>2. i \in Nat /\ row.head \in Nat /\ row.head \in RevIds
    BY <1>1 DEF CandidatesInv, Candidate, RowOK
  <1>3. call \in Call
    BY <1>2, IdleOK DEF Call, Operations
  <1>4. call.pc = "ready" /\ call.op = "any" /\ call.candidate = i /\ call.head = row.head
    BY DEF Idle
  <1>5. Reads(c, call)
    BY <1>1 DEF StartOn
  <1> HIDE DEF call
  <1>6. CallOK(call)
    BY <1>2, <1>4 DEF CallOK, Opening, OnCandidate
  <1>7. QED
    BY <1>3, <1>5, <1>6, OnlyCall DEF Reads

LEMMA StartPublishStep ==
  ASSUME CandidatesInv, NEW c \in Clients, NEW i \in DOMAIN candidates,
         NEW branch \in Branches, NEW level \in Levels \cup {NoLevel},
         StartPublish(c, i, branch, level)
  PROVE  CandidatesInv'
  <1>1. PICK row \in Candidate : row = candidates[i] /\ RowOK(row)
    BY DEF CandidatesInv
  <1>2. PICK base \in RequiredBases(i) :
           Reads(c, [Idle EXCEPT !.pc = IF level = NoLevel THEN "ready" ELSE "qualification",
                                 !.op = "publish", !.candidate = i, !.level = level,
                                 !.key = <<row.project, branch>>,
                                 !.base = base, !.head = row.head])
    BY <1>1 DEF StartPublish
  <1> DEFINE pc == IF level = NoLevel THEN "ready" ELSE "qualification"
             call == [Idle EXCEPT !.pc = pc, !.op = "publish", !.candidate = i,
                                  !.level = level, !.key = <<row.project, branch>>,
                                  !.base = base, !.head = row.head]
  <1>3. base \in RevIds /\ (~CallerBases => base = row.base)
    BY <1>1 DEF RequiredBases, RowOK
  <1>4. i \in Nat /\ row.head \in Nat /\ row.head \in RevIds /\ base \in Nat
    <2> HIDE DEF pc, call
    <2>1. i \in Nat
      BY DEF CandidatesInv
    <2>2. row.head \in Nat /\ row.head \in RevIds
      BY <1>1 DEF Candidate, RowOK
    <2>3. base \in Nat
      BY <1>3 DEF RevIds
    <2>4. QED
      BY <2>1, <2>2, <2>3
  <1>5. <<row.project, branch>> \in Keys
    BY DEF Candidate, Keys
  <1>6. pc \in {"ready", "qualification"} /\ (pc = "ready" => level = NoLevel)
    OBVIOUS
  <1> HIDE DEF pc
  <1>7. call \in Call
    BY <1>4, <1>5, <1>6, IdleOK DEF Call, Operations
  <1>8. /\ call.pc = pc /\ call.op = "publish" /\ call.candidate = i
        /\ call.level = level /\ call.key = <<row.project, branch>>
        /\ call.base = base /\ call.head = row.head
    BY DEF Idle
  <1>9. Reads(c, call)
    BY <1>2 DEF pc
  <1> HIDE DEF call
  <1>10. call.key[1] = candidates[i].project /\ (~CallerBases => call.base = candidates[i].base)
    BY <1>1, <1>3, <1>8
  <1>11. CallOK(call)
    BY <1>4, <1>6, <1>8, <1>10 DEF CallOK, Opening, OnCandidate
  <1>12. QED
    BY <1>7, <1>9, <1>11, OnlyCall DEF Reads

LEMMA ReadReplayedStep ==
  ASSUME CandidatesInv, NEW c \in Clients, ReadReplayed(c)
  PROVE  CandidatesInv'
  <1>1. PICK call \in Call : call = calls[c] /\ CallOK(call)
    BY DEF CandidatesInv
  <1> DEFINE next == [call EXCEPT !.pc = "ready", !.op = "apply"]
  <1>2. next \in Call
    BY DEF Call, Operations
  <1>3. /\ next.pc = "ready" /\ next.op = "apply"
        /\ next.candidate = call.candidate /\ next.head = call.head
    BY DEF Call
  <1>4. call.pc = "candidate" /\ Reads(c, next)
    BY <1>1 DEF ReadReplayed
  <1> HIDE DEF next
  <1>5. CallOK(next)
    BY <1>1, <1>3, <1>4 DEF CallOK, Opening, OnCandidate
  <1>6. QED
    BY <1>2, <1>4, <1>5, OnlyCall DEF Reads

LEMMA ReadQualificationStep ==
  ASSUME CandidatesInv, NEW c \in Clients, ReadQualification(c)
  PROVE  CandidatesInv'
  <1>1. PICK call \in Call : call = calls[c] /\ CallOK(call)
    BY DEF CandidatesInv
  <1> DEFINE next == [call EXCEPT !.pc = "ready"]
  <1>2. next \in Call
    BY DEF Call, Operations
  <1>3. /\ next.pc = "ready" /\ next.op = call.op /\ next.base = call.base
        /\ next.candidate = call.candidate /\ next.head = call.head
        /\ next.level = call.level /\ next.key = call.key
    BY DEF Call
  <1>4. call.pc = "qualification" /\ call.op = "publish" /\ Reads(c, next)
    BY <1>1 DEF ReadQualification, CallOK
  <1>5. QualifiedAt(call.candidate, call.head, call.level)
    BY <1>1 DEF ReadQualification, QualifiedAt, Range
  <1> HIDE DEF next
  <1>6. CallOK(next)
    BY <1>1, <1>3, <1>4, <1>5 DEF CallOK, Opening, OnCandidate
  <1>7. QED
    BY <1>2, <1>4, <1>6, OnlyCall DEF Reads

LEMMA FailStep ==
  ASSUME CandidatesInv, NEW c \in Clients, Fail(c)
  PROVE  CandidatesInv'
  BY IdleOK, OnlyCall DEF Fail, Return

LEMMA OpenStep ==
  ASSUME CandidatesInv, NEW c \in Clients, Open(c)
  PROVE  CandidatesInv'
  <1>1. PICK call \in Call : call = calls[c] /\ CallOK(call)
    BY DEF CandidatesInv
  <1>2. PICK i \in Nat : i = Len(candidates) + 1
    BY DEF CandidatesInv
  <1> DEFINE row == [project |-> call.key[1], name |-> call.name,
                     base |-> call.base, head |-> call.base, status |-> "open",
                     branch |-> NoBranch, published |-> NoRev,
                     edits |-> << >>, required |-> NoLevel]
             next == IF call.op = "open" THEN Idle
                     ELSE [Idle EXCEPT !.pc = "candidate", !.op = "replay",
                                       !.candidate = i, !.head = call.base]
  <1>3. /\ call.name \in Names /\ call.base \in RevIds
        /\ revs[call.base].project = call.key[1] /\ call.key \in Keys
    BY <1>1 DEF Open, CallOK, Opening, Call
  <1>4. row \in Candidate
    BY <1>3 DEF Candidate, Keys, RevIds, NoRev
  <1>5. candidates' = Append(candidates, row) /\ Continue(c, next)
    BY <1>2, <1>1 DEF Open, Return
  <1>6. /\ row.base = call.base /\ row.head = call.base /\ row.project = call.key[1]
        /\ row.edits = << >> /\ row.status = "open" /\ row.published = NoRev
    OBVIOUS
  <1> HIDE DEF row
  <1>7. RowOK(row)
    <2>1. EditsLead(row)
      BY <1>6 DEF EditsLead
    <2>2. QED
      BY <1>3, <1>6, <2>1, FirstParentReflexive DEF RowOK
  <1>8. candidates' \in Seq(Candidate) /\ DOMAIN candidates' = DOMAIN candidates \cup {i}
        /\ candidates'[i] = row
        /\ \A j \in DOMAIN candidates : candidates'[j] = candidates[j]
    BY <1>2, <1>4, <1>5 DEF CandidatesInv
  <1>9. LogGrows /\ TablesGrow /\ LogInv' /\ qualifications' \in Seq(Qualification)
    BY <1>8 DEF Open, LogGrows, TablesGrow, RevIds, Range, CandidatesInv, LogInv,
                LogTypeOK, ProjectClosed
  <1>10. RowOK(row)'
    BY <1>4, <1>7, <1>9, RowKept DEF CandidatesInv
  <1>11. next \in Call /\ CallOK(next)'
    <2>1. CASE call.op = "open"
      BY <2>1, IdleOK
    <2>2. CASE call.op # "open"
      <3> DEFINE again == [Idle EXCEPT !.pc = "candidate", !.op = "replay",
                                       !.candidate = i, !.head = call.base]
      <3>1. again \in Call
        BY <1>3, IdleOK DEF Call, Operations, RevIds
      <3>2. /\ again.pc = "candidate" /\ again.op = "replay" /\ again.candidate = i
            /\ again.head = call.base
        BY DEF Idle
      <3> HIDE DEF again
      <3>3. call.base \in RevIds' /\ i \in DOMAIN candidates'
        BY <1>3, <1>8, <1>9 DEF LogGrows
      <3>4. CallOK(again)'
        BY <3>2, <3>3 DEF CallOK, Opening, OnCandidate
      <3>5. QED
        BY <2>2, <3>1, <3>4 DEF again
    <2>3. QED
      BY <2>1, <2>2
  <1> HIDE DEF next
  <1>12. /\ \A j \in DOMAIN candidates' \ {i} :
               j \in DOMAIN candidates /\ candidates'[j] = candidates[j]
         /\ RowOK(candidates[i])'
    BY <1>8, <1>10
  <1>13. QED
    BY <1>5, <1>8, <1>9, <1>11, <1>12, InvFromParts

\* A step that writes one row and returns: what remains to be shown.
LEMMA OneRow ==
  ASSUME CandidatesInv, LogGrows, LogInv', NEW c \in Clients, Return(c),
         qualifications' = qualifications,
         NEW i \in DOMAIN candidates, NEW row \in Candidate,
         candidates' = [candidates EXCEPT ![i] = row],
         row.project = candidates[i].project, row.base = candidates[i].base,
         RowOK(row)'
  PROVE  CandidatesInv'
  <1>1. /\ candidates' \in Seq(Candidate)
        /\ DOMAIN candidates' = DOMAIN candidates
        /\ candidates'[i] = row
        /\ \A j \in DOMAIN candidates : j # i => candidates'[j] = candidates[j]
    BY RowReplaced DEF CandidatesInv
  <1>2. TablesGrow
    BY <1>1 DEF TablesGrow, Range
  <1>3. Continue(c, Idle) /\ Idle \in Call /\ CallOK(Idle)'
    BY IdleOK DEF Return
  <1>4. RowOK(candidates[i])'
    BY <1>1
  <1>5. qualifications' \in Seq(Qualification)
    BY DEF CandidatesInv
  <1>6. PICK idle \in Call : idle = Idle /\ Continue(c, idle) /\ CallOK(idle)'
    BY <1>3
  <1>7. QED
    BY <1>1, <1>2, <1>4, <1>5, <1>6, InvFromParts

\* One more edit on top of the head.
LEMMA EditAppended ==
  ASSUME NEW row \in Candidate, EditsLead(row)', NEW n \in RevIds',
         revs'[n].parent1 = row.head, NEW next \in Candidate,
         next.base = row.base, next.head = n, next.edits = Append(row.edits, n)
  PROVE  EditsLead(next)'
  <1>1. row.edits \in Seq(Nat) /\ Len(row.edits) \in Nat /\ n \in Nat
        /\ DOMAIN row.edits = 1 .. Len(row.edits)
    BY DEF Candidate, RevIds
  <1>2. /\ Len(next.edits) = Len(row.edits) + 1
        /\ next.edits[Len(row.edits) + 1] = n
        /\ \A j \in 1 .. Len(row.edits) : next.edits[j] = row.edits[j]
        /\ DOMAIN next.edits = 1 .. (Len(row.edits) + 1)
    BY <1>1
  <1>3. \A j \in DOMAIN next.edits : next.edits[j] \in RevIds'
    BY <1>1, <1>2 DEF EditsLead
  <1>4. next.head = next.edits[Len(next.edits)] /\ next.edits # << >>
    <2>1. next.edits \in Seq(Nat) /\ Len(next.edits) # 0
      BY <1>1, <1>2 DEF Candidate
    <2>2. QED
      BY <1>2, <2>1
  <1>5. revs'[next.edits[1]].parent1 = next.base
    <2>1. CASE row.edits = << >>
      BY <1>2, <2>1 DEF EditsLead
    <2>2. CASE row.edits # << >>
      <3>1. 1 \in 1 .. Len(row.edits)
        BY <1>1, <2>2
      <3>2. QED
        BY <1>2, <2>2, <3>1 DEF EditsLead
    <2>3. QED
      BY <2>1, <2>2
  <1>6. \A j \in 1 .. (Len(next.edits) - 1) :
           revs'[next.edits[j + 1]].parent1 = next.edits[j]
    <2>1. TAKE j \in 1 .. (Len(next.edits) - 1)
    <2>2. j \in 1 .. Len(row.edits)
      BY <1>1, <1>2
    <2>3. CASE j = Len(row.edits)
      <3>1. row.edits # << >>
        BY <1>1, <2>2
      <3>2. QED
        BY <1>2, <2>2, <2>3, <3>1 DEF EditsLead
    <2>4. CASE j # Len(row.edits)
      <3>1. j \in 1 .. (Len(row.edits) - 1) /\ j + 1 \in 1 .. Len(row.edits)
        BY <1>1, <2>2, <2>4
      <3>2. QED
        BY <1>2, <2>2, <3>1 DEF EditsLead
    <2>5. QED
      BY <2>3, <2>4
  <1>7. QED
    BY <1>3, <1>4, <1>5, <1>6 DEF EditsLead

\* The last edit taken back.
LEMMA EditTakenBack ==
  ASSUME NEW row \in Candidate, EditsLead(row), row.head # row.base,
         NEW next \in Candidate, next.base = row.base,
         next.head = revs[row.head].parent1, next.edits = Front(row.edits)
  PROVE  EditsLead(next)
  <1> DEFINE len == Len(row.edits)
  <1>1. row.edits \in Seq(Nat) /\ len \in Nat /\ DOMAIN row.edits = 1 .. len
    BY DEF Candidate
  <1>2. row.edits # << >>
    BY DEF EditsLead
  <1>3. len >= 1
    BY <1>1, <1>2
  <1>4. /\ Len(next.edits) = len - 1
        /\ \A j \in 1 .. (len - 1) : next.edits[j] = row.edits[j]
        /\ DOMAIN next.edits = 1 .. (len - 1)
    BY <1>1, <1>3 DEF Front
  <1>5. \A j \in DOMAIN next.edits : next.edits[j] \in RevIds
    <2>1. TAKE j \in DOMAIN next.edits
    <2>2. next.edits[j] = row.edits[j]
      BY <1>4
    <2>3. j \in DOMAIN row.edits
      BY <1>1, <1>4
    <2>4. row.edits[j] \in RevIds
      BY <2>3 DEF EditsLead
    <2>5. QED
      BY <2>2, <2>4
  <1>6. row.head = row.edits[len] /\ revs[row.edits[1]].parent1 = row.base
        /\ \A j \in 1 .. (len - 1) : revs[row.edits[j + 1]].parent1 = row.edits[j]
    <2>1. row.head = row.edits[len]
      BY <1>2 DEF EditsLead
    <2>2. revs[row.edits[1]].parent1 = row.base
      BY <1>2 DEF EditsLead
    <2>3. \A j \in 1 .. (len - 1) : revs[row.edits[j + 1]].parent1 = row.edits[j]
      BY DEF EditsLead
    <2>4. QED
      BY <2>1, <2>2, <2>3
  <1>7. CASE len = 1
    <2>1. next.edits = << >> /\ next.head = row.base
      BY <1>4, <1>6, <1>7 DEF Candidate
    <2>2. QED
      BY <1>4, <1>5, <1>7, <2>1 DEF EditsLead
  <1>8. CASE len # 1
    <2>1. len - 1 \in 1 .. (len - 1) /\ 1 \in 1 .. (len - 1)
      <3>1. \A m \in Nat : m >= 1 /\ m # 1 =>
               m - 1 \in 1 .. (m - 1) /\ 1 \in 1 .. (m - 1)
        OBVIOUS
      <3>2. QED
        BY <1>1, <1>3, <1>8, <3>1
    <2>2. next.head = row.edits[len - 1]
      <3>1. (len - 1) + 1 = len
        BY <1>1
      <3>2. revs[row.edits[(len - 1) + 1]].parent1 = row.edits[len - 1]
        <4>1. \A m \in 1 .. (len - 1) : revs[row.edits[m + 1]].parent1 = row.edits[m]
          BY <1>6
        <4>2. QED
          BY <2>1, <4>1
      <3>3. QED
        BY <1>6, <3>1, <3>2
    <2>3. next.head = next.edits[Len(next.edits)] /\ next.edits # << >>
      <3>1. next.edits[len - 1] = row.edits[len - 1]
        <4>1. \A m \in 1 .. (len - 1) : next.edits[m] = row.edits[m]
          BY <1>4
        <4>2. QED
          BY <2>1, <4>1
      <3>2. DOMAIN next.edits # {}
        BY <1>4, <2>1
      <3>3. next.edits # << >>
        BY <3>2
      <3>4. QED
        BY <1>4, <2>2, <3>1, <3>3
    <2>4. revs[next.edits[1]].parent1 = next.base
      BY <1>4, <1>6, <2>1
    <2>5. \A j \in 1 .. (Len(next.edits) - 1) :
             revs[next.edits[j + 1]].parent1 = next.edits[j]
      <3>1. TAKE j \in 1 .. (Len(next.edits) - 1)
      <3>2. j \in 1 .. (len - 1) /\ j + 1 \in 1 .. (len - 1)
        BY <1>1, <1>4
      <3>3. QED
        BY <1>4, <1>6, <3>2
    <2>6. QED
      BY <1>5, <2>3, <2>4, <2>5 DEF EditsLead
  <1>9. QED
    BY <1>7, <1>8

\* A call that is ready for an operation on a candidate names one that exists.
LEMMA ReadyCandidate ==
  ASSUME CandidatesInv, NEW c \in Clients, calls[c].pc = "ready",
         calls[c].op \notin {"open", "replay"}
  PROVE  /\ calls[c] \in Call
         /\ calls[c].candidate \in DOMAIN candidates
         /\ calls[c].head \in RevIds
         /\ candidates[calls[c].candidate] \in Candidate
         /\ RowOK(candidates[calls[c].candidate])
  BY DEF CandidatesInv, CallOK, OnCandidate, Opening

LEMMA ApplyStep ==
  ASSUME CandidatesInv, NEW c \in Clients, Apply(c)
  PROVE  CandidatesInv'
  <1>1. PICK i \in DOMAIN candidates, old \in Candidate :
           i = calls[c].candidate /\ old = candidates[i] /\ RowOK(old)
    BY ReadyCandidate DEF Apply, Ready
  <1>2. PICK m \in Modules :
           InsertRevision(<<old.project, NoBranch>>, NoBranch, old.head, NoRev,
                          revs[old.head].snap, {m}, {})
    <2>1. calls[c].head = old.head
      BY <1>1 DEF Apply, StillAsRead
    <2>2. QED
      BY <1>1, <2>1 DEF Apply
  <1>3. PICK n \in Nat : n = Len(revs) + 1
    BY DEF CandidatesInv, LogInv, LogTypeOK
  <1> DEFINE row == [old EXCEPT !.head = n, !.edits = Append(old.edits, n)]
  <1>4. /\ n \in RevIds'
        /\ revs'[n].project = old.project
        /\ revs'[n].parent1 = old.head
        /\ LogGrows /\ LogInv'
    <2>1. old.project \in Projects /\ old.head \in RevIds
          /\ revs[old.head].project = old.project /\ {m} \in SUBSET Modules
      BY <1>1 DEF Candidate, RowOK
    <2>2. heads' = heads /\ LogInv
      BY DEF Apply, CandidatesInv
    <2>3. QED
      BY <1>3, <1>2, <2>1, <2>2, InsertFacts
  <1>5. row \in Candidate /\ row.head = n /\ row.edits = Append(old.edits, n)
        /\ row.base = old.base /\ row.project = old.project
        /\ row.status = old.status /\ row.published = old.published
    <2>1. Append(old.edits, n) \in Seq(Nat)
      BY DEF Candidate
    <2>2. QED
      BY <2>1 DEF Candidate
  <1>6. candidates' = [candidates EXCEPT ![i] = row]
    BY <1>3, <1>1 DEF Apply, CandidatesInv
  <1> HIDE DEF row
  <1>7. RowOK(old)'
    BY <1>1, <1>4, RowKept DEF CandidatesInv
  <1>8. EditsLead(row)'
    BY <1>4, <1>5, <1>7, EditAppended DEF RowOK
  <1>9. OnFirstParentHistory(row.base, row.head)'
    BY <1>1, <1>4, <1>5, FirstParentExtends DEF RowOK, CandidatesInv
  <1>10. RowOK(row)'
    BY <1>4, <1>5, <1>7, <1>8, <1>9 DEF RowOK
  <1>11. Return(c) /\ qualifications' = qualifications
    BY DEF Apply
  <1>12. QED
    BY <1>1, <1>4, <1>5, <1>6, <1>10, <1>11, OneRow

\* An element inserted into a sequence joins the others.
LEMMA InsertedAmong ==
  ASSUME NEW S, NEW s \in Seq(S), NEW q \in S, NEW place \in 1 .. (Len(s) + 1)
  PROVE  /\ InsertAt(s, place, q) \in Seq(S)
         /\ Range(s) \subseteq Range(InsertAt(s, place, q))
  <1> DEFINE t == InsertAt(s, place, q)
  <1>1. Len(s) \in Nat /\ place \in Nat /\ place >= 1 /\ place <= Len(s) + 1
    OBVIOUS
  <1>2. PICK before \in Seq(S) : /\ before = SubSeq(s, 1, place - 1)
                                 /\ Len(before) = place - 1
                                 /\ \A j \in 1 .. (place - 1) : before[j] = s[j]
    <2> DEFINE b == SubSeq(s, 1, place - 1)
    <2>1. b \in Seq(S)
      BY <1>1
    <2>2. Len(b) = place - 1
      BY <1>1
    <2>3. \A j \in 1 .. (place - 1) : b[j] = s[j]
      BY <1>1
    <2> HIDE DEF b
    <2>4. QED
      BY <2>1, <2>2, <2>3 DEF b
  <1>3. PICK after \in Seq(S) : /\ after = SubSeq(s, place, Len(s))
                                /\ Len(after) = Len(s) - place + 1
                                /\ \A j \in 1 .. (Len(s) - place + 1) :
                                      after[j] = s[place + j - 1]
    <2> DEFINE a == SubSeq(s, place, Len(s))
    <2>1. a \in Seq(S)
      BY <1>1
    <2>2. Len(a) = Len(s) - place + 1
      BY <1>1
    <2>3. \A j \in 1 .. (Len(s) - place + 1) : a[j] = s[place + j - 1]
      BY <1>1
    <2> HIDE DEF a
    <2>4. QED
      BY <2>1, <2>2, <2>3 DEF a
  <1>4. t = (before \o <<q>>) \o after
    BY <1>2, <1>3 DEF InsertAt
  <1>5. PICK start \in Seq(S) : /\ start = before \o <<q>>
                                /\ Len(start) = place
                                /\ \A j \in 1 .. (place - 1) : start[j] = s[j]
    <2> DEFINE b == Append(before, q)
    <2>1. before \o <<q>> = b
      OBVIOUS
    <2>2. b \in Seq(S) /\ Len(b) = Len(before) + 1
      OBVIOUS
    <2>3. \A j \in 1 .. Len(before) : b[j] = before[j]
      OBVIOUS
    <2> HIDE DEF b
    <2>4. Len(before) = place - 1 /\ Len(b) = place
      BY <1>1, <1>2, <2>2
    <2>5. QED
      BY <1>2, <2>1, <2>2, <2>3, <2>4
  <1> HIDE DEF t
  <1>6. t = start \o after
    BY <1>4, <1>5
  <1>7. t \in Seq(S) /\ Len(t) = Len(start) + Len(after)
    BY <1>6
  <1>8. Len(t) = Len(s) + 1
    BY <1>1, <1>3, <1>5, <1>7
  <1>9. \A j \in 1 .. (place - 1) : t[j] = s[j]
    <2>1. TAKE j \in 1 .. (place - 1)
    <2>2. j \in 1 .. Len(start) /\ j \in 1 .. (Len(start) + Len(after))
      BY <1>1, <1>3, <1>5
    <2>3. t[j] = start[j]
      BY <1>6, <2>2
    <2>4. QED
      BY <1>5, <2>3
  <1>10. \A j \in place .. Len(s) : t[j + 1] = s[j]
    <2>1. TAKE j \in place .. Len(s)
    <2>2. PICK k \in 1 .. Len(after) : j + 1 = Len(start) + k /\ place + k - 1 = j
      <3>1. j - place + 1 \in 1 .. Len(after)
        BY <1>1, <1>3
      <3>2. j + 1 = Len(start) + (j - place + 1) /\ place + (j - place + 1) - 1 = j
        <4>1. \A x, y \in Int : x + 1 = y + (x - y + 1) /\ y + (x - y + 1) - 1 = x
          OBVIOUS
        <4>2. j \in Int /\ place \in Int
          OBVIOUS
        <4>3. QED
          BY <1>5, <4>1, <4>2
      <3>3. QED
        BY <3>1, <3>2
    <2>3. t[Len(start) + k] = after[k]
      BY <1>6, <2>2
    <2>4. after[k] = s[place + k - 1]
      BY <1>3, <2>2
    <2>5. QED
      BY <2>2, <2>3, <2>4
  <1>11. \A j \in DOMAIN s : \E k \in DOMAIN t : t[k] = s[j]
    <2>1. TAKE j \in DOMAIN s
    <2>2. j \in 1 .. (place - 1) \/ j \in place .. Len(s)
      BY <1>1
    <2>3. j \in DOMAIN t /\ j + 1 \in DOMAIN t
      BY <1>1, <1>7, <1>8
    <2>4. QED
      BY <1>9, <1>10, <2>2, <2>3
  <1>12. QED
    BY <1>7, <1>11 DEF Range, t

LEMMA QualifyKeeps ==
  ASSUME CandidatesInv, NEW c \in Clients, Qualify(c)
  PROVE  /\ qualifications' \in Seq(Qualification)
         /\ Range(qualifications) \subseteq Range(qualifications')
  <1>1. calls[c] \in Call /\ calls[c].candidate \in Nat /\ calls[c].head \in Nat
    BY DEF CandidatesInv, Call
  <1>2. PICK q \in Qualification,
             place \in {Len(qualifications), Len(qualifications) + 1} \ {0} :
           qualifications' = InsertAt(qualifications, place, q)
    <2>1. PICK level \in Levels, status \in {"passed", "failed"},
               place \in {Len(qualifications), Len(qualifications) + 1} \ {0} :
            qualifications' = InsertAt(qualifications, place,
              [candidate |-> calls[c].candidate, revision |-> calls[c].head,
               level |-> level, status |-> status])
      BY DEF Qualify
    <2>2. [candidate |-> calls[c].candidate, revision |-> calls[c].head,
           level |-> level, status |-> status] \in Qualification
      BY <1>1 DEF Qualification
    <2>3. QED
      BY <2>1, <2>2
  <1>3. qualifications \in Seq(Qualification) /\ Len(qualifications) \in Nat
    BY DEF CandidatesInv
  <1>4. place \in 1 .. (Len(qualifications) + 1)
    BY <1>3
  <1>5. QED
    BY <1>2, <1>3, <1>4, InsertedAmong

LEMMA QualifyStep ==
  ASSUME CandidatesInv, NEW c \in Clients, Qualify(c)
  PROVE  CandidatesInv'
  <1>1. LogGrows /\ TablesGrow /\ LogInv' /\ candidates' = candidates
        /\ qualifications' \in Seq(Qualification)
    BY QualifyKeeps DEF Qualify, LogGrows, TablesGrow, RevIds, CandidatesInv, LogInv,
                        LogTypeOK, ProjectClosed
  <1>2. /\ candidates' \in Seq(Candidate)
        /\ 0 \notin DOMAIN candidates'
        /\ \A j \in DOMAIN candidates' \ {0} :
              j \in DOMAIN candidates /\ candidates'[j] = candidates[j]
    BY <1>1 DEF CandidatesInv
  <1>3. PICK idle \in Call : idle = Idle /\ Continue(c, idle) /\ CallOK(idle)'
    BY IdleOK DEF Qualify, Return
  <1>4. QED
    BY <1>1, <1>2, <1>3, InvFromParts

LEMMA AbandonStep ==
  ASSUME CandidatesInv, NEW c \in Clients, Abandon(c)
  PROVE  CandidatesInv'
  <1>1. PICK i \in DOMAIN candidates, old \in Candidate :
           i = calls[c].candidate /\ old = candidates[i] /\ RowOK(old)
    BY ReadyCandidate DEF Abandon, Ready
  <1> DEFINE row == [old EXCEPT !.status = "abandoned"]
  <1>2. row \in Candidate /\ row.head = old.head /\ row.edits = old.edits
        /\ row.base = old.base /\ row.project = old.project
        /\ row.status = "abandoned" /\ row.published = old.published
    BY DEF Candidate
  <1>3. candidates' = [candidates EXCEPT ![i] = row] /\ old.status = "open"
    BY <1>1 DEF Abandon, CandidatesInv
  <1> HIDE DEF row
  <1>4. LogGrows /\ LogInv'
    BY DEF Abandon, LogGrows, RevIds, CandidatesInv, LogInv, LogTypeOK, ProjectClosed
  <1>5. RowOK(row)
    <2>1. EditsLead(row)
      <3>1. EditsLead(old)
        BY <1>1 DEF RowOK
      <3>2. QED
        BY <1>2, <3>1 DEF EditsLead
    <2>2. row.published = NoRev
      BY <1>1, <1>2, <1>3 DEF RowOK
    <2>3. QED
      BY <1>1, <1>2, <2>1, <2>2 DEF RowOK
  <1>6. RowOK(row)'
    BY <1>2, <1>4, <1>5, RowKept DEF CandidatesInv
  <1>7. Return(c) /\ qualifications' = qualifications
    BY DEF Abandon
  <1>8. QED
    BY <1>1, <1>2, <1>3, <1>4, <1>6, <1>7, OneRow

LEMMA RevertLastStep ==
  ASSUME CandidatesInv, NEW c \in Clients, RevertLast(c)
  PROVE  CandidatesInv'
  <1>1. PICK i \in DOMAIN candidates, old \in Candidate :
           i = calls[c].candidate /\ old = candidates[i] /\ RowOK(old)
    BY ReadyCandidate DEF RevertLast, Ready
  <1>2. calls[c].head = old.head
    BY <1>1 DEF RevertLast, StillAsRead
  <1>3. old.head \in RevIds /\ old.head # old.base
    BY <1>1, <1>2 DEF RevertLast, RowOK
  <1>4. PICK parent \in RevIds : /\ parent = revs[old.head].parent1
                                 /\ revs[parent].project = old.project
    <2>1. revs[old.head].parent1 # NoRev
      BY <1>2 DEF RevertLast
    <2>2. revs[old.head].parent1 \in RevIds
      BY <1>3, <2>1, ParentsExist DEF CandidatesInv
    <2>3. revs[revs[old.head].parent1].project = revs[old.head].project
      BY <1>3, <2>1 DEF CandidatesInv, LogInv, ProjectClosed
    <2>4. revs[old.head].project = old.project
      BY <1>1 DEF RowOK
    <2>5. QED
      BY <2>2, <2>3, <2>4
  <1> DEFINE row == [old EXCEPT !.head = parent, !.edits = Front(@)]
  <1>5. row \in Candidate /\ row.head = parent /\ row.edits = Front(old.edits)
        /\ row.base = old.base /\ row.project = old.project
        /\ row.status = old.status /\ row.published = old.published
    <2>1. parent \in Nat
      BY DEF RevIds
    <2>2. old.edits \in Seq(Nat) /\ old.edits # << >>
      BY <1>1, <1>3 DEF Candidate, RowOK, EditsLead
    <2>3. Front(old.edits) \in Seq(Nat)
      BY <2>2 DEF Front
    <2>4. QED
      BY <2>1, <2>3 DEF Candidate
  <1>6. candidates' = [candidates EXCEPT ![i] = row]
    BY <1>1, <1>2, <1>4 DEF RevertLast, CandidatesInv
  <1> HIDE DEF row
  <1>7. LogGrows /\ LogInv'
    BY DEF RevertLast, LogGrows, RevIds, CandidatesInv, LogInv, LogTypeOK, ProjectClosed
  <1>8. EditsLead(row)
    BY <1>1, <1>3, <1>4, <1>5, EditTakenBack DEF RowOK
  <1>9. OnFirstParentHistory(row.base, row.head)
    BY <1>1, <1>3, <1>4, <1>5, BelowFirstParent DEF RowOK
  <1>10. RowOK(row)
    BY <1>1, <1>4, <1>5, <1>8, <1>9 DEF RowOK
  <1>11. RowOK(row)'
    BY <1>5, <1>7, <1>10, RowKept DEF CandidatesInv
  <1>12. Return(c) /\ qualifications' = qualifications
    BY DEF RevertLast
  <1>13. QED
    BY <1>1, <1>5, <1>6, <1>7, <1>11, <1>12, OneRow

\* What a publication does, besides the return of its call.
LEMMA PublishCandidateFacts ==
  ASSUME CandidatesInv, NEW c \in Clients, PublishCandidate(c)
  PROVE  \E i \in DOMAIN candidates, old \in Candidate, row \in Candidate, k \in Keys :
           /\ i = calls[c].candidate /\ k = calls[c].key
           /\ old = candidates[i] /\ RowOK(old) /\ old.status = "open"
           /\ candidates' = [candidates EXCEPT ![i] = row]
           /\ row.status = "published" /\ row.published = old.head
           /\ row.head = old.head /\ row.edits = old.edits /\ row.base = old.base
           /\ row.project = old.project /\ <<row.project, row.branch>> = k
           /\ row.required = calls[c].level /\ calls[c].head = old.head
           /\ heads[k] = calls[c].base
           /\ heads' = [heads EXCEPT ![k] = old.head]
           /\ ~CallerBases => calls[c].base = old.base
  <1>1. PICK i \in DOMAIN candidates, old \in Candidate, call \in Call :
           i = calls[c].candidate /\ old = candidates[i] /\ RowOK(old) /\ call = calls[c]
    BY ReadyCandidate DEF PublishCandidate, Publishing
  <1>2. old.status = "open" /\ call.head = old.head
    BY <1>1 DEF PublishCandidate, StillAsRead
  <1>3. call.pc = "ready" /\ call.op = "publish" /\ CallOK(call)
    BY <1>1 DEF PublishCandidate, Publishing, CandidatesInv
  <1>4. call.key[1] = old.project /\ (~CallerBases => call.base = old.base)
    BY <1>1, <1>3 DEF CallOK, OnCandidate, Opening
  <1>5. call.key \in Keys /\ call.level \in Levels \cup {NoLevel} /\ call.head \in Nat
    BY DEF Call
  <1>6. call.key = <<call.key[1], call.key[2]>> /\ call.key[2] \in Branches
    BY <1>5 DEF Keys
  <1> DEFINE row == [old EXCEPT !.status = "published", !.branch = call.key[2],
                                !.published = old.head, !.required = call.level]
  <1>7. row \in Candidate
    BY <1>2, <1>5, <1>6 DEF Candidate
  <1>8. /\ row.status = "published" /\ row.published = old.head
        /\ row.head = old.head /\ row.edits = old.edits /\ row.base = old.base
        /\ row.project = old.project /\ row.branch = call.key[2]
        /\ row.required = call.level
    BY DEF Candidate
  <1>9. candidates' = [candidates EXCEPT ![i] = row]
    BY <1>1, <1>2 DEF PublishCandidate, CandidatesInv
  <1>10. heads[call.key] = call.base /\ heads' = [heads EXCEPT ![call.key] = old.head]
    BY <1>1, <1>2 DEF PublishCandidate
  <1> HIDE DEF row
  <1>11. <<row.project, row.branch>> = call.key
    BY <1>4, <1>6, <1>8
  <1>12. QED
    BY <1>1, <1>2, <1>4, <1>5, <1>7, <1>8, <1>9, <1>10, <1>11

LEMMA PublishCandidateStep ==
  ASSUME CandidatesInv, NEW c \in Clients, PublishCandidate(c)
  PROVE  CandidatesInv'
  <1>1. PICK i \in DOMAIN candidates, old \in Candidate, row \in Candidate, k \in Keys :
           /\ old = candidates[i] /\ RowOK(old)
           /\ candidates' = [candidates EXCEPT ![i] = row]
           /\ row.status = "published" /\ row.published = old.head
           /\ row.head = old.head /\ row.edits = old.edits /\ row.base = old.base
           /\ row.project = old.project /\ <<row.project, row.branch>> = k
           /\ heads' = [heads EXCEPT ![k] = old.head]
    BY PublishCandidateFacts
  <1>2. old.head \in RevIds /\ old.head # NoRev /\ revs[old.head].project = k[1]
    BY <1>1 DEF RowOK, RevIds, NoRev
  <1>3. LogGrows /\ RevIds' = RevIds /\ revs' = revs
    BY DEF PublishCandidate, LogGrows, RevIds
  <1>4. LogInv'
    <2>1. LogTypeOK'
      <3>1. heads \in [Keys -> Nat] /\ old.head \in Nat
        BY DEF CandidatesInv, LogInv, LogTypeOK, Candidate
      <3>2. heads' \in [Keys -> Nat]
        BY <1>1, <3>1
      <3>3. revs' = revs /\ documents' = documents
        BY DEF PublishCandidate
      <3>4. QED
        BY <3>2, <3>3 DEF CandidatesInv, LogInv, LogTypeOK
    <2>2. \A j \in Keys : heads'[j] # NoRev =>
             heads'[j] \in RevIds /\ revs[heads'[j]].project = j[1]
      BY <1>1, <1>2 DEF CandidatesInv, LogInv, LogTypeOK, ProjectClosed
    <2>3. ProjectClosed'
      BY <1>3, <2>2 DEF CandidatesInv, LogInv, ProjectClosed
    <2>4. QED
      BY <2>1, <2>3 DEF LogInv
  <1>5. RowOK(row)
    <2>1. EditsLead(row)
      BY <1>1 DEF RowOK, EditsLead
    <2>2. QED
      BY <1>1, <1>2, <2>1 DEF RowOK
  <1>6. RowOK(row)'
    BY <1>3, <1>5, RowKept DEF CandidatesInv
  <1>7. Return(c) /\ qualifications' = qualifications
    BY DEF PublishCandidate
  <1>8. QED
    BY <1>1, <1>3, <1>4, <1>6, <1>7, OneRow

\* A step that leaves candidates, qualifications and calls alone.
LEMMA TablesKept ==
  ASSUME CandidatesInv, LogGrows, LogInv', candidates' = candidates,
         qualifications' = qualifications, calls' = calls
  PROVE  CandidatesInv'
  <1>1. TablesGrow
    BY DEF TablesGrow, Range
  <1>2. \A i \in DOMAIN candidates : RowOK(candidates[i])'
    <2>1. TAKE i \in DOMAIN candidates
    <2>2. PICK row \in Candidate : row = candidates[i] /\ RowOK(row)
      BY DEF CandidatesInv
    <2>3. RowOK(row)' /\ candidates'[i] = row
      BY <2>2, RowKept DEF CandidatesInv
    <2>4. QED
      BY <2>3
  <1>3. \A c \in Clients : CallOK(calls[c])'
    <2>1. TAKE c \in Clients
    <2>2. PICK call \in Call : call = calls[c] /\ CallOK(call)
      BY DEF CandidatesInv
    <2>3. CallOK(call)' /\ calls'[c] = call
      BY <1>1, <2>2, CallKept
    <2>4. QED
      BY <2>3
  <1>4. QED
    BY <1>2, <1>3 DEF CandidatesInv

LEMMA ElsewhereStep ==
  ASSUME CandidatesInv, Elsewhere
  PROVE  CandidatesInv'
  <1>1. LogInv' /\ LogGrows
    BY ElsewhereGrows DEF CandidatesInv
  <1>2. candidates' = candidates /\ qualifications' = qualifications /\ calls' = calls
    BY DEF Elsewhere, candidateVars
  <1>3. QED
    BY <1>1, <1>2, TablesKept

LEMMA StutterStep ==
  ASSUME CandidatesInv, UNCHANGED vars
  PROVE  CandidatesInv'
  <1>1. LogGrows /\ TablesGrow /\ LogInv'
    BY DEF vars, LogGrows, TablesGrow, RevIds, Range, CandidatesInv, LogInv, LogTypeOK,
           ProjectClosed
  <1>2. candidates' = candidates /\ qualifications' = qualifications /\ calls' = calls
    BY DEF vars
  <1>3. QED
    BY <1>1, <1>2, TablesKept

LEMMA CandidatesInvInit == Init => CandidatesInv
  <1> SUFFICES ASSUME Init PROVE CandidatesInv
    OBVIOUS
  <1>1. LogInv
    BY LogInvInit DEF Init
  <1>2. calls \in [Clients -> Call] /\ \A c \in Clients : CallOK(calls[c])
    BY IdleOK DEF Init
  <1>3. candidates = << >> /\ qualifications = << >>
    BY DEF Init
  <1>4. QED
    BY <1>1, <1>2, <1>3 DEF CandidatesInv

LEMMA CandidatesInvStep ==
  ASSUME CandidatesInv, [Next]_vars
  PROVE  CandidatesInv'
  <1>1. ASSUME NEW c \in Clients, Start(c)
        PROVE  CandidatesInv'
    BY <1>1, StartOpenStep, StartOnStep, StartPublishStep DEF Start
  <1>2. QED
    BY <1>1, StutterStep, ElsewhereStep, OpenStep, ReadReplayedStep, ApplyStep, QualifyStep,
       AbandonStep, RevertLastStep, ReadQualificationStep, PublishCandidateStep, FailStep
       DEF Next

LEMMA CandidatesInvAlways == Spec => []CandidatesInv
  BY CandidatesInvInit, CandidatesInvStep, PTL DEF Spec

------------------------------------------------------------------------------
(* What follows                                                             *)

\* The tables hold what their columns say, a candidate is published exactly when
\* it names the revision it published, and no parent or head leaves its project.
THEOREM CandidatesWellFormed == Spec => [](TypeOK /\ ProjectClosed)
  <1>1. CandidatesInv => TypeOK /\ ProjectClosed
    BY DEF CandidatesInv, LogInv, TypeOK, RowOK
  <1>2. QED
    BY <1>1, CandidatesInvAlways, PTL

\* The head of a candidate is reached from its base by exactly the edits in force:
\* no concurrent apply or revert_last is lost.
THEOREM CandidatesKeepEdits == Spec => []EditsInForce
  <1>1. ASSUME NEW row \in Candidate, EditsLead(row)
        PROVE  LET chain == <<row.base>> \o row.edits
               IN  /\ row.head = Last(chain)
                   /\ \A n \in DOMAIN row.edits : revs[chain[n + 1]].parent1 = chain[n]
    <2> DEFINE chain == <<row.base>> \o row.edits
    <2>1. row.edits \in Seq(Nat) /\ Len(row.edits) \in Nat /\ row.base \in Nat
          /\ DOMAIN row.edits = 1 .. Len(row.edits)
      BY DEF Candidate
    <2>2. Len(chain) = Len(row.edits) + 1 /\ chain[1] = row.base
      BY <2>1
    <2>3. \A n \in 1 .. Len(row.edits) : chain[n + 1] = row.edits[n]
      BY <2>1
    <2> HIDE DEF chain
    <2>4. row.head = Last(chain)
      <3>1. CASE row.edits = << >>
        BY <1>1, <2>1, <2>2, <3>1 DEF EditsLead, Last
      <3>2. CASE row.edits # << >>
        <4>1. Len(row.edits) \in 1 .. Len(row.edits)
          BY <2>1, <3>2
        <4>2. QED
          BY <1>1, <2>2, <2>3, <3>2, <4>1 DEF EditsLead, Last
      <3>3. QED
        BY <3>1, <3>2
    <2>5. \A n \in 1 .. Len(row.edits) : revs[chain[n + 1]].parent1 = chain[n]
      <3>1. TAKE n \in 1 .. Len(row.edits)
      <3>2. row.edits # << >>
        BY <2>1
      <3>3. CASE n = 1
        BY <1>1, <2>2, <2>3, <3>2, <3>3 DEF EditsLead
      <3>4. CASE n # 1
        <4>1. n - 1 \in 1 .. (Len(row.edits) - 1) /\ n - 1 \in 1 .. Len(row.edits)
              /\ (n - 1) + 1 = n
          BY <2>1, <3>4
        <4>2. chain[n] = row.edits[n - 1] /\ chain[n + 1] = row.edits[n]
          BY <2>3, <4>1
        <4>3. revs[row.edits[n]].parent1 = row.edits[n - 1]
          BY <1>1, <4>1 DEF EditsLead
        <4>4. QED
          BY <4>2, <4>3
      <3>5. QED
        BY <3>3, <3>4
    <2>6. QED
      BY <2>1, <2>4, <2>5 DEF chain
  <1>2. ASSUME CandidatesInv, NEW i \in DOMAIN candidates
        PROVE  candidates[i] \in Candidate /\ EditsLead(candidates[i])
    BY <1>2 DEF CandidatesInv, RowOK
  <1>3. CandidatesInv => EditsInForce
    <2>1. SUFFICES ASSUME CandidatesInv, NEW i \in DOMAIN candidates
                   PROVE  LET cand  == candidates[i]
                              chain == <<cand.base>> \o cand.edits
                          IN  /\ cand.head = Last(chain)
                              /\ \A n \in DOMAIN cand.edits :
                                    revs[chain[n + 1]].parent1 = chain[n]
      BY DEF EditsInForce
    <2>2. PICK row \in Candidate : row = candidates[i] /\ EditsLead(row)
      BY <1>2, <2>1
    <2>3. QED
      BY <1>1, <2>2
  <1>4. QED
    BY <1>3, CandidatesInvAlways, PTL

\* A transaction that is late finds the candidate closed and changes nothing.
THEOREM CandidatesClosedForGood == Spec => ClosedForGood
  <1>1. ASSUME CandidatesInv, [Next]_vars, NEW i \in DOMAIN candidates,
               candidates[i].status # "open"
        PROVE  candidates'[i] = candidates[i]
    <2>1. ASSUME NEW c \in Clients, Open(c)
          PROVE  candidates'[i] = candidates[i]
      BY <2>1 DEF Open, CandidatesInv
    <2>2. ASSUME NEW c \in Clients, Apply(c) \/ Abandon(c) \/ RevertLast(c)
                                    \/ PublishCandidate(c)
          PROVE  candidates'[i] = candidates[i]
      <3>1. candidates[calls[c].candidate].status = "open"
        BY <2>2 DEF Apply, Abandon, RevertLast, PublishCandidate, StillAsRead
      <3>2. calls[c].candidate # i
        BY <1>1, <3>1
      <3>3. QED
        BY <2>2, <3>2 DEF Apply, Abandon, RevertLast, PublishCandidate, CandidatesInv
    <2>3. ASSUME NEW c \in Clients,
                 Start(c) \/ ReadReplayed(c) \/ Qualify(c) \/ ReadQualification(c) \/ Fail(c)
          PROVE  candidates' = candidates
      BY <2>3 DEF Start, StartOpen, StartOn, StartPublish, Reads, ReadReplayed, Qualify,
                  ReadQualification, Fail
    <2>4. CASE Elsewhere \/ UNCHANGED vars
      BY <2>4 DEF Elsewhere, candidateVars, vars
    <2>5. QED
      BY <1>1, <2>1, <2>2, <2>3, <2>4 DEF Next
  <1>2. CandidatesInv /\ [Next]_vars =>
           [\A i \in DOMAIN candidates :
               candidates[i].status # "open" => candidates'[i] = candidates[i]]_vars
    BY <1>1
  <1>3. QED
    BY <1>2, CandidatesInvAlways, PTL DEF Spec, ClosedForGood

------------------------------------------------------------------------------
(* What was published                                                       *)

\* A step publishes one open candidate, or leaves what is published as it is.
LEMMA PublishedRows ==
  ASSUME CandidatesInv, [Next]_vars, ~ \E c \in Clients : PublishCandidate(c),
         NEW i \in DOMAIN candidates'
  PROVE  \/ candidates'[i].status # "published" /\ candidates'[i].required = NoLevel
         \/ /\ i \in DOMAIN candidates
            /\ candidates'[i].status = "published" <=> candidates[i].status = "published"
            /\ candidates'[i].project = candidates[i].project
            /\ candidates'[i].branch = candidates[i].branch
            /\ candidates'[i].published = candidates[i].published
            /\ candidates'[i].required = candidates[i].required
  <1>1. ASSUME NEW c \in Clients, Open(c), i \notin DOMAIN candidates
        PROVE  candidates'[i].status # "published" /\ candidates'[i].required = NoLevel
    BY <1>1 DEF Open, CandidatesInv
  <1>2. ASSUME NEW c \in Clients, Open(c), i \in DOMAIN candidates
        PROVE  candidates'[i] = candidates[i]
    BY <1>2 DEF Open, CandidatesInv
  <1>3. ASSUME NEW c \in Clients, Apply(c) \/ Abandon(c) \/ RevertLast(c)
        PROVE  /\ i \in DOMAIN candidates
               /\ candidates'[i].status = "published" <=> candidates[i].status = "published"
               /\ candidates'[i].project = candidates[i].project
               /\ candidates'[i].branch = candidates[i].branch
               /\ candidates'[i].published = candidates[i].published
               /\ candidates'[i].required = candidates[i].required
    <2>1. candidates[calls[c].candidate].status = "open"
      BY <1>3 DEF Apply, Abandon, RevertLast, StillAsRead
    <2>2. DOMAIN candidates' = DOMAIN candidates
      BY <1>3 DEF Apply, Abandon, RevertLast, CandidatesInv
    <2>3. i \in DOMAIN candidates /\ candidates[i] \in Candidate
      BY <2>2 DEF CandidatesInv
    <2>4. CASE calls[c].candidate # i
      BY <1>3, <2>3, <2>4 DEF Apply, Abandon, RevertLast, CandidatesInv
    <2>5. CASE calls[c].candidate = i
      <3>1. CASE Abandon(c)
        BY <2>1, <2>3, <2>5, <3>1 DEF Abandon, CandidatesInv, Candidate
      <3>2. CASE Apply(c)
        BY <2>1, <2>3, <2>5, <3>2 DEF Apply, CandidatesInv, Candidate
      <3>3. CASE RevertLast(c)
        BY <2>1, <2>3, <2>5, <3>3 DEF RevertLast, CandidatesInv, Candidate
      <3>4. QED
        BY <1>3, <3>1, <3>2, <3>3
    <2>6. QED
      BY <2>4, <2>5
  <1>4. ASSUME NEW c \in Clients,
               Start(c) \/ ReadReplayed(c) \/ Qualify(c) \/ ReadQualification(c) \/ Fail(c)
        PROVE  candidates' = candidates
    BY <1>4 DEF Start, StartOpen, StartOn, StartPublish, Reads, ReadReplayed, Qualify,
                ReadQualification, Fail
  <1>5. CASE Elsewhere \/ UNCHANGED vars
    BY <1>5 DEF Elsewhere, candidateVars, vars
  <1>6. QED
    BY <1>1, <1>2, <1>3, <1>4, <1>5 DEF Next

\* No step removes a qualification.
LEMMA QualificationsKept ==
  ASSUME CandidatesInv, [Next]_vars
  PROVE  Range(qualifications) \subseteq Range(qualifications')
  <1>1. ASSUME NEW c \in Clients, Qualify(c)
        PROVE  Range(qualifications) \subseteq Range(qualifications')
    BY <1>1, QualifyKeeps
  <1>2. ASSUME NEW c \in Clients, ~Qualify(c),
               \/ Start(c) \/ Open(c) \/ ReadReplayed(c) \/ Apply(c) \/ Abandon(c)
               \/ RevertLast(c) \/ ReadQualification(c) \/ PublishCandidate(c) \/ Fail(c)
        PROVE  qualifications' = qualifications
    BY <1>2 DEF Start, StartOpen, StartOn, StartPublish, Reads, Open, ReadReplayed, Apply,
                Abandon, RevertLast, ReadQualification, PublishCandidate, Fail
  <1>3. CASE Elsewhere \/ UNCHANGED vars
    BY <1>3 DEF Elsewhere, candidateVars, vars
  <1>4. QED
    BY <1>1, <1>2, <1>3 DEF Next

\* A candidate published at a required level had a passing qualification of that
\* level for the very revision it published.
THEOREM CandidatesPublishedAsQualified == Spec => []PublishedAsQualified
  <1>1. Init => PublishedAsQualified
    BY DEF Init, PublishedAsQualified
  <1>2. ASSUME CandidatesInv, PublishedAsQualified, [Next]_vars
        PROVE  PublishedAsQualified'
    <2>1. SUFFICES ASSUME NEW i \in DOMAIN candidates', candidates'[i].required # NoLevel
                   PROVE  QualifiedAt(i, candidates[i].published, candidates[i].required)'
      BY DEF PublishedAsQualified, QualifiedAt
    <2>2. ASSUME NEW j, NEW r, NEW level, QualifiedAt(j, r, level)
          PROVE  QualifiedAt(j, r, level)'
      BY <1>2, <2>2, QualificationsKept DEF QualifiedAt
    <2>3. ASSUME i \in DOMAIN candidates, candidates[i].required # NoLevel,
                 candidates'[i].published = candidates[i].published,
                 candidates'[i].required = candidates[i].required
          PROVE  QualifiedAt(i, candidates[i].published, candidates[i].required)'
      <3>1. PICK r, level : r = candidates[i].published /\ level = candidates[i].required
        OBVIOUS
      <3>2. QualifiedAt(i, r, level)
        BY <1>2, <2>3, <3>1 DEF PublishedAsQualified, QualifiedAt
      <3>3. QualifiedAt(i, r, level)'
        BY <2>2, <3>2
      <3>4. QED
        BY <2>3, <3>1, <3>3 DEF QualifiedAt
    <2>4. CASE ~ \E c \in Clients : PublishCandidate(c)
      BY <1>2, <2>1, <2>3, <2>4, PublishedRows
    <2>5. ASSUME NEW c \in Clients, PublishCandidate(c)
          PROVE  QualifiedAt(i, candidates[i].published, candidates[i].required)'
      <3>1. PICK r, level : r = calls[c].head /\ level = calls[c].level
        OBVIOUS
      <3>2. PICK j \in DOMAIN candidates, row \in Candidate :
               /\ j = calls[c].candidate
               /\ candidates' = [candidates EXCEPT ![j] = row]
               /\ row.published = r /\ row.required = level
        BY <1>2, <2>5, <3>1, PublishCandidateFacts
      <3>3. DOMAIN candidates' = DOMAIN candidates /\ candidates'[j] = row
            /\ \A k \in DOMAIN candidates : k # j => candidates'[k] = candidates[k]
        BY <1>2, <3>2, RowReplaced DEF CandidatesInv
      <3>4. CASE i = j
        <4>1. level # NoLevel
          BY <2>1, <3>2, <3>3, <3>4
        <4>2. QualifiedAt(j, r, level)
          BY <1>2, <2>5, <3>1, <3>2, <4>1 DEF CandidatesInv, CallOK, PublishCandidate, Publishing
        <4>3. QualifiedAt(j, r, level)'
          BY <2>2, <4>2
        <4>4. QED
          BY <3>2, <3>3, <3>4, <4>3 DEF QualifiedAt
      <3>5. CASE i # j
        BY <2>1, <2>3, <3>3, <3>5
      <3>6. QED
        BY <3>4, <3>5
    <2>6. QED
      BY <2>4, <2>5
  <1>3. QED
    BY <1>1, <1>2, CandidatesInvAlways, PTL DEF Spec

------------------------------------------------------------------------------
(* Branches and what is on them, when the base is never the caller's        *)

\* Another tool's operation moves a head, if at all, from NoRev or to a revision
\* whose first parent the head was.
LEMMA ElsewhereHeads ==
  ASSUME LogInv, Elsewhere, NEW k \in Keys, heads[k] # NoRev
  PROVE  \/ heads'[k] = heads[k]
         \/ heads'[k] \in RevIds' /\ revs'[heads'[k]].parent1 = heads[k]
  <1>1. CASE BranchStep
    BY <1>1 DEF BranchStep, LogInv, LogTypeOK
  <1>2. CASE PublishStep
    <2>1. PICK j \in Keys, p2 \in RevIds \cup {NoRev}, snap \in Snapshots,
               written \in SUBSET Modules, extra \in SUBSET Contents :
             Publish(j, heads[j], p2, snap, written, extra)
      BY <1>2 DEF PublishStep
    <2>2. PICK n :
            /\ RevIds' = RevIds \cup {n}
            /\ revs'[n].parent1 = heads[j]
            /\ heads' = [heads EXCEPT ![j] = n]
      BY <2>1, PublishFacts
    <2>3. QED
      BY <2>2 DEF LogInv, LogTypeOK
  <1>3. QED
    BY <1>1, <1>2, ElsewhereIsLogStep, StepShape

\* No step changes or removes a revision.
LEMMA NextGrows ==
  ASSUME CandidatesInv, [Next]_vars
  PROVE  LogGrows
  <1>1. ASSUME NEW c \in Clients, Apply(c)
        PROVE  LogGrows
    <2>1. PICK e : revs' = Append(revs, e)
      BY <1>1 DEF Apply, InsertRevision
    <2>2. revs \in Seq(Revision) /\ Len(revs) \in Nat
      BY DEF CandidatesInv, LogInv, LogTypeOK
    <2>3. Len(revs') = Len(revs) + 1 /\ \A r \in 1 .. Len(revs) : revs'[r] = revs[r]
      BY <2>1, <2>2
    <2>4. QED
      BY <2>2, <2>3 DEF LogGrows, RevIds
  <1>2. ASSUME NEW c \in Clients, ~Apply(c),
               \/ Start(c) \/ Open(c) \/ ReadReplayed(c) \/ Qualify(c) \/ Abandon(c)
               \/ RevertLast(c) \/ ReadQualification(c) \/ PublishCandidate(c) \/ Fail(c)
        PROVE  revs' = revs
    BY <1>2 DEF Start, StartOpen, StartOn, StartPublish, Reads, Open, ReadReplayed, Qualify,
                Abandon, RevertLast, ReadQualification, PublishCandidate, Fail
  <1>3. CASE Elsewhere
    BY <1>3, ElsewhereGrows DEF CandidatesInv
  <1>4. CASE revs' = revs
    BY <1>4 DEF LogGrows, RevIds
  <1>5. QED
    BY <1>1, <1>2, <1>3, <1>4 DEF Next, vars

\* The head of a branch goes forward along first parents, or stays.
LEMMA HeadsGoForward ==
  ASSUME ~CallerBases, CandidatesInv, [Next]_vars, NEW k \in Keys, NEW r \in RevIds,
         heads[k] = r
  PROVE  heads'[k] \in RevIds' /\ OnFirstParentHistory(r, heads[k])'
  <1>1. r \in RevIds' /\ r # NoRev /\ LogGrows /\ LogInv
    BY NextGrows DEF LogGrows, CandidatesInv, RevIds, NoRev
  <1>2. OnFirstParentHistory(r, r) /\ OnFirstParentHistory(r, r)'
    BY DEF OnFirstParentHistory
  <1>3. CASE heads'[k] = heads[k]
    BY <1>1, <1>2, <1>3
  <1>4. ASSUME NEW n \in RevIds', heads'[k] = n, revs'[n].parent1 = r
        PROVE  heads'[k] \in RevIds' /\ OnFirstParentHistory(r, heads[k])'
    <2>1. OnFirstParentHistory(r, n)'
      BY <1>1, <1>2, <1>4, FirstParentExtends
    <2>2. QED
      BY <1>4, <2>1
  <1>5. CASE Elsewhere
    BY <1>1, <1>3, <1>4, <1>5, ElsewhereHeads
  <1>6. ASSUME NEW c \in Clients, PublishCandidate(c)
        PROVE  heads'[k] \in RevIds' /\ OnFirstParentHistory(r, heads[k])'
    <2>1. PICK old \in Candidate, j \in Keys :
             /\ RowOK(old) /\ heads[j] = old.base
             /\ heads' = [heads EXCEPT ![j] = old.head]
      BY <1>6, PublishCandidateFacts
    <2>2. CASE j # k
      BY <1>3, <2>1, <2>2 DEF CandidatesInv, LogInv, LogTypeOK
    <2>3. CASE j = k
      <3>1. PICK h \in RevIds : h = old.head /\ OnFirstParentHistory(r, h)
        BY <2>1, <2>3 DEF RowOK
      <3>2. OnFirstParentHistory(r, h)' /\ h \in RevIds'
        BY <1>1, <3>1, FirstParentGrows DEF LogGrows
      <3>3. heads'[k] = h
        BY <2>1, <2>3, <3>1 DEF CandidatesInv, LogInv, LogTypeOK
      <3>4. QED
        BY <3>2, <3>3
    <2>4. QED
      BY <2>2, <2>3
  <1>7. ASSUME NEW c \in Clients, ~PublishCandidate(c),
               \/ Start(c) \/ Open(c) \/ ReadReplayed(c) \/ Apply(c) \/ Qualify(c)
               \/ Abandon(c) \/ RevertLast(c) \/ ReadQualification(c) \/ Fail(c)
        PROVE  heads' = heads
    BY <1>7 DEF Start, StartOpen, StartOn, StartPublish, Reads, Open, ReadReplayed, Apply,
                Qualify, Abandon, RevertLast, ReadQualification, Fail
  <1>8. CASE UNCHANGED vars
    BY <1>3, <1>8 DEF vars
  <1>9. QED
    BY <1>3, <1>5, <1>6, <1>7, <1>8 DEF Next

\* When every publication expects the base its candidate was opened at, branches
\* only move forward along first parents: no commit is dropped from a branch.
THEOREM BranchesFastForward ==
  ASSUME ~CallerBases
  PROVE  Spec => FastForwards
  <1>1. CandidatesInv /\ [Next]_vars =>
           [\A k \in Keys, r \in RevIds :
               heads[k] = r => OnFirstParentHistory(r, heads[k])']_vars
    BY HeadsGoForward
  <1>2. QED
    BY <1>1, CandidatesInvAlways, PTL DEF Spec, FastForwards

\* A published revision is on the branch it was published to.
OnItsBranch(i) ==
  \E k \in Keys : /\ k = <<candidates[i].project, candidates[i].branch>>
                  /\ heads[k] \in RevIds
                  /\ OnFirstParentHistory(candidates[i].published, heads[k])

AllOnTheirBranches ==
  \A i \in DOMAIN candidates : candidates[i].status = "published" => OnItsBranch(i)

\* What is on the history of a branch stays on it.
LEMMA BranchKeeps ==
  ASSUME ~CallerBases, CandidatesInv, [Next]_vars, NEW k \in Keys, NEW q,
         heads[k] \in RevIds, OnFirstParentHistory(q, heads[k])
  PROVE  heads'[k] \in RevIds' /\ OnFirstParentHistory(q, heads[k])'
  <1>1. PICK r \in RevIds : r = heads[k] /\ OnFirstParentHistory(q, r)
    OBVIOUS
  <1>2. heads'[k] \in RevIds' /\ OnFirstParentHistory(r, heads[k])'
    BY <1>1, HeadsGoForward
  <1>3. OnFirstParentHistory(q, r)'
    BY <1>1, NextGrows, FirstParentGrows DEF CandidatesInv
  <1>4. QED
    BY <1>2, <1>3 DEF OnFirstParentHistory

\* Then a published revision stays on the branch it was published to.
THEOREM PublishedStayPublished ==
  ASSUME ~CallerBases
  PROVE  Spec => []PublishedStays
  <1>1. Init => AllOnTheirBranches
    BY DEF Init, AllOnTheirBranches
  <1>2. ASSUME CandidatesInv, AllOnTheirBranches, [Next]_vars
        PROVE  AllOnTheirBranches'
    <2>1. SUFFICES ASSUME NEW i \in DOMAIN candidates', candidates'[i].status = "published"
                   PROVE  OnItsBranch(i)'
      BY DEF AllOnTheirBranches
    <2>2. ASSUME i \in DOMAIN candidates, candidates[i].status = "published",
                 candidates'[i].project = candidates[i].project,
                 candidates'[i].branch = candidates[i].branch,
                 candidates'[i].published = candidates[i].published
          PROVE  OnItsBranch(i)'
      <3>1. PICK q : q = candidates[i].published
        OBVIOUS
      <3>2. PICK k \in Keys :
               /\ k = <<candidates[i].project, candidates[i].branch>>
               /\ heads[k] \in RevIds /\ OnFirstParentHistory(q, heads[k])
        BY <1>2, <2>2, <3>1 DEF AllOnTheirBranches, OnItsBranch
      <3>3. heads'[k] \in RevIds' /\ OnFirstParentHistory(q, heads[k])'
        BY <1>2, <3>2, BranchKeeps
      <3>4. k = <<candidates'[i].project, candidates'[i].branch>> /\ q = candidates'[i].published
        BY <2>2, <3>1, <3>2
      <3>5. QED
        BY <3>3, <3>4 DEF OnItsBranch
    <2>3. CASE ~ \E c \in Clients : PublishCandidate(c)
      BY <1>2, <2>1, <2>2, <2>3, PublishedRows
    <2>4. ASSUME NEW c \in Clients, PublishCandidate(c)
          PROVE  OnItsBranch(i)'
      <3>1. PICK j \in DOMAIN candidates, row \in Candidate, k \in Keys, h \in RevIds :
               /\ candidates' = [candidates EXCEPT ![j] = row]
               /\ row.published = h /\ <<row.project, row.branch>> = k
               /\ heads' = [heads EXCEPT ![k] = h]
        BY <1>2, <2>4, PublishCandidateFacts DEF RowOK
      <3>2. DOMAIN candidates' = DOMAIN candidates /\ candidates'[j] = row
            /\ \A m \in DOMAIN candidates : m # j => candidates'[m] = candidates[m]
        BY <1>2, <3>1, RowReplaced DEF CandidatesInv
      <3>3. CASE i = j
        <4>1. heads'[k] = h /\ h \in RevIds'
          BY <1>2, <3>1, NextGrows DEF CandidatesInv, LogInv, LogTypeOK, LogGrows
        <4>2. OnFirstParentHistory(h, heads[k])'
          BY <4>1 DEF OnFirstParentHistory
        <4>3. k = <<candidates'[i].project, candidates'[i].branch>> /\ h = candidates'[i].published
          BY <3>1, <3>2, <3>3
        <4>4. QED
          BY <4>1, <4>2, <4>3 DEF OnItsBranch
      <3>4. CASE i # j
        BY <2>1, <2>2, <3>2, <3>4
      <3>5. QED
        BY <3>3, <3>4
    <2>5. QED
      BY <2>3, <2>4
  <1>3. AllOnTheirBranches => PublishedStays
    BY DEF AllOnTheirBranches, OnItsBranch, PublishedStays
  <1>4. QED
    BY <1>1, <1>2, <1>3, CandidatesInvAlways, PTL DEF Spec

===============================================================================
