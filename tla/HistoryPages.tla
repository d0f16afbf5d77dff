----------------------------- MODULE HistoryPages -----------------------------
(****************************************************************************)
(* Readers that follow the first parents of a branch under limits: pages of *)
(* its history and the summary of its activity (branch_activity), pages of  *)
(* the checkpoints of agents (resume.timeline), and how far a branch has    *)
(* come since its latest checkpoint (resume.project_status).                *)
(*                                                                          *)
(* A reader of pages presents the cursor of the last page to the next call, *)
(* and meanwhile the branch has moved.  The pages must join.                *)
(****************************************************************************)
EXTENDS RevisionLog, SequencesExt

CONSTANTS
  PageLimits,   \* sizes of a page that callers ask for
  ScanLimits,   \* and how many revisions they let a call look at
  MaxScan,      \* the revisions any call looks at (MAX_BRANCH_ACTIVITY_REVISIONS)
  MaxWalks      \* bound: completed readings

ASSUME PagesAssumption ==
  PageLimits \subseteq Nat /\ ScanLimits \subseteq Nat /\ MaxScan \in Nat

VARIABLES
  published,    \* the revisions that publish a checkpoint
  reading,      \* the reader: all its calls
  readings      \* what was read

pageVars == <<published, reading, readings>>

NobodyWalks ==
  [pc |-> "idle", kind |-> "history", branch |-> <<CHOOSE p \in Projects : TRUE, Main>>,
   limit |-> 1, scan |-> 1, top |-> NoRev, cursor |-> NoRev,
   current |-> NoRev, scanned |-> 0, rows |-> << >>, found |-> << >>]

PagesInit ==
  /\ published = {}
  /\ reading = NobodyWalks
  /\ readings = << >>

Walks(next) ==
  /\ reading' = next
  /\ UNCHANGED <<logVars, published, readings>>

\* The reading is over, for better or worse.
Closes(outcome, found) ==
  /\ readings' = Append(readings,
       [kind |-> reading.kind, branch |-> reading.branch, top |-> reading.top,
        outcome |-> outcome, found |-> found, scanned |-> reading.scanned])
  /\ reading' = NobodyWalks
  /\ UNCHANGED <<logVars, published>>

\* The first page, a summary and a status start from the head of the branch.
StartWalk(kind, branch, limit, scan) ==
  /\ reading.pc = "idle"
  /\ Len(readings) < MaxWalks
  /\ heads[branch] # NoRev
  /\ Walks([NobodyWalks EXCEPT
       !.pc = CASE kind = "history" -> "check" [] kind = "summary" -> "rows" [] OTHER -> "scan",
       !.kind = kind, !.branch = branch, !.scan = scan,
       !.limit = IF kind = "summary" THEN MaxScan ELSE limit,
       !.top = heads[branch], !.cursor = heads[branch], !.current = heads[branch]])

------------------------------------------------------------------------------
(* A page of the history *)

\* The cursor must be in the history of the head of this moment.
CheckCursor ==
  /\ reading.pc = "check"
  /\ \/ /\ reading.current = reading.cursor
        /\ Walks([reading EXCEPT !.pc = "rows", !.scanned = 0])
     \/ /\ reading.current \notin {reading.cursor, NoRev}
        /\ reading.scanned < MaxScan
        /\ Walks([reading EXCEPT !.current = revs[@].parent1, !.scanned = @ + 1])
     \/ /\ reading.current \notin {reading.cursor, NoRev}
        /\ reading.scanned = MaxScan
        /\ Closes("limit", reading.found)
     \/ /\ reading.current = NoRev
        /\ Closes("unreachable", reading.found)

\* One revision more than the page holds.
FetchRow ==
  /\ reading.pc = "rows"
  /\ reading.current # NoRev
  /\ Len(reading.rows) <= reading.limit
  /\ Walks([reading EXCEPT !.rows = Append(@, reading.current), !.current = revs[@].parent1])

RowsFetched ==
  /\ reading.pc = "rows"
  /\ reading.current = NoRev \/ Len(reading.rows) = reading.limit + 1

EndSummary ==
  /\ RowsFetched
  /\ reading.kind = "summary"
  /\ IF Len(reading.rows) > MaxScan THEN Closes("limit", << >>)
                                    ELSE Closes("complete", reading.rows)

\* Mutant: the next page starts after the revision that was fetched to see
\* whether there is a next page.
CursorAfter(rows, limit) ==
  IF Len(rows) > limit THEN revs[rows[limit + 1]].parent1 ELSE NoRev

NextCursor(rows, limit) == IF Len(rows) > limit THEN rows[limit + 1] ELSE NoRev

\* The page, and the cursor of the next one if there is one.
Pages(page, cursor) ==
  IF cursor = NoRev THEN Closes("complete", reading.found \o page)
  ELSE Walks([reading EXCEPT !.pc = "next", !.cursor = cursor, !.rows = << >>,
                          !.found = @ \o page])

EndHistoryPage ==
  /\ RowsFetched
  /\ reading.kind = "history"
  /\ Pages(SubSeq(reading.rows, 1, Min({reading.limit, Len(reading.rows)})),
           NextCursor(reading.rows, reading.limit))

\* The caller asks for the next page.  The head is read again, but only a page
\* of the history makes use of it.
NextPage ==
  /\ reading.pc = "next"
  /\ Walks([reading EXCEPT !.pc = IF reading.kind = "history" THEN "check" ELSE "scan",
                        !.scanned = 0,
                        !.current = IF reading.kind = "history" THEN heads[reading.branch]
                                    ELSE reading.cursor])

------------------------------------------------------------------------------
(* Checkpoints: a page of them, or the latest one *)

Wanted == IF reading.kind = "status" THEN 1 ELSE reading.limit

ScanGoesOn ==
  /\ reading.current # NoRev
  /\ reading.scanned < reading.scan
  /\ Len(reading.rows) < Wanted

ScanRevision ==
  /\ reading.pc = "scan"
  /\ ScanGoesOn
  /\ Walks([reading EXCEPT
       !.scanned = @ + 1, !.current = revs[@].parent1,
       !.rows = IF reading.current \in published THEN Append(@, reading.current) ELSE @])

EndTimelinePage ==
  /\ reading.pc = "scan"
  /\ reading.kind = "timeline"
  /\ ~ScanGoesOn
  /\ Pages(reading.rows, reading.current)

\* Mutant: only the revisions that were looked at are counted.
StatusByCount(last, scanned, rows) ==
  IF rows # << >> THEN IF scanned = 1 THEN "head" ELSE "behind_head"
  ELSE IF scanned = reading.scan THEN "not_found_within_scan"
       ELSE "none_in_first_parent_history"

\* `last` is where the scan would have gone on.
CheckpointState(last, scanned, rows) ==
  IF rows # << >> THEN IF scanned = 1 THEN "head" ELSE "behind_head"
  ELSE IF last # NoRev THEN "not_found_within_scan"
       ELSE "none_in_first_parent_history"

EndStatus ==
  /\ reading.pc = "scan"
  /\ reading.kind = "status"
  /\ ~ScanGoesOn
  /\ Closes(CheckpointState(reading.current, reading.scanned, reading.rows), reading.rows)

------------------------------------------------------------------------------
\* Everybody else: a checkpoint is a revision that links a document.
PublishCheckpoint(k) ==
  /\ \E c \in Contents : AddContext(k, c)
  /\ published' = published \cup {Len(revs')}

Advance ==
  /\ Len(revs) < MaxRevs
  /\ \E k \in Keys :
       \/ PublishCheckpoint(k)
       \/ /\ \/ \E m \in Modules : WriteModule(k, m)
             \/ \E source \in Keys \ {k} : Merge(k, source)
          /\ UNCHANGED published
  /\ UNCHANGED <<reading, readings>>

\* No further page is asked for, or the call fails.
StopReading ==
  /\ reading.pc # "idle"
  /\ Walks(NobodyWalks)

PagesNext ==
  \/ \E kind \in {"history", "summary", "timeline", "status"}, branch \in Keys,
        limit \in PageLimits, scan \in ScanLimits : StartWalk(kind, branch, limit, scan)
  \/ CheckCursor \/ FetchRow \/ EndSummary \/ EndHistoryPage \/ NextPage
  \/ ScanRevision \/ EndTimelinePage \/ EndStatus
  \/ Advance \/ StopReading

------------------------------------------------------------------------------
\* The first-parent history of a revision, and the checkpoints in it.
Lineage(h) == {r \in RevIds : OnFirstParentHistory(r, h)}

Checkpoints(h) == Lineage(h) \cap published

\* The part of it that came after r.
Newer(r, h) == {x \in Lineage(h) : x > r}

\* The revisions of S, newest first, each once.
Lists(found, S) ==
  /\ ToSet(found) = S
  /\ \A i, j \in DOMAIN found : i < j => found[i] > found[j]

\* Whatever the limits, and wherever the branch has gone meanwhile, the pages
\* that follow one another's cursors hold every revision, or every checkpoint,
\* of the history they started with once, in order: what
\* docs/branch-activity.md says of pages.  Their cursors are never refused, but
\* for a history that is longer than any call may look at.
PagesCoverHistory ==
  \A i \in DOMAIN readings : LET w == readings[i] IN
     /\ w.outcome = "complete" =>
          Lists(w.found, IF w.kind = "timeline" THEN Checkpoints(w.top) ELSE Lineage(w.top))
     /\ w.outcome # "unreachable"
     /\ w.outcome = "limit" => Cardinality(Lineage(heads[w.branch])) > MaxScan

\* What a status says of the checkpoints of a branch is so: none only if the
\* whole history has none, and else the latest, at the right distance, unless
\* it is beyond the limit.
StatusTruthful ==
  \A i \in DOMAIN readings : LET w == readings[i] IN
     /\ w.outcome = "none_in_first_parent_history" => Checkpoints(w.top) = {}
     /\ w.outcome = "not_found_within_scan" =>
          /\ Cardinality(Lineage(w.top)) > w.scanned
          /\ \A r \in Checkpoints(w.top) : Cardinality(Newer(r, w.top)) >= w.scanned
     /\ w.outcome = "head" => w.top \in Checkpoints(w.top)
     /\ w.outcome = "behind_head" =>
          \E latest \in Checkpoints(w.top) :
            /\ w.found = <<latest>>
            /\ Newer(latest, w.top) \cap published = {}
            /\ w.scanned = Cardinality(Newer(latest, w.top)) + 1
            /\ latest # w.top

\* Both: whatever a client reads of a history in pieces is so.
HistoryToldTruly == PagesCoverHistory /\ StatusTruthful
==============================================================================
