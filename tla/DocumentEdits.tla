----------------------------- MODULE DocumentEdits -----------------------------
(****************************************************************************)
(* Three versions of one document, made by batches of structural edits, and *)
(* their merge.  In a merge of branches, `ours` and `theirs` are edited from *)
(* one base.  In a revert, the base is the reverted revision, `theirs` its   *)
(* first parent, and `ours` the head that later revisions led to.            *)
(*                                                                          *)
(* A batch is applied in memory and published as one revision or not at     *)
(* all (batch_edit); a single-node edit (concurrent_sexpr) is a batch of    *)
(* one without aliases.  That a revision extends the head it was computed   *)
(* from is RevisionStore's matter.                                          *)
(****************************************************************************)
EXTENDS TreeMerge, TLC

CONSTANTS
  Tasks,      \* what the versions are made for: "merge", "revert"
  Documents,  \* the trees to start from
  Values,     \* values an atom is set to
  Aliases,    \* names a batch may give to the nodes it creates
  NoAlias,
  MaxEdits,   \* bound on the edits of all batches
  MaxPerLine  \* bound on the edits that lead to one version

ASSUME EditsAssumption ==
  /\ Tasks \subseteq {"merge", "revert"}
  /\ MaxEdits \in Nat /\ MaxPerLine \in Nat
  /\ NoAlias \notin Aliases
  /\ \A tree \in Documents : ValidTree(tree) /\ Ids(tree) \subseteq Nat \ {0}

VARIABLES
  task,                 \* "merge" of branches, or "revert"
  base, ours, theirs,   \* the three versions
  draft,                \* the batch being applied
  edits,                \* the number of edits published for each version
  result                \* of the merge

vars == <<task, base, ours, theirs, draft, edits, result>>

Lines == {"ours", "theirs", "selected"}

NoDraft == [line |-> "none", tree |-> Absent, aliases |-> <<>>, size |-> 0]

NoResult == [tree |-> Absent, conflicts |-> {}, status |-> "none"]

Versions == {base, ours, theirs}

TotalEdits == SumFunction(edits)

\* The bounds leave room for one more edit of a version, after those of its draft.
Room(line, size) == edits[line] + size < MaxPerLine /\ TotalEdits + size < MaxEdits

\* The versions share their root; a draft is a batch within the bound.
TypeOK ==
  /\ task \in Tasks
  /\ edits \in [Lines -> 0 .. MaxPerLine]
  /\ \A tree \in Versions : tree.id = base.id /\ tree.kind = "list"
  /\ draft # NoDraft => /\ draft.line \in Lines
                        /\ DOMAIN draft.aliases \subseteq Aliases
                        /\ TotalEdits + draft.size <= MaxEdits
  /\ result.status \in {"none", "clean", "conflict", "invalid"}

Init ==
  /\ task \in Tasks
  /\ base \in Documents
  /\ ours = base
  /\ theirs = base
  /\ draft = NoDraft
  /\ edits = [line \in Lines |-> 0]
  /\ result = NoResult

------------------------------------------------------------------------------
(* Batches *)

\* The reverted revision comes first, then those that led to the head.
LinesToEdit ==
  IF task = "merge" THEN {"ours", "theirs"}
  ELSE IF edits.selected = 0 THEN {"selected"} ELSE {"ours"}

StartBatch(line) ==
  /\ draft = NoDraft
  /\ result = NoResult
  /\ line \in LinesToEdit
  /\ Room(line, 0)
  /\ draft' = [line |-> line, tree |-> IF line = "theirs" THEN theirs ELSE ours,
               aliases |-> <<>>, size |-> 0]
  /\ UNCHANGED <<task, base, ours, theirs, edits, result>>

Apply(tree, aliases) ==
  /\ draft' = [draft EXCEPT !.tree = tree, !.aliases = aliases, !.size = @ + 1]
  /\ UNCHANGED <<task, base, ours, theirs, edits, result>>

\* The ids of the versions and of the draft.
UsedIds == UNION {Ids(tree) : tree \in Versions \cup {draft.tree}}

\* A random id is one that nothing has; ids are numbered as they are drawn.
NewId == Max(UsedIds) + 1

\* Mutant: a replayed id may be in the tree already.
ReplayAnyId == UsedIds

\* The ids a recorded create may ask for again: those the tree does not have.
ReplayNodeIds == UsedIds \ Ids(draft.tree)

Named(alias, id) ==
  IF alias = NoAlias THEN draft.aliases ELSE draft.aliases @@ (alias :> id)

FreeNames == (Aliases \ DOMAIN draft.aliases) \cup {NoAlias}

\* The head of a form gets a new id even where that of the form is replayed.
CreateForm(parent, position, id, head, alias) ==
  Apply(Insert(draft.tree, parent, Form(id, head, <<>>), position),
        Named(alias, id))

\* The content of a created atom is left out.
AddAtom(parent, position, id, alias) ==
  Apply(Insert(draft.tree, parent, Atom(id, "new"), position),
        Named(alias, id))

SetAtom(id, value) ==
  /\ ~IsList(draft.tree, id)
  /\ Apply(SetValue(draft.tree, id, value), draft.aliases)

MoveNode(id, parent, position) ==
  /\ id # draft.tree.id
  /\ parent \notin Inside(draft.tree, id)
  /\ IsList(draft.tree, parent)
  /\ position \in Positions(Detach(draft.tree, id), parent)
  /\ Apply(Move(draft.tree, id, parent, position), draft.aliases)

\* Mutant: the root may be wrapped too.
WrapAnyNode(id, wrapper, head, alias) ==
  Apply(Wrap(draft.tree, id, wrapper, head), Named(alias, wrapper))

WrapNode(id, wrapper, head, alias) ==
  /\ id # draft.tree.id
  /\ Apply(Wrap(draft.tree, id, wrapper, head), Named(alias, wrapper))

\* Mutant: only the alias of the deleted node itself is dropped.
DeleteNodeNamed(id) ==
  /\ id # draft.tree.id
  /\ Apply(Detach(draft.tree, id),
           Restrict(draft.aliases, {a \in DOMAIN draft.aliases : draft.aliases[a] # id}))

\* The aliases of everything deleted are dropped.
DeleteNode(id) ==
  /\ id # draft.tree.id
  /\ Apply(Detach(draft.tree, id),
           Restrict(draft.aliases, {a \in DOMAIN draft.aliases :
                                      draft.aliases[a] \notin Inside(draft.tree, id)}))

Create(new, head, alias) ==
  \/ \E parent \in Lists(draft.tree) : \E position \in Positions(draft.tree, parent) :
       \/ CreateForm(parent, position, new, head, alias)
       \/ AddAtom(parent, position, new, alias)
  \/ \E id \in Ids(draft.tree) : WrapNode(id, new, head, alias)

Edit ==
  \/ \E first \in {NewId}, alias \in FreeNames :
        \E new \in {first} \cup ReplayNodeIds : Create(new, first + 1, alias)
  \/ \E id \in Ids(draft.tree) :
       \/ \E value \in Values : SetAtom(id, value)
       \/ DeleteNode(id)
       \/ \E parent \in Lists(draft.tree) :
            \E position \in Positions(draft.tree, parent) : MoveNode(id, parent, position)

\* An operation of the batch is refused, or the head has moved: nothing is published.
Abort ==
  /\ draft # NoDraft
  /\ draft' = NoDraft
  /\ UNCHANGED <<task, base, ours, theirs, edits, result>>

Commit ==
  /\ draft # NoDraft
  /\ draft.size > 0
  /\ ValidTree(draft.tree)
  /\ base' = IF draft.line = "selected" THEN draft.tree ELSE base
  /\ ours' = IF draft.line = "theirs" THEN ours ELSE draft.tree
  /\ theirs' = IF draft.line = "theirs" THEN draft.tree ELSE theirs
  /\ edits' = [edits EXCEPT ![draft.line] = @ + draft.size]
  /\ draft' = NoDraft
  /\ UNCHANGED <<task, result>>

------------------------------------------------------------------------------
(* Merge and revert *)

MergeVersions ==
  /\ draft = NoDraft
  /\ result = NoResult
  /\ LET merge == MergeNode(base, ours, theirs)
     IN  result' = [tree |-> merge.tree, conflicts |-> merge.conflicts,
                    status |-> IF merge.conflicts # {} THEN "conflict"
                               ELSE IF ValidTree(merge.tree) THEN "clean" ELSE "invalid"]
  /\ UNCHANGED <<task, base, ours, theirs, draft, edits>>

Next ==
  \/ \E line \in Lines : StartBatch(line)
  \/ draft # NoDraft /\ Room(draft.line, draft.size) /\ Edit
  \/ Abort
  \/ Commit
  \/ MergeVersions

Spec == Init /\ [][Next]_vars

------------------------------------------------------------------------------
AllIds == UNION {Ids(version) : version \in Versions}

RECURSIVE Entries(_, _)
\* What every node of a tree is by itself, and where it is.
Entries(tree, parent) ==
  {[id |-> tree.id, parent |-> parent, kind |-> tree.kind, value |-> tree.value]}
    \cup UNION {Entries(tree.children[i], tree.id) : i \in DOMAIN tree.children}

\* The entry of a node, in a set of its own, or none.
Entry(entries, id) == {e \in entries : e.id = id}

Where(entries, id) == {e.parent : e \in Entry(entries, id)}

\* Both sides created, moved or deleted a node, and not both deleted it.
Contested(was, our, their, id) ==
  /\ Where(was, id) \notin {Where(our, id), Where(their, id)}
  /\ Entry(our, id) \cup Entry(their, id) # {}

\* A side made no change to a node, or both made the same.
OneChange(was, our, their) == was \in {our, their} \/ our = their

ThreeWay(was, our, their) == IF our = was THEN their ELSE our

NoNodeContested ==
  LET was == Entries(base, 0)
      our == Entries(ours, 0)
      their == Entries(theirs, 0)
  IN  \A id \in AllIds : ~Contested(was, our, their, id)

\* A batch works on a tree in which no id occurs twice, whatever is replayed, and
\* every alias still names a node of it, whatever the batch has deleted.
DraftsValid ==
  /\ ValidTree(draft.tree)
  /\ Range(draft.aliases) \subseteq Ids(draft.tree)

\* A clean merge makes exactly the changes of both sides: every node is where, and
\* what, the side made it that changed it; never did both change it differently.
CleanMergeComplete ==
  result.status = "clean" /\ NoNodeContested =>
     LET was == Entries(base, 0)
         our == Entries(ours, 0)
         their == Entries(theirs, 0)
         merged == Entries(result.tree, 0)
     IN  \A id \in AllIds \cup Ids(result.tree) :
            /\ OneChange(Entry(was, id), Entry(our, id), Entry(their, id))
            /\ Entry(merged, id) = ThreeWay(Entry(was, id), Entry(our, id), Entry(their, id))

\* The pairs of children of a list, in their order.
Order(tree, list) ==
  IF list \notin Ids(tree) THEN {}
  ELSE LET children == IdSeq(FindNode(tree, list).children)
           ordered == {ij \in (DOMAIN children) \X (DOMAIN children) : ij[1] < ij[2]}
       IN  {<<children[ij[1]], children[ij[2]]>> : ij \in ordered}

\* A clean merge reverses two children of a list only where one side did so, and the
\* other side had left them in the order of the base.
OrdersKept ==
  result.status = "clean" /\ NoNodeContested =>
     \A list \in Ids(result.tree) :
        \A pair \in Order(result.tree, list) :
           LET reversed == <<pair[2], pair[1]>>
           IN  /\ reversed \in Order(ours, list) =>
                    reversed \in Order(base, list) /\ pair \in Order(theirs, list)
               /\ reversed \in Order(theirs, list) =>
                    reversed \in Order(base, list) /\ pair \in Order(ours, list)

\* Merging in the other direction meets the same conflicts.
DirectionsAgree ==
  result # NoResult => result.conflicts = MergeNode(base, theirs, ours).conflicts

\* "A later edit to the same stable node is not guessed through; it becomes an
\* explicit conflict": in a clean revert no node was changed both by the reverted
\* revision and, differently from the inverse, later.
LaterEditsConflict ==
  task = "revert" /\ result.status = "clean" =>
     LET was == Entries(base, 0)
         our == Entries(ours, 0)
         their == Entries(theirs, 0)
     IN  \A id \in AllIds : OneChange(Entry(was, id), Entry(our, id), Entry(their, id))

==============================================================================
