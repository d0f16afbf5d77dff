------------------------------- MODULE TreeMerge -------------------------------
(****************************************************************************)
(* The three-way merge of one document by the ids of its nodes              *)
(* (sexpr_service._merge_states).  A result is a tree and the set of the    *)
(* conflicts met on the way; a conflict is the id of a node and its kind.   *)
(* The path that the code puts in front of both is left out.                *)
(****************************************************************************)
EXTENDS SexprTree

Clean(tree) == [tree |-> tree, conflicts |-> {}]

Conflict(tree, id, kind) == [tree |-> tree, conflicts |-> {<<id, kind>>}]

\* The base children, in the order of the base, that are still in a list.
InBaseOrder(base, node) == SelectSeq(base.children, LAMBDA c : c.id \in ChildIds(node))

Kept(base, node) == SelectSeq(node.children, LAMBDA c : c.id \in ChildIds(base))

IdSeq(children) == [i \in DOMAIN children |-> children[i].id]

Reordered(base, node) == IdSeq(Kept(base, node)) # IdSeq(InBaseOrder(base, node))

\* Mutant: only the order of our side is checked.
OurReorderConflicts(base, ours, theirs) ==
  IF Reordered(base, ours) THEN {<<base.id, "reorder">>} ELSE {}

\* A side that put base children in another order conflicts.
ReorderConflicts(base, ours, theirs) ==
  IF Reordered(base, ours) \/ Reordered(base, theirs) THEN {<<base.id, "reorder">>} ELSE {}

\* The id of the last base child before position i, or 0.
Anchor(base, node, i) ==
  LET before == {j \in 1 .. i : node.children[j].id \in ChildIds(base)}
  IN  IF before = {} THEN 0 ELSE node.children[Max(before)].id

\* The children that are not in the base and follow one of its children.
AdditionSlot(base, node, anchor) ==
  LET added == {i \in DOMAIN node.children : /\ node.children[i].id \notin ChildIds(base)
                                             /\ Anchor(base, node, i) = anchor}
  IN  [k \in 1 .. Cardinality(added) |-> node.children[SetToSortSeq(added, <)[k]]]

IdsIn(children) == Range(IdSeq(children))

\* Mutant: the additions of the other side come first.
MergeAdditionsReversed(ours, theirs) ==
  Reverse(ours) \o SelectSeq(theirs, LAMBDA c : c.id \notin IdsIn(ours))

\* Mutant: what the other side added is dropped where both did.
MergeAdditionsOurs(ours, theirs) == IF ours = <<>> THEN theirs ELSE ours

\* What both sides added in one place: ours, then theirs that ours lacks.
MergeAdditions(ours, theirs) ==
  ours \o SelectSeq(theirs, LAMBDA c : c.id \notin IdsIn(ours))

ChildOr(node, id) ==
  IF id \in ChildIds(node) THEN node.children[SelectInSeq(node.children, LAMBDA c : c.id = id)]
  ELSE Absent

RECURSIVE MergeNode(_, _, _)

\* Every base child merged, with the additions of both sides around it.
MergeChildren(base, ours, theirs) ==
  LET merged == [i \in DOMAIN base.children |->
                   LET id == base.children[i].id
                   IN  MergeNode(base.children[i], ChildOr(ours, id), ChildOr(theirs, id))]
      added(anchor) == MergeAdditions(AdditionSlot(base, ours, anchor),
                                      AdditionSlot(base, theirs, anchor))
      present(i) == IF merged[i].tree = Absent THEN <<>> ELSE <<merged[i].tree>>
  IN  [tree |-> List(base.id, added(0) \o FlattenSeq([i \in DOMAIN merged |->
                                  present(i) \o added(base.children[i].id)])),
       conflicts |-> ReorderConflicts(base, ours, theirs)
                       \cup UNION {merged[i].conflicts : i \in DOMAIN merged}]

\* One side's change, or both if they are in different children of a list.
MergeNode(base, ours, theirs) ==
  IF ours = base THEN Clean(theirs)
  ELSE IF theirs \in {base, ours} THEN Clean(ours)
  ELSE IF base = Absent THEN Conflict(ours, 0, "document")
  ELSE IF Absent \in {ours, theirs}
       THEN Conflict(IF ours # Absent THEN ours ELSE theirs, base.id, "deletion")
  ELSE IF {ours.id, theirs.id} # {base.id} THEN Conflict(ours, base.id, "identity")
  ELSE IF {ours.kind, theirs.kind} # {base.kind} THEN Conflict(ours, base.id, "kind")
  ELSE IF base.kind # "list" THEN Conflict(ours, base.id, "value")
  ELSE MergeChildren(base, ours, theirs)

==============================================================================
