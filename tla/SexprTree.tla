------------------------------- MODULE SexprTree -------------------------------
(****************************************************************************)
(* Documents as trees of nodes with stable ids (sexpr), and the structural  *)
(* edits of one tree (concurrent_sexpr, batch_edit).                        *)
(*                                                                          *)
(* An id is a number; the code draws random ones.  A value stands for the   *)
(* kind and the content of an atom.  Limits on the size and depth of a tree *)
(* are left out.                                                            *)
(****************************************************************************)
EXTENDS Naturals, Sequences, FiniteSets, SequencesExt

NoValue == "no value"

Atom(id, value) == [id |-> id, kind |-> "atom", value |-> value, children |-> <<>>]

List(id, children) == [id |-> id, kind |-> "list", value |-> NoValue, children |-> children]

\* No node: what a dictionary lookup of a missing child gives.
Absent == [id |-> 0, kind |-> "absent", value |-> NoValue, children |-> <<>>]

RECURSIVE WalkAll(_)
\* The ids of some trees in the order in which walk_nodes visits them.
WalkAll(trees) ==
  IF trees = <<>> THEN <<>>
  ELSE <<Head(trees).id>> \o WalkAll(Head(trees).children) \o WalkAll(Tail(trees))

Walk(tree) == WalkAll(<<tree>>)

Ids(tree) == Range(Walk(tree))

ValidTree(tree) == IsInjective(Walk(tree))

ChildIds(node) == {node.children[i].id : i \in DOMAIN node.children}

\* The child of a node that an id is in.
Branch(node, id) ==
  node.children[CHOOSE i \in DOMAIN node.children : id \in Ids(node.children[i])]

RECURSIVE FindNode(_, _)
FindNode(tree, id) == IF tree.id = id THEN tree ELSE FindNode(Branch(tree, id), id)

IsList(tree, id) == FindNode(tree, id).kind = "list"

Lists(tree) == {id \in Ids(tree) : IsList(tree, id)}

Inside(tree, id) == Ids(FindNode(tree, id))

RECURSIVE Splice(_, _, _)
\* The trees with the node of an id replaced by nodes, wherever it is.
Splice(trees, id, nodes) ==
  IF trees = <<>> THEN <<>>
  ELSE (IF Head(trees).id = id THEN nodes
        ELSE <<[Head(trees) EXCEPT !.children = Splice(@, id, nodes)]>>)
       \o Splice(Tail(trees), id, nodes)

------------------------------------------------------------------------------
(* Edits.  Positions count from 0, as in the code. *)

Replace(tree, id, node) == Splice(<<tree>>, id, <<node>>)[1]

Detach(tree, id) == Splice(<<tree>>, id, <<>>)[1]

Insert(tree, parent, node, position) ==
  Replace(tree, parent,
          [FindNode(tree, parent) EXCEPT !.children = InsertAt(@, position + 1, node)])

Positions(tree, parent) == 0 .. Len(FindNode(tree, parent).children)

\* A form is a list that begins with its head, an atom of its own.
Form(id, head, rest) == List(id, <<Atom(head, "head")>> \o rest)

SetValue(tree, id, value) == Replace(tree, id, [FindNode(tree, id) EXCEPT !.value = value])

\* The position counts in the list from which the node has been taken.
Move(tree, id, parent, position) ==
  Insert(Detach(tree, id), parent, FindNode(tree, id), position)

Wrap(tree, id, wrapper, head) ==
  Replace(tree, id, Form(wrapper, head, <<FindNode(tree, id)>>))

==============================================================================
