------------------------------ MODULE SourceText ------------------------------
(****************************************************************************)
(* Programs as text: the canonical and the ID-bearing views that agents     *)
(* read (sexpr.render_node), the text they import (sexpr.parse_source), and *)
(* the source a compiler is given with the map of its spans, by which a     *)
(* diagnostic is traced to a node (source_map).                             *)
(*                                                                          *)
(* A text is a sequence of characters, of which a few stand for their kind: *)
(* a digit for all that reads as another literal than a symbol, "@" for the *)
(* mark @n_ of a node's id, an id for a single character.  Limits on sizes  *)
(* are left out.                                                            *)
(****************************************************************************)
EXTENDS Naturals, Sequences, FiniteSets, SequencesExt

CONSTANTS
  NodeIds,      \* ids, in the order in which they are drawn
  Programs,     \* documents to start with
  Symbols, Strings,   \* what an atom is set to
  Sources,      \* texts that somebody types
  Digits, Wide, \* digits, and characters of two bytes
  LineWidth,    \* 88 in the code
  MaxChanges    \* bound: edits and imports

VARIABLES
  program,      \* the document at the head of its branch
  text,         \* a text an agent holds, and the program it was rendered from
  built,        \* the program that was built last
  next,         \* how many ids have been drawn
  changes

textVars == <<program, text, built, next, changes>>

Leaf(id, kind, value) == [id |-> id, kind |-> kind, value |-> value, children |-> <<>>]

Node(id, children) == [id |-> id, kind |-> "list", value |-> <<>>, children |-> children]

RECURSIVE NodesOf(_)
NodesOf(node) == {node} \cup UNION {NodesOf(node.children[i]) : i \in DOMAIN node.children}

RECURSIVE IdsOf(_)
IdsOf(node) == <<node.id>> \o FlattenSeq([i \in DOMAIN node.children |-> IdsOf(node.children[i])])

------------------------------------------------------------------------------
(* Reading *)

Newline == "nl"
Space   == {" ", Newline}
Delimiters == Space \cup {"(", ")", ";"}

\* The longest prefix without such a character.
UpTo(chars, stops) ==
  LET ends == {i \in DOMAIN chars : chars[i] \in stops}
  IN  IF ends = {} THEN chars ELSE SubSeq(chars, 1, (CHOOSE i \in ends : \A j \in ends : i <= j) - 1)

From(chars, n) == SubSeq(chars, n + 1, Len(chars))

Token(kind, value) == [kind |-> kind, value |-> value]

Broken == <<Token("error", <<>>)>>

\* What an escape stands for; a backslash before anything else is kept.
Unescaped(c) ==
  CASE c = "n" -> <<Newline>> [] c \in {"\"", "\\"} -> <<c>> [] OTHER -> <<"\\", c>>

RECURSIVE Scan(_), ScanString(_, _)
\* The tokens of a text; one that breaks off ends with an error.
Scan(chars) ==
  IF chars = <<>> THEN <<>>
  ELSE LET c == Head(chars) IN
       CASE c \in Space -> Scan(Tail(chars))
         [] c = ";" -> Scan(From(chars, Len(UpTo(chars, {Newline}))))
         [] c \in {"(", ")"} -> <<Token(c, <<>>)>> \o Scan(Tail(chars))
         [] c = "\"" -> ScanString(Tail(chars), <<>>)
         [] OTHER -> LET atom == UpTo(chars, Delimiters)
                     IN  <<Token("atom", atom)>> \o Scan(From(chars, Len(atom)))

ScanString(chars, value) ==
  IF chars = <<>> \/ chars = <<"\\">> THEN Broken
  ELSE CASE Head(chars) = "\"" -> <<Token("string", value)>> \o Scan(Tail(chars))
         [] Head(chars) = "\\" -> ScanString(From(chars, 2), value \o Unescaped(chars[2]))
         [] OTHER -> ScanString(Tail(chars), Append(value, Head(chars)))

NoId == "?"

ReadAtom(value) ==
  Leaf(NoId, IF Range(value) \subseteq Digits THEN "number" ELSE "symbol", value)

Fault == [id |-> NoId, kind |-> "error", value |-> <<>>, children |-> <<>>]

\* A node and the tokens behind it.
Read(node, rest) == [node |-> node, rest |-> rest]

Marked(node) == node.kind = "symbol" /\ node.value # <<>> /\ node.value[1] = "@"

\* Mutant: the mark is looked for in lists of any length.
UnwrapLists(children) ==
  IF Len(children) >= 2 /\ Marked(children[1])
  THEN IF Len(children[1].value) = 2 THEN [children[2] EXCEPT !.id = children[1].value[2]] ELSE Fault
  ELSE Node(NoId, children)

\* A list of a mark and a node is that node, with the id of the mark.
Unwrap(children) ==
  IF Len(children) = 2 /\ Marked(children[1])
  THEN IF Len(children[1].value) = 2 THEN [children[2] EXCEPT !.id = children[1].value[2]] ELSE Fault
  ELSE Node(NoId, children)

RECURSIVE ReadNode(_), ReadChildren(_, _)
ReadNode(tokens) ==
  IF tokens = <<>> THEN Read(Fault, <<>>)
  ELSE LET t == Head(tokens) IN
       CASE t.kind = "("      -> ReadChildren(Tail(tokens), <<>>)
         [] t.kind = "string" -> Read(Leaf(NoId, "string", t.value), Tail(tokens))
         [] t.kind = "atom"   -> Read(ReadAtom(t.value), Tail(tokens))
         [] OTHER -> Read(Fault, <<>>)

ReadChildren(tokens, children) ==
  IF tokens = <<>> THEN Read(Fault, <<>>)
  ELSE IF Head(tokens).kind = ")" THEN Read(Unwrap(children), Tail(tokens))
  ELSE LET child == ReadNode(tokens) IN
       IF child.node = Fault THEN child
       ELSE ReadChildren(child.rest, Append(children, child.node))

\* One form, and nothing behind it; and no id twice.
Parse(chars) ==
  LET form == ReadNode(Scan(chars))
      ids  == SelectSeq(IdsOf(form.node), LAMBDA id : id # NoId)
  IN  IF form.rest = <<>> /\ IsInjective(ids) THEN form.node ELSE Fault

------------------------------------------------------------------------------
(* Writing *)

Escaped(c) == CASE c = Newline -> <<"\\", "n">> [] c \in {"\"", "\\"} -> <<"\\", c>> [] OTHER -> <<c>>

WriteAtom(node) ==
  IF node.kind = "string"
  THEN <<"\"">> \o FlattenSeq([i \in DOMAIN node.value |-> Escaped(node.value[i])]) \o <<"\"">>
  ELSE node.value

Blanks(n) == [i \in 1 .. n |-> " "]

\* Texts with something between them.
Joined(texts, between) ==
  FlattenSeq([i \in DOMAIN texts |-> (IF i = 1 THEN <<>> ELSE between) \o texts[i]])

InParentheses(chars) == <<"(">> \o chars \o <<")">>

RECURSIVE Flat(_)
Flat(node) ==
  IF node.kind # "list" THEN WriteAtom(node)
  ELSE InParentheses(Joined([i \in DOMAIN node.children |-> Flat(node.children[i])], <<" ">>))

FitsLine(chars, indent) == indent + Len(chars) <= LineWidth

RECURSIVE Canonical(_, _)
\* On one line what fits on it, and else every child on its own.
Canonical(node, indent) ==
  IF node.kind # "list" \/ node.children = <<>> \/ FitsLine(Flat(node), indent) THEN Flat(node)
  ELSE InParentheses(Joined([i \in DOMAIN node.children |-> Canonical(node.children[i], indent + 2)],
                            <<Newline>> \o Blanks(indent + 2)))

\* The same text further to the right, but for its first line.
Shifted(chars, n) ==
  FlattenSeq([i \in DOMAIN chars |-> IF chars[i] = Newline THEN <<Newline>> \o Blanks(n) ELSE <<chars[i]>>])

WithId(node, chars) == InParentheses(<<"@", node.id, " ">> \o chars)

RECURSIVE Annotated(_, _, _)
Annotated(node, indent, atoms) ==
  IF node.kind # "list"
  THEN IF atoms THEN WithId(node, WriteAtom(node)) ELSE WriteAtom(node)
  ELSE LET parts   == [i \in DOMAIN node.children |-> Annotated(node.children[i], indent + 2, atoms)]
           compact == InParentheses(Joined(parts, <<" ">>))
           deep    == Len(parts) > 1
           core    == IF \/ ~deep \/ (Newline \notin Range(compact) /\ FitsLine(compact, indent))
                      THEN compact
                      ELSE InParentheses(parts[1] \o FlattenSeq(
                             [i \in 1 .. Len(parts) - 1 |->
                                <<Newline>> \o Shifted(Blanks(indent + 2) \o parts[i + 1], indent + 2)]))
       IN  WithId(node, Shifted(core, indent + 2))

Rendered(node, form) ==
  CASE form = "canonical" -> Canonical(node, 0)
    [] form = "lists"     -> Annotated(node, 0, FALSE)
    [] form = "nodes"     -> Annotated(node, 0, TRUE)

------------------------------------------------------------------------------
(* The source of a compiler, and the map of its spans *)

Bytes(chars) == Len(chars) + Cardinality({i \in DOMAIN chars : chars[i] \in Wide})

Span(node, start, chars) == [id |-> node.id, start |-> start, end |-> start + Bytes(chars)]

RECURSIVE Mapped(_, _, _), MappedFrom(_, _, _, _, _)
\* The text of a node that starts at a byte, and the spans of all its nodes.
Mapped(node, indent, start) ==
  IF node.kind # "list" \/ node.children = <<>>
  THEN [chars |-> Flat(node), spans |-> {Span(node, start, Flat(node))}]
  ELSE LET between == IF FitsLine(Flat(node), indent) THEN <<" ">>
                      ELSE <<Newline>> \o Blanks(indent + 2)
           inside == MappedFrom(node.children, between, indent + 2, start + 1, 1)
           chars  == InParentheses(inside.chars)
       IN  [chars |-> chars, spans |-> inside.spans \cup {Span(node, start, chars)}]

MappedFrom(children, between, indent, start, i) ==
  IF i > Len(children) THEN [chars |-> <<>>, spans |-> {}]
  ELSE LET gap    == IF i = 1 THEN <<>> ELSE between
           child  == Mapped(children[i], indent, start + Bytes(gap))
           before == gap \o child.chars
           rest   == MappedFrom(children, between, indent, start + Bytes(before), i + 1)
       IN  [chars |-> before \o rest.chars, spans |-> child.spans \cup rest.spans]

\* With the newline that ends every file.
NodeMap(node) ==
  LET all == Mapped(node, 0, 0) IN [of |-> node, chars |-> Append(all.chars, Newline), spans |-> all.spans]

Holds(span, start, end) == span.start <= start /\ end <= span.end

SpanSize(span) == span.end - span.start

\* Mutant: the first node of the map that has room for the span.
FirstNode(map, start, end) ==
  LET matches == {s \in map.spans : Holds(s, start, end)} IN
  IF matches = {} THEN NoId
  ELSE (CHOOSE s \in matches : \A t \in matches : s.start < t.start \/ (s.start = t.start /\ s.end >= t.end)).id

\* The smallest span, and of equal ones the last.
SmallestNode(map, start, end) ==
  LET matches == {s \in map.spans : Holds(s, start, end)} IN
  IF matches = {} THEN NoId
  ELSE (CHOOSE s \in matches :
          \A t \in matches : SpanSize(s) < SpanSize(t) \/ (SpanSize(s) = SpanSize(t) /\ s.start >= t.start)).id

\* A span beyond the source is an error of the compiler and is mapped to nothing.
Diagnose(map, start, end) ==
  IF end > Bytes(map.chars) THEN NoId ELSE SmallestNode(map, start, end)

------------------------------------------------------------------------------
(* What agents do with a document *)

Nothing == [of |-> Fault, form |-> "typed", chars |-> <<>>]

TextInit ==
  /\ program \in Programs
  /\ text = Nothing
  /\ built = NodeMap(program)
  /\ next = Len(IdsOf(program))
  /\ changes = 0

\* Nodes without an id get new ones, in the order of the tree.
RECURSIVE Drawn(_, _), DrawnFrom(_, _, _)
Drawn(node, n) ==
  LET m == IF node.id = NoId THEN n + 1 ELSE n
      children == DrawnFrom(node.children, m, 1)
  IN  [node |-> [node EXCEPT !.id = IF @ = NoId THEN NodeIds[m] ELSE @, !.children = children.nodes],
       n |-> children.n]

DrawnFrom(children, n, i) ==
  IF i > Len(children) THEN [nodes |-> <<>>, n |-> n]
  ELSE LET first == Drawn(children[i], n)
           rest  == DrawnFrom(children, first.n, i + 1)
       IN  [nodes |-> <<first.node>> \o rest.nodes, n |-> rest.n]

NewNodes(node) == Cardinality({i \in DOMAIN IdsOf(node) : IdsOf(node)[i] = NoId})

RECURSIVE Replaced(_, _)
\* The tree with this node in the place of the one that has its id.
Replaced(tree, node) ==
  IF tree.id = node.id THEN node
  ELSE [tree EXCEPT !.children = [i \in DOMAIN @ |-> Replaced(@[i], node)]]

Changes(tree, drawn) ==
  /\ changes < MaxChanges
  /\ changes' = changes + 1
  /\ program' = tree
  /\ next' = next + drawn
  /\ UNCHANGED <<text, built>>

AtomValues == ({"symbol"} \X Symbols) \cup ({"string"} \X Strings)

WriteValue(node, v) ==
  /\ node.kind # "list"
  /\ Changes(Replaced(program, Leaf(node.id, v[1], v[2])), 0)

AddValue(node, v) ==
  /\ node.kind = "list"
  /\ next < Len(NodeIds)
  /\ LET atom == Leaf(NodeIds[next + 1], v[1], v[2])
     IN  Changes(Replaced(program, [node EXCEPT !.children = Append(@, atom)]), 1)

RemoveChild(node) ==
  /\ node.children # <<>>
  /\ Changes(Replaced(program, [node EXCEPT !.children = Tail(@)]), 0)

Render(form) ==
  /\ text' = [of |-> program, form |-> form, chars |-> Rendered(program, form)]
  /\ UNCHANGED <<program, built, next, changes>>

Type(chars) ==
  /\ text' = [Nothing EXCEPT !.chars = chars]
  /\ UNCHANGED <<program, built, next, changes>>

\* The document is replaced, unless the text does not parse.
ImportProgram ==
  /\ text # Nothing
  /\ LET tree == Parse(text.chars) IN
       /\ tree # Fault
       /\ next + NewNodes(tree) <= Len(NodeIds)
       /\ Changes(Drawn(tree, next).node, NewNodes(tree))

\* Source and map belong to one revision, and stay so while the branch moves on.
Build ==
  /\ built' = NodeMap(program)
  /\ UNCHANGED <<program, text, next, changes>>

TextNext ==
  \/ \E node \in NodesOf(program) :
       \/ \E v \in AtomValues : WriteValue(node, v) \/ AddValue(node, v)
       \/ RemoveChild(node)
  \/ \E form \in {"canonical", "lists", "nodes"} : Render(form)
  \/ \E chars \in Sources : Type(chars)
  \/ ImportProgram \/ Build

------------------------------------------------------------------------------
\* Does the symbol read as this symbol?
ReadsAsItself(node) ==
  node.kind = "symbol" => ReadNode(Scan(node.value)) = Read([node EXCEPT !.id = NoId], <<>>)

\* Does the tree have a text?  Edits check of a symbol that it is a string, no more.
Legible(tree) ==
  \A node \in NodesOf(tree) :
     ReadsAsItself(node) /\ (Len(node.children) = 2 => ~Marked(node.children[1]))

\* The nodes whose ids a form of text does not show.
RECURSIVE Forget(_, _)
Forget(node, form) ==
  [node EXCEPT
     !.id = IF form = "nodes" \/ (form = "lists" /\ node.kind = "list") THEN @ ELSE NoId,
     !.children = [i \in DOMAIN @ |-> Forget(@[i], form)]]

\* A document can be written and read again: in every form the text of a legible
\* tree, however it is laid out, is the text of that tree and no other, with the
\* ids the form shows (tests/test_sexpr_tree.py); and whatever a text is read as,
\* be it full of comments and marks, is legible itself.
EveryTextReadsBack ==
  /\ text.form # "typed" /\ Legible(text.of) => Parse(text.chars) = Forget(text.of, text.form)
  /\ LET tree == Parse(text.chars) IN tree # Fault => Legible(tree)

RECURSIVE Innermost(_, _, _, _)
\* By the tree: the node whose text has room for the span and whose children's has not.
Innermost(map, node, start, end) ==
  LET own == CHOOSE s \in map.spans : s.id = node.id
      fit == {i \in DOMAIN node.children :
                Innermost(map, node.children[i], start, end) # NoId}
  IN  IF ~Holds(own, start, end) THEN NoId
      ELSE IF fit = {} THEN node.id
      ELSE Innermost(map, node.children[CHOOSE i \in fit : TRUE], start, end)

\* What a compiler is given is what agents read and merges are validated with;
\* and every span of it leads to the innermost node there, of the program that
\* was built, whatever has become of it since (docs/compiler-bridge.md).
EverySpanLocates ==
  /\ built.chars = Append(Canonical(built.of, 0), Newline)
  /\ {s.id : s \in built.spans} = Range(IdsOf(built.of))
  /\ \A start \in 0 .. Bytes(built.chars) : \A end \in start .. Bytes(built.chars) :
       Diagnose(built, start, end) = Innermost(built, built.of, start, end)
==============================================================================
