---------------------------- MODULE MCDocumentEdits ----------------------------
(* Parts that run apart from each other: edits and merges of a small document  *)
(* with two lists to move between, one with an order; processes that open the   *)
(* databases of older releases; programs as texts, that agents render and import *)
(* and compilers are given; and threads that ask for services, of an application *)
(* or of a process whose container is replaced.                                  *)
EXTENDS DocumentEdits, DatabaseOpening, RuntimeContainer, SourceText

VARIABLE part

SmallDocuments == {List(1, <<List(2, <<>>), List(3, <<Atom(4, "x")>>)>>)}

\* A dense text fits its size but not its encoding; two big ones do not fit a revision.
SomeTexts == {"small", "big", "dense"}
SomeSizes == [t \in SomeTexts |-> IF t = "small" THEN 1 ELSE 2]
SomeEncodings == [t \in SomeTexts |-> IF t = "dense" THEN 3 ELSE 1]

OldFile(version, objects, rows, root) ==
  [version |-> version, objects |-> objects, rows |-> rows, roots |-> <<root>>,
   related |-> TRUE]

Holding(table, name, t) == Row(table, 1, name, t, t)

Legacy(rows, root) == OldFile(1, Relational \cup {LegacyTable}, rows, root)

\* The tables of the release before edit candidates.
Third(rows) == OldFile(3, Relational \cup {Compressed, View, "guards"}, rows, {<<"a", "small">>})

SomeFiles ==
  LET small == Holding(LegacyTable, "a", "small")
      packed == Holding(Compressed, "a", "small")
  IN  {[version |-> 0, objects |-> {}, rows |-> {}, roots |-> << >>, related |-> TRUE],
       Legacy({small}, {<<"a", "small">>}),
       Legacy({small, Holding(LegacyTable, "b", "big")}, {<<"a", "small">>, <<"b", "big">>}),
       Legacy({[small EXCEPT !.text = "big"]}, {<<"a", "big">>}),
       Legacy({Holding(LegacyTable, "a", "dense")}, {<<"a", "dense">>}),
       Legacy({Holding(LegacyTable, n, "big") : n \in {"a", "b"}},
              {<<"a", "big">>, <<"b", "big">>}),
       [Legacy({small}, {<<"a", "small">>}) EXCEPT !.related = FALSE],
       Third({packed}), Third({}),
       [Third({packed}) EXCEPT !.version = 5]}

------------------------------------------------------------------------------
\* A string of quotes and newlines, symbols that are legible and that are not,
\* and sources with comments, marks, and every error.
SomeIds == <<"p", "q", "r", "s", "t", "u", "v", "w">>
SomePrograms ==
  {Node("p", <<Leaf("q", "symbol", <<"f">>), Node("r", <<>>)>>),
   Node("p", <<Leaf("q", "symbol", <<"f">>),
               Node("r", <<Leaf("s", "symbol", <<"g">>), Leaf("t", "number", <<"7">>)>>)>>)}
SomeSymbols == {<<"o", "m">>, <<"7">>, <<"@", "w">>, <<"a", ")">>}
SomeStrings == {<<"\\", "\"">>, <<"n", "nl", ";">>}
SomeSources ==
  {<<"(", "f", ";", ")", "nl", "(", "@", "x", " ", "\"", "\\", "z", "\\", "n", "\"", ")", " ", "m", "\"", ")">>,
   <<"(", "(", "@", "x", " ", "@", "y", ")", " ", "7", ")">>,
   <<"(", "@", "x", " ", "(", "@", "x", " ", "m", ")", ")">>,
   <<"(", "(", "@", "x", " ", "m", ")", "(", "@", "x", " ", "m", ")", ")">>,
   <<"(", "@", "y", " ", "m", " ", "m", ")">>,
   <<"(", "f", ")", ")">>}

------------------------------------------------------------------------------
\* Builds do not declare what they are built from: asking for it must do.
SomeDeclared ==
  [n \in Services |-> IF n = "bridge" THEN {"workspace"} ELSE {}]

SomeUses ==
  [n \in Services |->
     CASE n = "workspace" -> << >>
       [] n = "bridge" -> <<"workspace">>
       [] n = "builds" -> <<"workspace", "bridge">>]

\* Calls of applications and others never meet.
OfOneKind(kind) ==
  \A t \in Threads :
     /\ thread'[t].pc = "select" => (thread'[t].bound # NoContainer) = (kind = "bound")
     /\ thread'[t].pc = "enter" => (thread'[t].at \in Applications) = (kind = "bound")

\* The sides of a merge do not see each other: ours is edited first.
SidesInTurn == draft'.line = "ours" => edits.theirs = 0

------------------------------------------------------------------------------
\* Where the parts that do not run are.
EditsRest    == Init /\ task = "merge"
OpeningRest  == OpeningInit /\ file.version = 0
TextRest     == TextInit /\ Cardinality(NodesOf(program)) = 3

PartsInit ==
  \/ part = "edits" /\ Init /\ OpeningRest /\ TextRest /\ RuntimeInit
  \/ part = "opening" /\ EditsRest /\ OpeningInit /\ TextRest /\ RuntimeInit
  \/ part \in {"texts", "maps"} /\ EditsRest /\ OpeningRest /\ TextInit /\ RuntimeInit
  \/ part \in {"bound", "process"} /\ EditsRest /\ OpeningRest /\ TextRest /\ RuntimeInit

\* Texts are read back whatever has been built, and spans found whatever is read.
PartsNext ==
  \/ part = "edits" /\ Next /\ SidesInTurn /\ UNCHANGED <<dbVars, textVars, runtimeVars, part>>
  \/ part = "opening" /\ OpeningNext /\ UNCHANGED <<vars, textVars, runtimeVars, part>>
  \/ part = "texts" /\ UNCHANGED <<vars, dbVars, built, runtimeVars, part>> /\ TextNext
  \/ part = "maps" /\ UNCHANGED <<vars, dbVars, text, runtimeVars, part>> /\ TextNext
  \/ /\ part \in {"bound", "process"} /\ UNCHANGED <<vars, dbVars, textVars, part>>
     /\ RuntimeNext /\ OfOneKind(part)

PartsSpec == PartsInit /\ [][PartsNext]_<<vars, dbVars, textVars, runtimeVars, part>>

\* Every text is read as what it was written from: SourceText.
TextsReadBack == part = "texts" => EveryTextReadsBack

\* Every span of a source leads to its node: SourceText.
DiagnosticsLocate == part = "maps" => EverySpanLocates
==============================================================================
