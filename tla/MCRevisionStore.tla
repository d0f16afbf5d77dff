--------------------------- MODULE MCRevisionStore ---------------------------
(* What calls rely on, apart from each other: two processes on one project  *)
(* with two branches, two documents and one context document; and a process *)
(* that calls compilers which are replaced meanwhile.                       *)
EXTENDS RevisionStore, CompilerContract, TLC

VARIABLE part

Symmetry == Permutations(Clients) \cup Permutations(Modules)

------------------------------------------------------------------------------
\* Registries of two cores and one that contradicts itself.
Final ==
  [variant |-> "final", core |-> 2, protocols |-> RequiredProtocols(2),
   commands |-> [c \in {"capabilities", "build", "frontend"} |-> {"diagnostics"}],
   targets |-> {"x86", "arm"}, default |-> "x86", features |-> {},
   forms |-> {[min |-> 0, max |-> 1, needs |-> {}]}]

SomeRegistries ==
  [c \in Compilers |->
     CASE c = "full" -> Final
       [] c = "later" -> [Final EXCEPT !.core = 3, !.protocols = RequiredProtocols(3), !.targets = {"x86"}]
       [] c = "mixed" -> [Final EXCEPT !.core = 3]]

Document(status, exit, raw, phase, entries) ==
  [form |-> "document", status |-> status, exit |-> exit, raw |-> raw, phase |-> phase,
   entries |-> entries]

SomeDiagnostics ==
  {Missing, Unreadable,
   Document("succeeded", 0, 0, "complete", << >>),
   Document("succeeded", 0, 0, "complete", <<"error">>),
   Document("failed", 1, 1, "codegen", <<"error">>),
   Document("failed", 1, 1, "codegen", << >>),
   Document("failed", 1, 1, "codegen", <<"malformed">>),
   Document("failed", 1, 1, "codegen", <<"malformed">>),
   Document("failed", 0, 1, "codegen", <<"error">>)}

Manifest(status, phase, target, paths) ==
  [form |-> "document", status |-> status, phase |-> phase, target |-> target, paths |-> paths]

SomeManifests ==
  {Missing, Manifest("succeeded", "complete", "x86", "as asked"),
   Manifest("succeeded", "complete", "arm", "as asked"),
   Manifest("succeeded", "complete", "x86", "elsewhere"),
   Manifest("failed", "codegen", "x86", "as asked")}

SomeReports ==
  {[ended |-> end[1], exit |-> end[2], executable |-> executable, diagnostics |-> d,
    manifest |-> m] :
     end \in {<<"exit", 0>>, <<"exit", 1>>, <<"timeout", 1>>, <<"output limit", 1>>},
     executable \in BOOLEAN, d \in SomeDiagnostics, m \in SomeManifests}

------------------------------------------------------------------------------
ContractRest == ContractInit /\ installed = [place \in Places |-> NoCompiler]

PartsInit ==
  \/ part = "repository" /\ Init /\ ContractRest
  \/ part = "compiler" /\ Init /\ ContractInit /\ installed["found"] = "later"

\* The compiler that is found on PATH stays.
PartsNext ==
  \/ part = "repository" /\ Next /\ UNCHANGED <<contractVars, part>>
  \/ /\ part = "compiler" /\ UNCHANGED <<vars, part>>
     /\ ContractNext /\ installed'["found"] = "later"

PartsSpec == PartsInit /\ [][PartsNext]_<<vars, contractVars, part>>
==============================================================================
