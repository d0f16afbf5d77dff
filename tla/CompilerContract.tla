--------------------------- MODULE CompilerContract ---------------------------
(****************************************************************************)
(* What Jacquard believes of the weavec binary it calls: the handshake that *)
(* loads the registry of a compiler (WeavecCapabilities), the calls that it *)
(* admits (committed builds, validation, grammar help), and what a build    *)
(* makes of the documents its compiler leaves behind.                       *)
(*                                                                          *)
(* A binary is looked at several times in one call, by path, and whoever    *)
(* installs compilers may replace it between any two of them.  A compiler   *)
(* is the content of a binary, and so its SHA-256.                          *)
(****************************************************************************)
EXTENDS Naturals, Sequences, FiniteSets

CONSTANTS
  Compilers,    \* contents of binaries
  NoCompiler,   \* no file
  Advertised,   \* what each prints for `capabilities --json`
  Targets,      \* compiler targets that builds ask for
  Reports,      \* what a compiler may leave behind a build
  MaxReplaced,  \* bound: replacements of binaries
  MaxStored     \* bound: stored builds

ASSUME ContractAssumption == NoCompiler \notin Compilers /\ {MaxReplaced, MaxStored} \subseteq Nat

\* An executable is there or not; a document that could be read lists entries.
ASSUME ReportsAssumption ==
  \A report \in Reports :
     /\ report.executable \in BOOLEAN
     /\ report.diagnostics.form = "document" =>
          report.diagnostics.entries \in Seq({"error", "malformed"})

VARIABLES
  installed,    \* the binary at the configured path, and one found on PATH
  cache,        \* the registry each of the two readers has loaded last
  grammar,      \* has grammar help had a registry at startup?
  call,         \* the call in progress
  answer,       \* and what the last one has just returned
  stored,       \* successful builds: the compiler that made each
  disturbed,    \* has a binary ever been replaced during a call?
  replaced      \* how often

contractVars == <<installed, cache, grammar, call, answer, stored, disturbed,
                  replaced>>

Places  == {"configured", "found"}
Readers == {"bridge", "workspace"}
Profiles == {"none", "full"}

\* Which binary has printed a registry, and under which hash it is kept.
NoRegistry == [hash |-> NoCompiler, of |-> NoCompiler]

\* `at` is the path and `hash` the binary that the handshake has looked at;
\* `registry` what the caller goes by, `compiler` the binary that it names.
NewCall(kind, pc, reader, target, profile) ==
  [kind |-> kind, pc |-> pc, reader |-> reader, target |-> target, profile |-> profile,
   at |-> "configured", hash |-> NoCompiler, registry |-> NoRegistry, compiler |-> NoCompiler]

NoCall == NewCall("none", "idle", "workspace", "native", "none")

Startup == NewCall("startup", "identify", "workspace", "native", "none")

NoAnswer == [kind |-> "none"]

ContractInit ==
  /\ installed \in [Places -> Compilers \cup {NoCompiler}]
  /\ cache = [r \in Readers |-> NoRegistry]
  /\ grammar = FALSE
  /\ call = Startup
  /\ answer = NoAnswer
  /\ stored = << >>
  /\ disturbed = FALSE
  /\ replaced = 0

------------------------------------------------------------------------------
(* The registry that a compiler prints *)

SupportedCores == {2, 3}

RequiredProtocols(core) ==
  {<<"capabilities", 1>>, <<"build-manifest", 1>>, <<"diagnostics", 1>>, <<"trace", 1>>,
   <<"wir-core", core>>}

NamesOf(pairs) == {pair[1] : pair \in pairs}

\* Every protocol once, and the required ones in their version.
SoundProtocols(protocols, core) ==
  /\ Cardinality(NamesOf(protocols)) = Cardinality(protocols)
  /\ RequiredProtocols(core) \subseteq protocols

\* Commands speak protocols that are advertised.
SoundCommands(commands, protocols) ==
  /\ {"capabilities", "build", "frontend"} \subseteq DOMAIN commands
  /\ \A c \in DOMAIN commands : commands[c] \subseteq NamesOf(protocols)

SoundTargets(targets, default) == default \in targets

\* Forms depend on known features and have a range of children.
SoundSurface(forms, features) ==
  /\ forms # {}
  /\ \A form \in forms : form.min <= form.max /\ form.needs \subseteq features

\* Is this the registry of a compiler that Jacquard can work with?
Validates(registry) ==
  /\ registry.variant = "final"
  /\ registry.core \in SupportedCores
  /\ SoundProtocols(registry.protocols, registry.core)
  /\ SoundCommands(registry.commands, registry.protocols)
  /\ SoundTargets(registry.targets, registry.default)
  /\ SoundSurface(registry.forms, registry.features)

\* A registry that validates has all the commands and protocols that are ever
\* asked for; a target it may lack.
Admits(compiler, target) == target = "native" \/ target \in Advertised[compiler].targets

------------------------------------------------------------------------------
(* Loading it *)

BinaryAt(place) == installed[place]

\* The bridge keeps to its path.  The workspace looks further when it is empty.
PlaceOf(reader) ==
  IF reader = "workspace" /\ BinaryAt("configured") = NoCompiler THEN "found" ELSE "configured"

Steps(next) ==
  /\ call' = next
  /\ UNCHANGED <<installed, cache, grammar, answer, stored, disturbed, replaced>>

\* What a call returns of the compiler: the registry it went by, the binary it
\* names, and the one that has run.
Says(registry, compiler, ran, ok) ==
  [kind |-> call.kind, target |-> call.target, registry |-> registry,
   compiler |-> compiler, ran |-> ran, ok |-> ok, why |-> {}, left |-> "nothing"]

Returns(a) ==
  /\ answer' = a
  /\ call' = NoCall
  /\ UNCHANGED <<installed, cache, grammar, stored, disturbed, replaced>>

\* An error, which leaves grammar help without a registry when it meets the startup.
Fails == Returns(NoAnswer)

\* Mutant: whatever has been loaded once will do.
IdentifyOnce ==
  /\ call.pc = "identify"
  /\ LET place    == PlaceOf(call.reader)
         compiler == BinaryAt(place)
     IN  IF compiler = NoCompiler THEN Fails
         ELSE IF cache[call.reader].hash # NoCompiler
         THEN Steps([call EXCEPT !.pc = "loaded"])
         ELSE Steps([call EXCEPT !.pc = "handshake", !.at = place, !.hash = compiler])

\* Hashing: a file that changes meanwhile is noticed.
Identify ==
  /\ call.pc = "identify"
  /\ LET place    == PlaceOf(call.reader)
         compiler == BinaryAt(place)
     IN  IF compiler = NoCompiler THEN Fails
         ELSE IF cache[call.reader].hash = compiler
         THEN Steps([call EXCEPT !.pc = "loaded"])
         ELSE Steps([call EXCEPT !.pc = "handshake", !.at = place, !.hash = compiler])

\* The bounded run of `capabilities --json`, which may also run out of time.
Handshake ==
  /\ call.pc = "handshake"
  /\ LET compiler == BinaryAt(call.at) IN
     \/ Fails
     \/ /\ compiler # NoCompiler
        /\ Validates(Advertised[compiler])
        /\ cache' = [cache EXCEPT ![call.reader] = [hash |-> call.hash, of |-> compiler]]
        /\ call' = [call EXCEPT !.pc = "loaded"]
        /\ UNCHANGED <<installed, grammar, answer, stored, disturbed, replaced>>

Loaded == cache[call.reader]

LoadedFor(kinds) == call.pc = "loaded" /\ call.kind \in kinds

\* The grammar index is made when the workspace opens, if there is a registry, and
\* keeps the identity that help shows.
NameRegistry ==
  /\ LoadedFor({"startup"})
  /\ grammar' = TRUE
  /\ call' = NoCall
  /\ UNCHANGED <<installed, cache, answer, stored, disturbed, replaced>>

------------------------------------------------------------------------------
(* Calls *)

BeginCall(next) ==
  /\ call.pc = "idle"
  /\ call' = next
  /\ answer' = NoAnswer
  /\ UNCHANGED <<installed, cache, grammar, stored, disturbed, replaced>>

\* The forms come from the registry of this moment.
HelpWithGrammar ==
  \/ /\ grammar
     /\ BeginCall(NewCall("grammar", "identify", "workspace", "native", "none"))
  \/ /\ LoadedFor({"grammar"})
     /\ Returns(Says(Loaded, Loaded.hash, NoCompiler, TRUE))

\* Validation of a merge hashes the compiler first, for the evidence.
StartValidation(kind) ==
  /\ BeginCall([NewCall(kind, "identify", "workspace", "native", "none") EXCEPT
       !.compiler = IF kind = "merge" THEN BinaryAt("configured") ELSE NoCompiler])

AdmitFrontend ==
  /\ LoadedFor({"validate", "merge"})
  /\ Steps([call EXCEPT !.pc = "frontend", !.registry = Loaded,
                        !.compiler = IF call.kind = "merge" THEN @ ELSE Loaded.hash])

\* Valid is what exits with 0 and has written a WIR that can be read.
RunFrontend ==
  /\ call.pc = "frontend"
  /\ \E exit \in {0, 1}, wir \in {"written", "missing", "unreadable"} :
       Returns(Says(call.registry, call.compiler, BinaryAt("configured"),
                    /\ BinaryAt("configured") # NoCompiler
                    /\ exit = 0
                    /\ wir = "written"))

StartBuild(target, profile) ==
  BeginCall(NewCall("build", "identify", "bridge", target, profile))

AdmitBuild ==
  /\ LoadedFor({"build"})
  /\ IF Admits(Loaded.of, call.target)
     THEN Steps([call EXCEPT !.pc = "hash", !.registry = Loaded])
     ELSE Fails

HashCompiler ==
  /\ call.pc = "hash"
  /\ IF BinaryAt("configured") = NoCompiler THEN Fails
     ELSE Steps([call EXCEPT !.compiler = BinaryAt("configured"),
            !.pc = IF call.profile = "none" THEN "key" ELSE "identify",
            !.kind = IF call.profile = "none" THEN "build" ELSE "evidence",
            !.reader = "workspace"])

\* Evidence is asked of the workspace's registry, which must be this compiler's.
RequireEvidence ==
  /\ LoadedFor({"evidence"})
  /\ IF Admits(Loaded.of, call.target) /\ Loaded.hash = call.compiler
     THEN Steps([call EXCEPT !.pc = "key", !.kind = "build"])
     ELSE Fails

BuildId(c) == <<c.compiler, c.target, c.profile>>

\* A stored success is returned as it is.
ReuseBuild ==
  /\ call.pc = "key"
  /\ IF BuildId(call) \in DOMAIN stored
     THEN Returns(Says(call.registry, call.compiler, stored[BuildId(call)], TRUE))
     ELSE Steps([call EXCEPT !.pc = "compile"])

------------------------------------------------------------------------------
(* What the compiler leaves behind: how its process ended, the executable,  *)
(* and two documents, each of which may be missing or unreadable.           *)

Missing    == [form |-> "missing"]
Unreadable == [form |-> "unreadable"]

Parsed(document) == document.form = "document"

\* A process that was stopped or could not start has no code.
NoCode == 2

ReturnCode(report) == IF report.ended = "exit" THEN report.exit ELSE NoCode

Claimed(code) == IF code = 0 THEN "succeeded" ELSE "failed"

\* Mutant: a failure need not come with an entry.
SoundOrSilent(d, code) ==
  /\ code # NoCode => d.exit = code
  /\ d.status = Claimed(d.exit)
  /\ d.status = "succeeded" => d.phase = "complete" /\ d.entries = << >> /\ d.raw = 0
  /\ d.status = "failed" => d.raw # 0
  /\ \A i \in DOMAIN d.entries : d.entries[i] # "malformed"

\* A document of diagnostics that agrees with itself and with the process.
SoundDiagnostics(d, code) ==
  /\ code # NoCode => d.exit = code
  /\ d.status = Claimed(d.exit)
  /\ d.status = "succeeded" => d.phase = "complete" /\ d.entries = << >> /\ d.raw = 0
  /\ d.status = "failed" => d.entries # << >> /\ d.raw # 0
  /\ \A i \in DOMAIN d.entries : d.entries[i] # "malformed"

\* Diagnostics are trusted whole or not at all, and never those of a process that
\* had to be stopped.
Trusted(report) ==
  /\ report.ended \notin {"timeout", "output limit"}
  /\ Parsed(report.diagnostics)
  /\ SoundDiagnostics(report.diagnostics, ReturnCode(report))

\* The manifest must say the same as the process and, if they can be read, as
\* the diagnostics; for this target, with these sources and this output.
SoundManifest(report, target) ==
  LET m == report.manifest
      d == report.diagnostics
  IN  /\ Parsed(m)
      /\ m.status = Claimed(ReturnCode(report))
      /\ Parsed(d) => m.status = d.status
      /\ (m.status = "succeeded") = (m.phase = "complete")
      /\ target # "native" => m.target = target
      /\ m.paths = "as asked"

\* The diagnostics of the build: the compiler's own if they can be trusted, and
\* what the bridge has to say of them and of the manifest.
Complaints(report, target) ==
  (IF Trusted(report) THEN {<<"compiler", i>> : i \in DOMAIN report.diagnostics.entries}
   ELSE {<<"bridge", 1>>})
  \cup (IF SoundManifest(report, target) THEN {} ELSE {<<"bridge", 2>>})

Succeeds(report, target) ==
  /\ ReturnCode(report) = 0
  /\ report.executable
  /\ Trusted(report)
  /\ SoundManifest(report, target)

\* What the compiler says of itself, for the properties.
Left(report) ==
  IF /\ ReturnCode(report) = 0
     /\ Parsed(report.diagnostics) /\ report.diagnostics.status = "succeeded"
     /\ Parsed(report.manifest) /\ report.manifest.status = "succeeded"
  THEN IF report.executable THEN "success" ELSE "success without executable"
  ELSE "failure"

NotStarted ==
  [ended |-> "not started", exit |-> 1, executable |-> FALSE,
   diagnostics |-> Missing, manifest |-> Missing]

Compile ==
  /\ call.pc = "compile"
  /\ LET compiler == BinaryAt("configured") IN
     \E report \in IF compiler = NoCompiler THEN {NotStarted} ELSE Reports :
       LET ok == Succeeds(report, call.target) IN
       /\ ok => Cardinality(DOMAIN stored) < MaxStored
       /\ answer' = [Says(call.registry, call.compiler, compiler, ok) EXCEPT
                       !.why = Complaints(report, call.target), !.left = Left(report)]
       /\ stored' = IF ok THEN [id \in DOMAIN stored \cup {BuildId(call)} |->
                                  IF id = BuildId(call) THEN compiler ELSE stored[id]]
                     ELSE stored
  /\ call' = NoCall
  /\ UNCHANGED <<installed, cache, grammar, disturbed, replaced>>

------------------------------------------------------------------------------
\* Installing, upgrading or removing a compiler.
Install(place, compiler) ==
  /\ replaced < MaxReplaced
  /\ installed[place] # compiler
  /\ replaced' = replaced + 1
  /\ installed' = [installed EXCEPT ![place] = compiler]
  /\ disturbed' = (disturbed \/ call.pc # "idle")
  /\ answer' = NoAnswer
  /\ UNCHANGED <<cache, grammar, call, stored>>

\* The process ends, whatever it was doing, and is started again.
Restart ==
  /\ cache' = [r \in Readers |-> NoRegistry]
  /\ grammar' = FALSE
  /\ call' = Startup
  /\ answer' = NoAnswer
  /\ UNCHANGED <<installed, stored, disturbed, replaced>>

ContractNext ==
  \/ Identify \/ Handshake \/ NameRegistry
  \/ HelpWithGrammar
  \/ \E kind \in {"validate", "merge"} : StartValidation(kind)
  \/ AdmitFrontend \/ RunFrontend
  \/ \E target \in Targets \cup {"native"}, profile \in Profiles : StartBuild(target, profile)
  \/ AdmitBuild \/ HashCompiler \/ RequireEvidence \/ ReuseBuild \/ Compile
  \/ \E place \in Places, c \in Compilers \cup {NoCompiler} : Install(place, c)
  \/ Restart

ContractSpec == ContractInit /\ [][ContractNext]_contractVars

------------------------------------------------------------------------------
\* As long as binaries are replaced between calls only, the registry in a cache
\* is the one of the binary it is kept under; and a build, a stored one too, or a
\* validation was done by the very compiler whose hash and registry it returns,
\* and that registry admits it: what docs/compiler-capability-registry.md says of
\* validation and build admission.
ContractHeld ==
  ~disturbed =>
    /\ \A r \in Readers : cache[r].hash = cache[r].of
    /\ answer.kind \in {"build", "validate", "merge"} /\ answer.ran # NoCompiler =>
         /\ answer.registry = [hash |-> answer.ran, of |-> answer.ran]
         /\ answer.compiler = answer.ran
         /\ Validates(Advertised[answer.ran])
         /\ Admits(answer.ran, answer.target)

\* However a compiler ends and whatever it leaves behind, a build that succeeds
\* has no diagnostics and its compiler agrees; and one that fails says why, but
\* for a compiler that claims to have succeeded and has written no executable.
BuildsExplained ==
  answer.kind = "build" =>
    IF answer.ok THEN answer.why = {} /\ answer.left \in {"success", "nothing"}
    ELSE answer.why # {} \/ answer.left = "success without executable"
==============================================================================
