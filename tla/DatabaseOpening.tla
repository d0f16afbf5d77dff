---------------------------- MODULE DatabaseOpening ----------------------------
(****************************************************************************)
(* One database file, and the processes that open it: each inspects what an *)
(* older release has left, moves its snapshots into the compressed table in *)
(* one transaction, and then runs the whole schema script, whose statements *)
(* are committed one by one.  A process may die or meet a busy database at  *)
(* any step, and nothing keeps others from opening the file meanwhile.      *)
(****************************************************************************)
EXTENDS Naturals, Sequences, FiniteSets, FiniteSetsExt

CONSTANTS
  Openers,        \* processes
  Files,          \* the files they may find
  Names,          \* qualified names of modules
  Texts,          \* snapshots
  Size, Packed,   \* bytes of a snapshot, and of its encoding
  SizeLimit, PackedLimit, RevisionLimit, ModuleLimit,
  MaxRevisions    \* bound on the revisions of a file

ASSUME OpeningAssumption ==
  /\ Size \in [Texts -> Nat] /\ Packed \in [Texts -> Nat]
  /\ {SizeLimit, PackedLimit, RevisionLimit, ModuleLimit, MaxRevisions} \subseteq Nat

VARIABLES
  file,     \* schema version and objects, snapshot rows, and root of every revision
  opener,   \* how far each process is
  first,    \* the file as it was found
  kept      \* the snapshots it held, and those committed since

dbVars == <<file, opener, first, kept>>

SchemaVersion == 4

LegacyTable == "table module_snapshots"
Compressed  == "module_snapshots_compressed"
View        == "view module_snapshots"

Relational == {"projects", "revisions", "branches", "operations", "documents"}

\* The objects of the schema, in the order in which the script makes them.
Script == <<"projects", "revisions", "branches", Compressed, View, "operations",
            "documents", "guards", "candidates">>

Objects == {Script[i] : i \in DOMAIN Script} \cup {LegacyTable}

Required(version) ==
  Relational \cup {Compressed} \cup (IF version >= 4 THEN {"candidates"} ELSE {})

Row(table, revision, name, text, hash) ==
  [table |-> table, revision |-> revision, name |-> name, text |-> text, hash |-> hash]

Content(rows) ==
  {<<row.revision, row.name, row.text, row.hash>> : row \in rows}

Closed == [pc |-> "closed"]

OpeningInit ==
  /\ file \in Files
  /\ opener = [p \in Openers |-> Closed]
  /\ first = file
  /\ kept = Content(file.rows)

------------------------------------------------------------------------------
(* The codec of snapshots *)

Compresses(text) == Size[text] <= SizeLimit /\ Packed[text] <= PackedLimit

Decodes(row) ==
  /\ row.hash = row.text
  /\ Size[row.text] <= SizeLimit
  /\ row.table = Compressed => Packed[row.text] <= PackedLimit

TotalSize(modules) == MapThenSumSet(LAMBDA module : Size[module[2]], modules)

\* Does the revision load from this table, whole?  Rows that decode are known by
\* the name and the text of their module.
Loads(f, revision, table) ==
  LET rows    == {row \in f.rows : row.table = table /\ row.revision = revision}
      modules == {<<row.name, row.text>> : row \in rows}
  IN  /\ Cardinality(modules) <= ModuleLimit
      /\ \A row \in rows : Decodes(row)
      /\ TotalSize(modules) <= RevisionLimit
      /\ modules = f.roots[revision]

------------------------------------------------------------------------------
(* Admission of an older database *)

\* A legacy database has no compressed table yet.
Admissible(f) ==
  Required(f.version) \ f.objects \subseteq
    (IF LegacyTable \in f.objects THEN {Compressed} ELSE {})

SnapshotMode(f) == IF Compressed \in f.objects THEN Compressed ELSE LegacyTable

OldFiles ==
  [version : Nat, objects : SUBSET Objects, related : BOOLEAN,
   rows : SUBSET [table : {LegacyTable, Compressed}, revision : Nat, name : Names,
                  text : Texts, hash : Texts],
   roots : Seq(SUBSET (Names \X Texts))]

\* Snapshots are in the one table they are read from and belong to revisions, and
\* there are none without a table for them.
ASSUME FilesAssumption ==
  \A f \in Files :
     /\ f \in OldFiles
     /\ \A row \in f.rows :
          /\ row.table = SnapshotMode(f) /\ row.table \in f.objects
          /\ row.revision \in DOMAIN f.roots
     /\ "revisions" \notin f.objects => f.roots = << >>

\* Parents, heads and sequences of operations are in order, within their projects.
Linked(f) == f.related

\* Mutant: only the relations are inspected.
RelationsOnly(f, table) == table \in f.objects /\ Linked(f)

\* The older table is gone when somebody else has migrated meanwhile.
RowsSound(f, table) ==
  /\ table \in f.objects
  /\ Linked(f)
  /\ \A revision \in DOMAIN f.roots : Loads(f, revision, table)

At(p, pc) == opener[p].pc = pc

Go(p, next) == opener' = [opener EXCEPT ![p] = next]

GoIf(p, test, pc) == Go(p, IF test THEN [pc |-> pc] ELSE Closed)

OnlyReads == UNCHANGED <<file, first, kept>>

ReadVersion(p) ==
  /\ At(p, "closed")
  /\ file.version <= SchemaVersion
  /\ Go(p, [pc |-> IF file.version < SchemaVersion THEN "schema" ELSE "kind"])
  /\ OnlyReads

HasExistingSchema(p) ==
  /\ At(p, "schema")
  /\ Go(p, [pc |-> IF "revisions" \in file.objects THEN "objects" ELSE "kind"])
  /\ OnlyReads

InspectObjects(p) ==
  /\ At(p, "objects")
  /\ Go(p, IF Admissible(file) THEN [pc |-> "rows", table |-> SnapshotMode(file)] ELSE Closed)
  /\ OnlyReads

InspectRows(p) ==
  /\ At(p, "rows")
  /\ GoIf(p, RowsSound(file, opener[p].table), "kind")
  /\ OnlyReads

------------------------------------------------------------------------------
(* Migration and the schema script *)

FirstStatement == [pc |-> "script", next |-> 1]

FindLegacyTable(p) ==
  /\ At(p, "kind")
  /\ Go(p, IF LegacyTable \in file.objects THEN [pc |-> "migrate"] ELSE FirstStatement)
  /\ OnlyReads

Moved(rows) == {[row EXCEPT !.table = Compressed] : row \in rows}

\* Mutant: the new table is committed empty and filled by the rest of the script.
MigrateInSteps(p) ==
  /\ At(p, "migrate")
  /\ \/ /\ LegacyTable \in file.objects
        /\ file' = [file EXCEPT !.objects = (@ \ {LegacyTable}) \cup {Compressed, View},
                                !.rows = {}]
        /\ UNCHANGED opener
     \/ /\ LegacyTable \notin file.objects
        /\ file' = [file EXCEPT !.version = 2, !.rows = Moved(first.rows)]
        /\ Go(p, FirstStatement)
  /\ UNCHANGED <<first, kept>>

\* One transaction, which fails when the table has become a view or a snapshot
\* does not fit its encoding.
Migrate(p) ==
  /\ At(p, "migrate")
  /\ IF LegacyTable \in file.objects /\ \A row \in file.rows : Compresses(row.text)
     THEN /\ file' = [file EXCEPT !.objects = (@ \ {LegacyTable}) \cup {Compressed, View},
                                  !.rows = Moved(@), !.version = 2]
          /\ Go(p, FirstStatement)
     ELSE UNCHANGED file /\ Go(p, Closed)
  /\ UNCHANGED <<first, kept>>

\* Every statement makes its object unless it is there; the version comes last.
RunStatement(p) ==
  /\ At(p, "script")
  /\ LET i == opener[p].next
     IN  IF i <= Len(Script)
         THEN /\ file' = [file EXCEPT !.objects = @ \cup {Script[i]}]
              /\ Go(p, [pc |-> "script", next |-> i + 1])
         ELSE /\ file' = [file EXCEPT !.version = SchemaVersion]
              /\ Go(p, [pc |-> "open"])
  /\ UNCHANGED <<first, kept>>

\* Busy, dead or done.
Leave(p) ==
  /\ ~At(p, "closed")
  /\ Go(p, Closed)
  /\ OnlyReads

\* The limits on a whole revision are not checked here.
StoreRevision(p) ==
  /\ At(p, "open")
  /\ Cardinality(DOMAIN file.roots) < MaxRevisions
  /\ \E names \in SUBSET Names : \E texts \in [names -> {t \in Texts : Compresses(t)}] :
       LET r    == Cardinality(DOMAIN file.roots) + 1
           rows == {Row(Compressed, r, n, texts[n], texts[n]) : n \in names}
       IN  /\ file' = [file EXCEPT !.rows = @ \cup rows,
                 !.roots = [q \in DOMAIN @ \cup {r} |->
                    IF q = r THEN {<<n, texts[n]>> : n \in names} ELSE @[q]]]
           /\ kept' = kept \cup Content(rows)
  /\ UNCHANGED <<opener, first>>

OpeningNext ==
  \E p \in Openers :
     \/ ReadVersion(p) \/ HasExistingSchema(p) \/ InspectObjects(p) \/ InspectRows(p)
     \/ FindLegacyTable(p) \/ Migrate(p) \/ RunStatement(p) \/ Leave(p) \/ StoreRevision(p)

OpeningSpec == OpeningInit /\ [][OpeningNext]_dbVars

------------------------------------------------------------------------------
\* However many processes open a database and wherever they die, every snapshot
\* that was in it or was committed is there once, unchanged, in the one table
\* from which this database is read.
SnapshotsKept ==
  /\ Content(file.rows) = kept
  /\ \A row \in file.rows : row.table = SnapshotMode(file)

\* A database that cannot be upgraded: it is newer, incomplete, inconsistent, or
\* holds a snapshot that no encoding fits.
Refused(f) ==
  \/ f.version > SchemaVersion
  \/ /\ f.version < SchemaVersion
     /\ "revisions" \in f.objects
     /\ ~(/\ Admissible(f) /\ Linked(f)
          /\ \A revision \in DOMAIN f.roots : Loads(f, revision, SnapshotMode(f)))
  \/ LegacyTable \in f.objects /\ \E row \in f.rows : ~Compresses(row.text)

\* A database that is refused stays as it was found; and whoever has opened one
\* finds the whole schema, and every revision that was upgraded loads.
OpenedOrUntouched ==
  /\ Refused(first) => file = first
  /\ \A p \in Openers : At(p, "open") =>
       /\ file.version = SchemaVersion
       /\ {Script[i] : i \in DOMAIN Script} \subseteq file.objects
       /\ LegacyTable \notin file.objects
       /\ first.version < SchemaVersion =>
            \A revision \in DOMAIN first.roots : Loads(file, revision, Compressed)

\* Both: what is in a database outlasts every way of opening it.
DataOutlastsOpening == SnapshotsKept /\ OpenedOrUntouched
==============================================================================
