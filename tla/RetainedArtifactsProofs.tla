------------------------ MODULE RetainedArtifactsProofs ------------------------
(****************************************************************************)
(* Proofs about RetainedArtifacts, for any finite set of names of any       *)
(* kinds, any publishers, sizes and quota.                                  *)
(*                                                                          *)
(* A quota is kept because whoever may add bytes holds its lock, and what   *)
(* it measured can only have shrunk since, but for entries that operators   *)
(* put back.  A build that could not be put in place gives back what it     *)
(* moved aside: that was counted when it was moved, or was itself put back  *)
(* by an operator, in which case it still is not counted.                   *)
(*                                                                          *)
(* The first part is about sums over a finite set, whose induction is that  *)
(* of the sets of its subsets.                                              *)
(****************************************************************************)
EXTENDS RetainedArtifacts, FiniteSetTheorems, WellFoundedInduction, TLAPS

------------------------------------------------------------------------------
(* Sums                                                                     *)

\* A set G of subsets of S that has every subset whose smaller subsets it has, has S.
LEMMA SubsetInduction ==
  ASSUME NEW S, IsFiniteSet(S), NEW G,
         \A T \in SUBSET S : (\A U \in SUBSET T : U # T => U \in G) => T \in G
  PROVE  S \in G
  <1> DEFINE B == (SUBSET S) \ G
  <1>1. ASSUME S \notin G PROVE FALSE
    <2>1. B \subseteq SUBSET S /\ B # {}
      BY <1>1
    <2>2. IsWellFoundedOn(StrictSubsetOrdering(S), SUBSET S)
      BY FS_StrictSubsetOrderingWellFounded, FS_FiniteSubsetsOfFinite
    <2> HIDE DEF B
    <2>3. PICK T \in B : \A U \in B : ~(<<U, T>> \in StrictSubsetOrdering(S))
      BY <2>1, <2>2, WFMin
    <2> USE DEF B
    <2>4. \A U \in SUBSET T : U # T => U \in G
      BY <2>3 DEF StrictSubsetOrdering
    <2>5. QED
      BY <2>4
  <1>2. QED
    BY <1>1

Taken(S) == CHOOSE x \in S : TRUE

Rest(S) == S \ {Taken(S)}

\* h is what the sum of f is computed with, for all subsets of S.
Adds(f, h, S) ==
  h = [s \in SUBSET S |-> IF s = {} THEN 0 ELSE f[Taken(s)] + h[Rest(s)]]

LEMMA SumUnfolded ==
  ASSUME NEW f, NEW S
  PROVE  SumFunctionOnSet(f, S) = (CHOOSE h : Adds(f, h, S))[S]
  BY DEF SumFunctionOnSet, FoldFunctionOnSet, MapThenFoldSet, Adds, Taken, Rest

LEMMA RestSmaller ==
  ASSUME NEW S, S # {}
  PROVE  Taken(S) \in S /\ Rest(S) \in SUBSET S /\ Rest(S) # S
  BY DEF Taken, Rest

LEMMA AddsUnique ==
  ASSUME NEW f, NEW S, IsFiniteSet(S), NEW g, NEW h, Adds(f, g, S), Adds(f, h, S)
  PROVE  g = h
  <1>1. ASSUME NEW T \in SUBSET S
        PROVE  T \in {s \in SUBSET S : g[s] = h[s]}
    <2> DEFINE G == {s \in SUBSET T : g[s] = h[s]}
    <2>1. ASSUME NEW s \in SUBSET T, \A u \in SUBSET s : u # s => u \in G
          PROVE  s \in G
      <3>1. CASE s = {}
        BY <3>1 DEF Adds
      <3>2. CASE s # {}
        <4>1. g[Rest(s)] = h[Rest(s)]
          BY <2>1, <3>2, RestSmaller
        <4>2. g[s] = f[Taken(s)] + g[Rest(s)] /\ h[s] = f[Taken(s)] + h[Rest(s)]
          BY <3>2 DEF Adds
        <4>3. QED
          BY <4>1, <4>2
      <3>3. QED
        BY <3>1, <3>2
    <2>2. IsFiniteSet(T)
      BY FS_Subset
    <2> HIDE DEF G
    <2>3. T \in G
      BY <2>1, <2>2, SubsetInduction
    <2>4. QED
      BY <2>3 DEF G
  <1>2. QED
    BY <1>1 DEF Adds

LEMMA AddsBelow ==
  ASSUME NEW f, NEW S, NEW h, Adds(f, h, S), NEW T \in SUBSET S
  PROVE  Adds(f, [s \in SUBSET T |-> h[s]], T)
  <1> DEFINE g == [s \in SUBSET T |-> h[s]]
  <1>1. ASSUME NEW s \in SUBSET T, s # {}
        PROVE  g[s] = f[Taken(s)] + g[Rest(s)]
    <2>1. Rest(s) \in SUBSET T
      BY <1>1, RestSmaller
    <2>2. h[s] = f[Taken(s)] + h[Rest(s)]
      BY <1>1 DEF Adds
    <2>3. QED
      BY <2>1, <2>2
  <1>2. g[{}] = 0
    BY DEF Adds
  <1>3. QED
    BY <1>1, <1>2 DEF Adds

LEMMA AddsExists ==
  ASSUME NEW f, NEW S, IsFiniteSet(S)
  PROVE  \E h : Adds(f, h, S)
  <1> DEFINE G == {T \in SUBSET S : \E h : Adds(f, h, T)}
  <1>1. ASSUME NEW T \in SUBSET S, \A U \in SUBSET T : U # T => U \in G
        PROVE  T \in G
    <2> DEFINE below == [U \in SUBSET T |-> CHOOSE g : Adds(f, g, U)]
               h == [s \in SUBSET T |->
                       IF s = {} THEN 0 ELSE f[Taken(s)] + below[Rest(s)][Rest(s)]]
    <2>1. ASSUME NEW U \in SUBSET T, U # T PROVE Adds(f, below[U], U)
      BY <1>1, <2>1
    <2>2. h[{}] = 0 /\ h = [s \in SUBSET T |-> h[s]]
      OBVIOUS
    <2>3. ASSUME NEW s \in SUBSET T, s # {}
          PROVE  h[s] = f[Taken(s)] + below[Rest(s)][Rest(s)]
      BY <2>3
    <2> HIDE DEF h, below
    <2>4. ASSUME NEW U \in SUBSET T, U # T PROVE h[U] = below[U][U]
      <3>1. CASE U = {}
        BY <2>1, <2>2, <3>1, <2>4 DEF Adds
      <3>2. CASE U # {}
        <4>1. Rest(U) \in SUBSET U /\ Rest(U) # T /\ Rest(U) \in SUBSET T /\ IsFiniteSet(Rest(U))
          BY <3>2, RestSmaller, FS_Subset
        <4>2. Adds(f, below[U], U) /\ Adds(f, below[Rest(U)], Rest(U))
          BY <2>1, <2>4, <4>1
        <4>3. Adds(f, [s \in SUBSET Rest(U) |-> below[U][s]], Rest(U))
          BY <4>1, <4>2, AddsBelow
        <4>4. below[Rest(U)] = [s \in SUBSET Rest(U) |-> below[U][s]]
          BY <4>1, <4>2, <4>3, AddsUnique
        <4>5. below[U][U] = f[Taken(U)] + below[U][Rest(U)]
          BY <3>2, <4>2 DEF Adds
        <4>6. QED
          BY <2>3, <3>2, <4>4, <4>5
      <3>3. QED
        BY <3>1, <3>2
    <2>5. ASSUME NEW s \in SUBSET T, s # {} PROVE h[s] = f[Taken(s)] + h[Rest(s)]
      <3>1. Rest(s) \in SUBSET T /\ Rest(s) # T
        BY <2>5, RestSmaller
      <3>2. QED
        BY <2>3, <2>4, <2>5, <3>1
    <2>6. Adds(f, h, T)
      BY <2>2, <2>5 DEF Adds
    <2>7. QED
      BY <2>6
  <1> HIDE DEF G
  <1>2. S \in G
    BY <1>1, SubsetInduction
  <1>3. QED
    BY <1>2 DEF G

LEMMA SumEmpty == ASSUME NEW f PROVE SumFunctionOnSet(f, {}) = 0
  BY SumUnfolded, AddsExists, FS_EmptySet DEF Adds

LEMMA SumTaken ==
  ASSUME NEW f, NEW S, IsFiniteSet(S), S # {}
  PROVE  SumFunctionOnSet(f, S) = f[Taken(S)] + SumFunctionOnSet(f, Rest(S))
  <1>1. PICK h : h = CHOOSE g : Adds(f, g, S)
    OBVIOUS
  <1>2. PICK g : g = CHOOSE k : Adds(f, k, Rest(S))
    OBVIOUS
  <1>3. Rest(S) \in SUBSET S /\ IsFiniteSet(Rest(S))
    BY RestSmaller, FS_Subset
  <1>4. Adds(f, h, S) /\ Adds(f, g, Rest(S))
    BY <1>1, <1>2, <1>3, AddsExists
  <1>5. Adds(f, [s \in SUBSET Rest(S) |-> h[s]], Rest(S))
    BY <1>3, <1>4, AddsBelow
  <1>6. g = [s \in SUBSET Rest(S) |-> h[s]]
    BY <1>3, <1>4, <1>5, AddsUnique
  <1>7. h[S] = f[Taken(S)] + h[Rest(S)]
    BY <1>4 DEF Adds
  <1>8. SumFunctionOnSet(f, S) = h[S] /\ SumFunctionOnSet(f, Rest(S)) = g[Rest(S)]
    BY <1>1, <1>2, SumUnfolded
  <1>9. QED
    BY <1>6, <1>7, <1>8

\* A sum of naturals is one, and it may begin with any element.
LEMMA SumParts ==
  ASSUME NEW f, NEW S, IsFiniteSet(S), \A x \in S : f[x] \in Nat
  PROVE  /\ SumFunctionOnSet(f, S) \in Nat
         /\ \A y \in S : SumFunctionOnSet(f, S) = f[y] + SumFunctionOnSet(f, S \ {y})
  <1> DEFINE G == {T \in SUBSET S :
                     /\ SumFunctionOnSet(f, T) \in Nat
                     /\ \A y \in T : SumFunctionOnSet(f, T) = f[y] + SumFunctionOnSet(f, T \ {y})}
  <1>1. ASSUME NEW T \in SUBSET S, \A U \in SUBSET T : U # T => U \in G
        PROVE  T \in G
    <2>1. CASE T = {}
      <3>1. SumFunctionOnSet(f, T) \in Nat
        BY <2>1, SumEmpty
      <3>2. QED
        BY <2>1, <3>1
    <2>2. CASE T # {}
      <3>1. PICK c \in T : c = Taken(T)
        BY <2>2, RestSmaller
      <3>2. IsFiniteSet(T)
        BY FS_Subset
      <3>3. SumFunctionOnSet(f, T) = f[c] + SumFunctionOnSet(f, T \ {c})
        BY <2>2, <3>1, <3>2, SumTaken DEF Rest
      <3>4. T \ {c} \in G
        BY <1>1
      <3>5. SumFunctionOnSet(f, T \ {c}) \in Nat /\ f[c] \in Nat
        BY <3>4
      <3>6. ASSUME NEW y \in T
            PROVE  SumFunctionOnSet(f, T) = f[y] + SumFunctionOnSet(f, T \ {y})
        <4>1. CASE y = c
          BY <3>3, <4>1
        <4>2. CASE y # c
          <5>1. T \ {y} \in G /\ (T \ {c}) \ {y} \in G
            BY <1>1
          <5>2. SumFunctionOnSet(f, T \ {c}) = f[y] + SumFunctionOnSet(f, (T \ {c}) \ {y})
            BY <3>4, <4>2
          <5>3. SumFunctionOnSet(f, T \ {y}) = f[c] + SumFunctionOnSet(f, (T \ {y}) \ {c})
            BY <5>1, <4>2
          <5>4. (T \ {y}) \ {c} = (T \ {c}) \ {y}
            OBVIOUS
          <5>5. SumFunctionOnSet(f, (T \ {c}) \ {y}) \in Nat /\ f[y] \in Nat
            BY <5>1
          <5> HIDE DEF G
          <5>6. QED
            BY <3>3, <3>5, <5>2, <5>3, <5>4, <5>5
        <4>3. QED
          BY <4>1, <4>2
      <3>7. SumFunctionOnSet(f, T) \in Nat
        BY <3>3, <3>5
      <3>8. QED
        BY <3>6, <3>7
    <2>3. QED
      BY <2>1, <2>2
  <1> HIDE DEF G
  <1>2. S \in G
    BY <1>1, SubsetInduction
  <1>3. QED
    BY <1>2 DEF G

LEMMA SumOrdered ==
  ASSUME NEW f, NEW g, NEW S, IsFiniteSet(S),
         \A x \in S : f[x] \in Nat /\ g[x] \in Nat /\ f[x] <= g[x]
  PROVE  SumFunctionOnSet(f, S) <= SumFunctionOnSet(g, S)
  <1> DEFINE G == {T \in SUBSET S : SumFunctionOnSet(f, T) <= SumFunctionOnSet(g, T)}
  <1>1. ASSUME NEW T \in SUBSET S, \A U \in SUBSET T : U # T => U \in G
        PROVE  T \in G
    <2>1. CASE T = {}
      <3>1. SumFunctionOnSet(f, T) = 0 /\ SumFunctionOnSet(g, T) = 0
        BY <2>1, SumEmpty
      <3>2. QED
        BY <3>1
    <2>2. CASE T # {}
      <3>1. PICK c \in T : TRUE
        BY <2>2
      <3>2. IsFiniteSet(T) /\ IsFiniteSet(T \ {c})
        BY FS_Subset
      <3>3. /\ SumFunctionOnSet(f, T) = f[c] + SumFunctionOnSet(f, T \ {c})
            /\ SumFunctionOnSet(g, T) = g[c] + SumFunctionOnSet(g, T \ {c})
        <4> HIDE DEF G
        <4>1. \A x \in T : f[x] \in Nat /\ g[x] \in Nat
          OBVIOUS
        <4>2. QED
          BY <3>2, <4>1, SumParts
      <3>4. SumFunctionOnSet(f, T \ {c}) \in Nat /\ SumFunctionOnSet(g, T \ {c}) \in Nat
        BY <3>2, SumParts
      <3>5. SumFunctionOnSet(f, T \ {c}) <= SumFunctionOnSet(g, T \ {c})
        BY <1>1
      <3> HIDE DEF G
      <3>6. SumFunctionOnSet(f, T) <= SumFunctionOnSet(g, T)
        BY <3>3, <3>4, <3>5
      <3>7. QED
        BY <3>6 DEF G
    <2>3. QED
      BY <2>1, <2>2
  <1> HIDE DEF G
  <1>2. S \in G
    BY <1>1, SubsetInduction
  <1>3. QED
    BY <1>2 DEF G

\* Where f exceeds g at y only, the sums differ by no more than f and g do there.
LEMMA SumChanges ==
  ASSUME NEW S, IsFiniteSet(S), NEW f \in [S -> Nat], NEW g \in [S -> Nat], NEW y \in S,
         \A x \in S \ {y} : f[x] <= g[x]
  PROVE  SumFunction(f) + g[y] <= SumFunction(g) + f[y]
  <1>1. IsFiniteSet(S \ {y})
    BY FS_Subset
  <1>2. SumFunctionOnSet(f, S \ {y}) <= SumFunctionOnSet(g, S \ {y})
    BY <1>1, SumOrdered
  <1>3. SumFunctionOnSet(f, S \ {y}) \in Nat /\ SumFunctionOnSet(g, S \ {y}) \in Nat
    BY <1>1, SumParts
  <1>4. /\ SumFunctionOnSet(f, S) = f[y] + SumFunctionOnSet(f, S \ {y})
        /\ SumFunctionOnSet(g, S) = g[y] + SumFunctionOnSet(g, S \ {y})
    BY SumParts
  <1>5. SumFunction(f) = SumFunctionOnSet(f, S) /\ SumFunction(g) = SumFunctionOnSet(g, S)
    BY DEF SumFunction
  <1>6. QED
    BY <1>2, <1>3, <1>4, <1>5

------------------------------------------------------------------------------
(* The invariant                                                            *)

Results == [present : BOOLEAN, ok : BOOLEAN, whole : BOOLEAN, synced : BOOLEAN]

PublisherPcs == {"idle", "unsynced", "staged", "admitted", "locked", "aside", "renamed",
                   "copied", "verified"}

PublisherStates == [pc : PublisherPcs, name : Names \cup {AtRest.name}, ok : BOOLEAN,
                    synced : BOOLEAN, aside : Results]

PublicationTypes ==
  /\ kindOf \in KindMaps
  /\ limited \in BOOLEAN
  /\ entry \in [Names -> Results]
  /\ moved \in [Names -> Results]
  /\ returned \subseteq Names
  /\ publisher \in [Publishers -> PublisherStates]
  /\ quotaLock \in Publishers \cup {NoPublisher}
  /\ nameLocks \in [Names -> Publishers \cup {NoPublisher}]
  /\ confirmed \subseteq Names
  /\ restored \in {"none", "foreign", "linked"}
  /\ up \in BOOLEAN

\* What process p may take for granted at each step.
PublisherOK(p) ==
  LET r == publisher[p]
  IN  /\ r.pc # "idle" => r.name \in Names
      /\ r.pc \in {"locked", "aside", "renamed"} => nameLocks[r.name] = p
      /\ limited /\ r.pc \in {"admitted", "locked", "aside", "renamed"} => quotaLock = p
      /\ r.pc \in {"staged", "admitted", "locked"} => r.aside = Nothing
      /\ r.pc = "aside" => kindOf[r.name] = "build" /\ r.aside.present /\ ~Good(r.aside)
      /\ r.pc \in {"staged", "admitted", "locked"} /\ kindOf[r.name] = "backup" => r.ok /\ r.synced
      /\ r.pc = "unsynced" => r.ok /\ r.aside = Nothing
      /\ r.pc = "verified" => r.synced

\* A backup is durable before anybody can find it, here or where it is moved.
Durable(e) == e.present => Good(e) /\ e.synced

BackupOK(n) == Durable(entry[n]) /\ Durable(moved[n])

ConfirmedOK(n) == n \in Backups /\ (entry[n].present \/ moved[n].present)

\* What the holder of the quota's lock has measured, and what it may give back.
RoomLeft(p) ==
  LET r == publisher[p]
      there == Retained(returned \cup {r.name})
  IN  /\ r.pc \in {"admitted", "locked", "aside"} => there + Bytes(r.name, r.ok) <= MaxBytes
      /\ r.pc = "aside" =>
           \/ there + Bytes(r.name, r.aside.ok) <= MaxBytes
           \/ r.name \in returned /\ ~entry[r.name].present /\ ~moved[r.name].present

QuotaOK ==
  limited =>
    /\ Retained(returned) <= MaxBytes
    /\ \A n \in returned : ~moved[n].present
    /\ \A p \in Publishers : RoomLeft(p)

\* The part of the invariant that is not about the quota.
ResultsOK ==
  /\ PublicationTypes
  /\ \A p \in Publishers : PublisherOK(p)
  /\ \A n \in Backups : BackupOK(n)
  /\ \A n \in confirmed : ConfirmedOK(n)

PublicationInv == ResultsOK /\ QuotaOK

------------------------------------------------------------------------------
(* Results and locks                                                        *)

LEMMA NothingFields ==
  /\ Nothing \in Results
  /\ Nothing.present = FALSE /\ Nothing.ok = FALSE
  BY DEF Nothing, Results

LEMMA AtRestFields ==
  /\ AtRest \in PublisherStates
  /\ AtRest.pc = "idle" /\ AtRest.synced = FALSE /\ AtRest.aside = Nothing /\ AtRest.ok = FALSE
  <1>1. PICK n \in Names \cup {AtRest.name} : n = AtRest.name
    OBVIOUS
  <1>2. /\ AtRest.pc = "idle" /\ AtRest.synced = FALSE /\ AtRest.aside = Nothing
        /\ AtRest.ok = FALSE
        /\ AtRest = [pc |-> AtRest.pc, name |-> AtRest.name, ok |-> AtRest.ok,
                     synced |-> AtRest.synced, aside |-> AtRest.aside]
    BY DEF AtRest
  <1>3. QED
    BY <1>1, <1>2, NothingFields DEF PublisherStates, PublisherPcs

\* The locks the other processes hold are left to them.
LocksKept(p) ==
  \A q \in Publishers \ {p} :
     /\ quotaLock = q => quotaLock' = q
     /\ \A n \in Names : nameLocks[n] = q => nameLocks'[n] = q

LEMMA OthersOK ==
  ASSUME ResultsOK, NEW p \in Publishers, NEW q \in Publishers, q # p,
         publisher'[q] = publisher[q], LocksKept(p), UNCHANGED <<kindOf, limited>>
  PROVE  PublisherOK(q)'
  <1>1. PublisherOK(q)
    BY DEF ResultsOK
  <1>2. PICK r : r = publisher[q]
    OBVIOUS
  <1>3. r.pc # "idle" => r.name \in Names
    BY <1>1, <1>2 DEF PublisherOK
  <1>4. /\ quotaLock = q => quotaLock' = q
        /\ r.pc # "idle" /\ nameLocks[r.name] = q => nameLocks'[r.name] = q
    BY <1>3 DEF LocksKept
  <1>5. QED
    BY <1>1, <1>2, <1>3, <1>4 DEF PublisherOK

\* Process p goes on, and leaves the results alone.
LEMMA OnlyGoesOn ==
  ASSUME ResultsOK, NEW p \in Publishers, NEW r \in PublisherStates, Set(p, r),
         UNCHANGED <<kindOf, limited, entry, moved, returned, confirmed, up>>,
         restored' \in {"none", "foreign", "linked"},
         quotaLock' \in Publishers \cup {NoPublisher},
         nameLocks' \in [Names -> Publishers \cup {NoPublisher}],
         LocksKept(p), PublisherOK(p)'
  PROVE  ResultsOK'
  <1>1. PublicationTypes'
    BY DEF ResultsOK, PublicationTypes, Set
  <1>2. ASSUME NEW q \in Publishers PROVE PublisherOK(q)'
    <2>1. CASE q = p
      BY <2>1
    <2>2. CASE q # p
      <3>1. publisher'[q] = publisher[q]
        BY <2>2 DEF ResultsOK, PublicationTypes, Set
      <3>2. QED
        BY <2>2, <3>1, OthersOK
    <2>3. QED
      BY <2>1, <2>2
  <1>3. \A n \in Backups' : BackupOK(n)'
    BY DEF ResultsOK, Backups, BackupOK, Durable, Good
  <1>4. \A n \in confirmed' : ConfirmedOK(n)'
    BY DEF ResultsOK, ConfirmedOK, Backups
  <1>5. QED
    BY <1>1, <1>2, <1>3, <1>4 DEF ResultsOK

\* The state of a process that goes on.
LEMMA GoesOn ==
  ASSUME ResultsOK, NEW p \in Publishers, NEW r, Set(p, r)
  PROVE  publisher'[p] = r
  BY DEF ResultsOK, PublicationTypes, Set

LEMMA PublisherFields ==
  ASSUME ResultsOK, NEW p \in Publishers
  PROVE  publisher[p] \in PublisherStates /\ PublisherOK(p)
  BY DEF ResultsOK, PublicationTypes

LEMMA StageResultOK ==
  ASSUME ResultsOK, NEW p \in Publishers, NEW n \in Names, NEW ok \in BOOLEAN,
         StageResult(p, n, ok), UNCHANGED up
  PROVE  ResultsOK'
  <1> DEFINE r == [AtRest EXCEPT !.pc = IF kindOf[n] = "backup" THEN "unsynced" ELSE "staged",
                                 !.name = n, !.ok = ok]
  <1>1. /\ r \in PublisherStates /\ r.name = n /\ r.ok = ok /\ r.aside = Nothing
        /\ r.pc = IF kindOf[n] = "backup" THEN "unsynced" ELSE "staged"
    BY AtRestFields DEF PublisherStates, PublisherPcs
  <1>2. Set(p, r) /\ (ok \/ kindOf[n] \in {"build", "candidate"})
    BY DEF StageResult
  <1> HIDE DEF r
  <1>3. PublisherOK(p)'
    BY <1>1, <1>2, GoesOn DEF PublisherOK, StageResult
  <1>4. QED
    BY <1>1, <1>2, <1>3, OnlyGoesOn DEF StageResult, LocksKept, ResultsOK, PublicationTypes

LEMMA SyncStageOK ==
  ASSUME ResultsOK, NEW p \in Publishers, SyncStage(p), UNCHANGED up
  PROVE  ResultsOK'
  <1> DEFINE r == [publisher[p] EXCEPT !.pc = "staged", !.synced = TRUE]
  <1>1. /\ r \in PublisherStates /\ r.pc = "staged" /\ r.synced = TRUE
        /\ r.name = publisher[p].name /\ r.ok = publisher[p].ok /\ r.aside = publisher[p].aside
    BY PublisherFields DEF PublisherStates, PublisherPcs
  <1>2. Set(p, r)
    BY DEF SyncStage
  <1> HIDE DEF r
  <1>3. PublisherOK(p)'
    BY <1>1, <1>2, GoesOn, PublisherFields DEF PublisherOK, SyncStage, At
  <1>4. QED
    BY <1>1, <1>2, <1>3, OnlyGoesOn DEF SyncStage, LocksKept, ResultsOK, PublicationTypes

\* A process goes on to another step.
LEMMA GoesFields ==
  ASSUME ResultsOK, NEW p \in Publishers, NEW pc \in PublisherPcs, Goes(p, pc)
  PROVE  \E r \in PublisherStates :
            /\ Set(p, r) /\ r.pc = pc /\ r.name = publisher[p].name /\ r.ok = publisher[p].ok
            /\ r.synced = publisher[p].synced /\ r.aside = publisher[p].aside
  <1>1. PICK r : r = [publisher[p] EXCEPT !.pc = pc]
    OBVIOUS
  <1>2. /\ r \in PublisherStates /\ r.pc = pc /\ r.name = publisher[p].name
        /\ r.ok = publisher[p].ok
        /\ r.synced = publisher[p].synced /\ r.aside = publisher[p].aside
    BY <1>1, PublisherFields DEF PublisherStates
  <1>3. QED
    BY <1>1, <1>2 DEF Goes

LEMMA AdmitOK ==
  ASSUME ResultsOK, NEW p \in Publishers, Admit(p), UNCHANGED up
  PROVE  ResultsOK'
  <1>1. PICK r \in PublisherStates :
           /\ Set(p, r) /\ r.pc = "admitted" /\ r.name = publisher[p].name
           /\ r.ok = publisher[p].ok
           /\ r.synced = publisher[p].synced /\ r.aside = publisher[p].aside
    BY GoesFields DEF Admit, PublisherPcs
  <1>2. PublisherOK(p)'
    BY <1>1, GoesOn, PublisherFields DEF PublisherOK, Admit, At
  <1>3. LocksKept(p)
    BY PublicationAssumption DEF LocksKept, Admit, ResultsOK, PublicationTypes
  <1>4. QED
    BY <1>1, <1>2, <1>3, OnlyGoesOn DEF Admit, ResultsOK, PublicationTypes

LEMMA LockNameOK ==
  ASSUME ResultsOK, NEW p \in Publishers, LockName(p), UNCHANGED up
  PROVE  ResultsOK'
  <1>1. PICK r \in PublisherStates :
           /\ Set(p, r) /\ r.pc = "locked" /\ r.name = publisher[p].name
           /\ r.ok = publisher[p].ok
           /\ r.synced = publisher[p].synced /\ r.aside = publisher[p].aside
    BY GoesFields DEF LockName, PublisherPcs
  <1>2. PublisherOK(p) /\ publisher[p].pc = "admitted" /\ r.name \in Names
    BY <1>1, PublisherFields DEF PublisherOK, LockName, At
  <1>3. nameLocks[r.name] = NoPublisher /\ nameLocks' = [nameLocks EXCEPT ![r.name] = p]
    BY <1>1 DEF LockName, NameOf
  <1>4. nameLocks' \in [Names -> Publishers \cup {NoPublisher}] /\ nameLocks'[r.name] = p
    BY <1>2, <1>3 DEF ResultsOK, PublicationTypes
  <1>5. PublisherOK(p)'
    BY <1>1, <1>2, <1>4, GoesOn DEF PublisherOK, LockName
  <1>6. LocksKept(p)
    BY <1>2, <1>3, PublicationAssumption DEF LocksKept, LockName, ResultsOK, PublicationTypes
  <1>7. QED
    BY <1>1, <1>4, <1>5, <1>6, OnlyGoesOn DEF LockName, ResultsOK, PublicationTypes

LEMMA ReleasesLocks ==
  ASSUME ResultsOK, NEW p \in Publishers, Releases(p)
  PROVE  /\ LocksKept(p)
         /\ quotaLock' \in Publishers \cup {NoPublisher}
         /\ nameLocks' \in [Names -> Publishers \cup {NoPublisher}]
  BY DEF ResultsOK, PublicationTypes, Releases, LocksKept

LEMMA RestingOK ==
  ASSUME ResultsOK, NEW p \in Publishers, Set(p, AtRest)
  PROVE  PublisherOK(p)'
  <1>1. publisher'[p] = AtRest
    BY GoesOn
  <1>2. QED
    BY <1>1, AtRestFields DEF PublisherOK

LEMMA ExceedsOK ==
  ASSUME ResultsOK, NEW p \in Publishers, Exceeds(p), UNCHANGED up
  PROVE  ResultsOK'
  BY RestingOK, AtRestFields, OnlyGoesOn DEF Exceeds, LocksKept, ResultsOK, PublicationTypes

LEMMA DieOK ==
  ASSUME ResultsOK, NEW p \in Publishers, Die(p), UNCHANGED up
  PROVE  ResultsOK'
  BY RestingOK, ReleasesLocks, AtRestFields, OnlyGoesOn DEF Die, ResultsOK, PublicationTypes

LEMMA StartDatabaseRestoreOK ==
  ASSUME ResultsOK, NEW p \in Publishers, NEW n \in Names, StartDatabaseRestore(p, n),
         UNCHANGED up
  PROVE  ResultsOK'
  <1> DEFINE r == [AtRest EXCEPT !.pc = "copied", !.name = n]
  <1>1. r \in PublisherStates /\ r.pc = "copied" /\ r.name = n
    BY AtRestFields DEF PublisherStates, PublisherPcs
  <1>2. Set(p, r)
    BY DEF StartDatabaseRestore
  <1> HIDE DEF r
  <1>3. PublisherOK(p)'
    BY <1>1, <1>2, GoesOn DEF PublisherOK
  <1>4. QED
    BY <1>1, <1>2, <1>3, OnlyGoesOn
    DEF StartDatabaseRestore, LocksKept, ResultsOK, PublicationTypes

LEMMA SyncCopyOK ==
  ASSUME ResultsOK, NEW p \in Publishers, SyncCopy(p), UNCHANGED up
  PROVE  ResultsOK'
  <1> DEFINE r == [publisher[p] EXCEPT !.pc = "verified", !.synced = TRUE]
  <1>1. /\ r \in PublisherStates /\ r.pc = "verified" /\ r.synced = TRUE
        /\ r.name = publisher[p].name
    BY PublisherFields DEF PublisherStates, PublisherPcs
  <1>2. Set(p, r)
    BY DEF SyncCopy
  <1> HIDE DEF r
  <1>3. PublisherOK(p)'
    BY <1>1, <1>2, GoesOn, PublisherFields DEF PublisherOK, SyncCopy, At
  <1>4. QED
    BY <1>1, <1>2, <1>3, OnlyGoesOn DEF SyncCopy, LocksKept, ResultsOK, PublicationTypes

\* A restored database is synchronized before it is linked.
LEMMA LinkCopyOK ==
  ASSUME ResultsOK, NEW p \in Publishers, LinkCopy(p), UNCHANGED up
  PROVE  ResultsOK'
  <1>1. publisher[p].synced = TRUE
    BY PublisherFields DEF PublisherOK, PublisherStates, LinkCopy, At
  <1>2. restored' \in {"none", "foreign", "linked"}
    BY <1>1 DEF LinkCopy, ResultsOK, PublicationTypes
  <1>3. QED
    BY <1>2, RestingOK, AtRestFields, OnlyGoesOn
    DEF LinkCopy, LocksKept, ResultsOK, PublicationTypes

LEMMA OccupyOK ==
  ASSUME ResultsOK, Occupy, UNCHANGED up
  PROVE  ResultsOK'
  BY DEF ResultsOK, Occupy, PublicationTypes, PublisherOK, Backups, BackupOK, Durable, Good,
     ConfirmedOK

------------------------------------------------------------------------------
(* Publication, operators and power failures                                *)

\* Process p goes on and changes the results.
LEMMA ChangesResults ==
  ASSUME ResultsOK, NEW p \in Publishers, NEW r \in PublisherStates, Set(p, r),
         UNCHANGED <<kindOf, limited, restored, up>>,
         entry' \in [Names -> Results], moved' \in [Names -> Results],
         returned' \subseteq Names, confirmed' \subseteq Names,
         quotaLock' \in Publishers \cup {NoPublisher},
         nameLocks' \in [Names -> Publishers \cup {NoPublisher}],
         LocksKept(p), PublisherOK(p)',
         \A n \in Backups : BackupOK(n)',
         \A n \in confirmed' : ConfirmedOK(n)'
  PROVE  ResultsOK'
  <1>1. PublicationTypes'
    BY DEF ResultsOK, PublicationTypes, Set
  <1>2. ASSUME NEW q \in Publishers PROVE PublisherOK(q)'
    <2>1. CASE q = p
      BY <2>1
    <2>2. CASE q # p
      <3>1. publisher'[q] = publisher[q]
        BY <2>2 DEF ResultsOK, PublicationTypes, Set
      <3>2. QED
        BY <2>2, <3>1, OthersOK
    <2>3. QED
      BY <2>1, <2>2
  <1>3. Backups' = Backups
    BY DEF Backups
  <1>4. QED
    BY <1>1, <1>2, <1>3 DEF ResultsOK

\* A backup is reported to its caller when it can be found.
LEMMA ReportsOK ==
  ASSUME ResultsOK, NEW p \in Publishers, UNCHANGED <<kindOf, limited, entry, moved>>,
         publisher[p].name \in Names,
         confirmed' = IF KindAt(p) = "backup" /\ Good(entry[NameOf(p)])
                      THEN confirmed \cup {NameOf(p)} ELSE confirmed
  PROVE  /\ confirmed' \subseteq Names
         /\ \A n \in confirmed' : ConfirmedOK(n)'
         /\ \A n \in Backups : BackupOK(n)'
  BY DEF ResultsOK, PublicationTypes, ConfirmedOK, Backups, KindAt, NameOf, Good, BackupOK, Durable

LEMMA DiscardOK ==
  ASSUME ResultsOK, NEW p \in Publishers, Discard(p), UNCHANGED up
  PROVE  ResultsOK'
  <1>1. publisher[p].name \in Names
    BY PublisherFields DEF PublisherOK, Discard, At
  <1>2. QED
    BY <1>1, RestingOK, ReportsOK, ReleasesLocks, AtRestFields, ChangesResults
    DEF Discard, ResultsOK, PublicationTypes

LEMMA FinishOK ==
  ASSUME ResultsOK, NEW p \in Publishers, Finish(p), UNCHANGED up
  PROVE  ResultsOK'
  <1>1. publisher[p].name \in Names
    BY PublisherFields DEF PublisherOK, Finish, At
  <1>2. QED
    BY <1>1, RestingOK, ReportsOK, ReleasesLocks, AtRestFields, ChangesResults
    DEF Finish, ResultsOK, PublicationTypes

\* Only a build that is not good is moved aside.
LEMMA MoveAsideFacts ==
  ASSUME ResultsOK, NEW p \in Publishers, MoveAside(p)
  PROVE  \E n \in Names, r \in PublisherStates :
            /\ n = publisher[p].name /\ kindOf[n] = "build" /\ nameLocks[n] = p
            /\ limited => quotaLock = p
            /\ entry[n].present /\ ~Good(entry[n])
            /\ publisher[p].pc = "locked"
            /\ Set(p, r) /\ r.pc = "aside" /\ r.name = n /\ r.ok = publisher[p].ok
            /\ r.aside = entry[n]
            /\ entry' = [entry EXCEPT ![n] = Nothing]
  <1>1. PICK n \in Names : n = publisher[p].name
    BY PublisherFields DEF PublisherOK, MoveAside, At
  <1>2. PICK r : r = [publisher[p] EXCEPT !.pc = "aside", !.aside = entry[n]]
    OBVIOUS
  <1>3. entry[n] \in Results
    BY DEF ResultsOK, PublicationTypes
  <1>4. /\ r \in PublisherStates /\ r.pc = "aside" /\ r.name = n /\ r.ok = publisher[p].ok
        /\ r.aside = entry[n]
    BY <1>1, <1>2, <1>3, PublisherFields DEF PublisherStates, PublisherPcs
  <1>5. Set(p, r) /\ entry' = [entry EXCEPT ![n] = Nothing]
    BY <1>1, <1>2 DEF MoveAside, NameOf
  <1>6. /\ kindOf[n] = "build" /\ entry[n].present /\ ~Good(entry[n])
        /\ publisher[p].pc = "locked"
    BY <1>1 DEF MoveAside, Superseded, KindAt, NameOf, At
  <1>7. nameLocks[n] = p /\ (limited => quotaLock = p)
    BY <1>1, <1>6, PublisherFields DEF PublisherOK
  <1>8. QED
    BY <1>1, <1>4, <1>5, <1>6, <1>7

LEMMA MoveAsideOK ==
  ASSUME ResultsOK, NEW p \in Publishers, MoveAside(p), UNCHANGED up
  PROVE  ResultsOK'
  <1>1. PICK n \in Names, r \in PublisherStates :
            /\ n = publisher[p].name /\ kindOf[n] = "build" /\ nameLocks[n] = p
            /\ limited => quotaLock = p
            /\ entry[n].present /\ ~Good(entry[n])
            /\ publisher[p].pc = "locked"
            /\ Set(p, r) /\ r.pc = "aside" /\ r.name = n /\ r.ok = publisher[p].ok
            /\ r.aside = entry[n]
            /\ entry' = [entry EXCEPT ![n] = Nothing]
    BY MoveAsideFacts
  <1>2. UNCHANGED <<kindOf, limited, moved, returned, quotaLock, nameLocks, confirmed, restored>>
    BY DEF MoveAside
  <1>3. PublisherOK(p)'
    BY <1>1, <1>2, GoesOn DEF PublisherOK
  <1>4. entry' \in [Names -> Results] /\ \A m \in Names \ {n} : entry'[m] = entry[m]
    BY <1>1, NothingFields DEF ResultsOK, PublicationTypes
  <1>5. n \notin Backups
    BY <1>1 DEF Backups
  <1>6. \A m \in Backups : BackupOK(m)'
    BY <1>2, <1>4, <1>5 DEF ResultsOK, BackupOK, Durable, Good, Backups
  <1>7. \A m \in confirmed' : ConfirmedOK(m)'
    BY <1>2, <1>4, <1>5 DEF ResultsOK, ConfirmedOK, Backups
  <1>8. QED
    BY <1>1, <1>2, <1>3, <1>4, <1>6, <1>7, ChangesResults
    DEF LocksKept, ResultsOK, PublicationTypes

\* What is renamed into place is complete, and a backup is synchronized.
LEMMA RenameFacts ==
  ASSUME ResultsOK, NEW p \in Publishers, Rename(p)
  PROVE  \E n \in Names, e \in Results, r \in PublisherStates :
            /\ n = publisher[p].name /\ nameLocks[n] = p
            /\ limited => quotaLock = p
            /\ ~entry[n].present
            /\ publisher[p].pc \in {"locked", "aside"}
            /\ e.present /\ e.whole /\ e.ok = publisher[p].ok
            /\ kindOf[n] = "backup" => e.ok /\ e.synced
            /\ entry' = [entry EXCEPT ![n] = e]
            /\ returned' = returned \ {n}
            /\ Set(p, r) /\ r.pc = "renamed" /\ r.name = n
  <1>1. PICK n \in Names : n = publisher[p].name
    BY PublisherFields DEF PublisherOK, Rename, At
  <1>2. PICK e : e = [present |-> TRUE, ok |-> publisher[p].ok, whole |-> TRUE,
                      synced |-> publisher[p].synced]
    OBVIOUS
  <1>3. /\ e \in Results /\ e.present /\ e.whole /\ e.ok = publisher[p].ok
        /\ e.synced = publisher[p].synced
    BY <1>2, PublisherFields DEF Results, PublisherStates
  <1>4. PICK r \in PublisherStates : Set(p, r) /\ r.pc = "renamed" /\ r.name = n
    BY <1>1, GoesFields DEF Rename, PublisherPcs
  <1>5. /\ entry' = [entry EXCEPT ![n] = e] /\ returned' = returned \ {n}
        /\ ~entry[n].present /\ publisher[p].pc \in {"locked", "aside"}
    BY <1>1, <1>2 DEF Rename, NameOf, At
  <1>6. /\ nameLocks[n] = p /\ (limited => quotaLock = p)
        /\ kindOf[n] = "backup" => publisher[p].ok /\ publisher[p].synced
    BY <1>1, <1>5, PublisherFields DEF PublisherOK
  <1>7. QED
    BY <1>1, <1>3, <1>4, <1>5, <1>6

LEMMA RenameOK ==
  ASSUME ResultsOK, NEW p \in Publishers, Rename(p), UNCHANGED up
  PROVE  ResultsOK'
  <1>1. PICK n \in Names, e \in Results, r \in PublisherStates :
            /\ n = publisher[p].name /\ nameLocks[n] = p
            /\ limited => quotaLock = p
            /\ ~entry[n].present
            /\ publisher[p].pc \in {"locked", "aside"}
            /\ e.present /\ e.whole /\ e.ok = publisher[p].ok
            /\ kindOf[n] = "backup" => e.ok /\ e.synced
            /\ entry' = [entry EXCEPT ![n] = e]
            /\ returned' = returned \ {n}
            /\ Set(p, r) /\ r.pc = "renamed" /\ r.name = n
    BY RenameFacts
  <1>2. UNCHANGED <<kindOf, limited, moved, quotaLock, nameLocks, confirmed, restored>>
    BY DEF Rename
  <1>3. PublisherOK(p)'
    BY <1>1, <1>2, GoesOn DEF PublisherOK
  <1>4. entry' \in [Names -> Results] /\ entry'[n] = e /\ \A m \in Names \ {n} : entry'[m] = entry[m]
    BY <1>1 DEF ResultsOK, PublicationTypes
  <1>5. \A m \in Backups : BackupOK(m)'
    BY <1>1, <1>2, <1>4 DEF ResultsOK, BackupOK, Durable, Good, Backups
  <1>6. \A m \in confirmed' : ConfirmedOK(m)'
    BY <1>1, <1>2, <1>4 DEF ResultsOK, ConfirmedOK, Backups
  <1>7. QED
    BY <1>1, <1>2, <1>3, <1>4, <1>5, <1>6, ChangesResults
    DEF LocksKept, ResultsOK, PublicationTypes

\* Only a build moves anything aside, and gives back what is no good one.
LEMMA RenameFailsFacts ==
  ASSUME ResultsOK, NEW p \in Publishers, RenameFails(p)
  PROVE  \E n \in Names, e \in Results :
            /\ n = publisher[p].name /\ e = publisher[p].aside
            /\ limited => quotaLock = p
            /\ entry' = IF entry[n].present THEN entry ELSE [entry EXCEPT ![n] = e]
            /\ \/ publisher[p].pc = "locked" /\ ~entry[n].present /\ e = Nothing
               \/ publisher[p].pc = "aside" /\ kindOf[n] = "build" /\ e.present /\ ~Good(e)
  <1>1. PICK n \in Names : n = publisher[p].name
    BY PublisherFields DEF PublisherOK, RenameFails, At
  <1>2. PICK e \in Results : e = publisher[p].aside
    BY PublisherFields DEF PublisherStates
  <1>3. entry' = IF entry[n].present THEN entry ELSE [entry EXCEPT ![n] = e]
    BY <1>1, <1>2 DEF RenameFails, NameOf
  <1>4. /\ publisher[p].pc \in {"locked", "aside"}
        /\ publisher[p].pc = "locked" => ~entry[n].present
    BY <1>1 DEF RenameFails, NameOf, At
  <1>5. QED
    BY <1>1, <1>2, <1>3, <1>4, PublisherFields DEF PublisherOK

LEMMA RenameFailsOK ==
  ASSUME ResultsOK, NEW p \in Publishers, RenameFails(p), UNCHANGED up
  PROVE  ResultsOK'
  <1>1. PICK n \in Names, e \in Results :
            /\ n = publisher[p].name /\ e = publisher[p].aside
            /\ limited => quotaLock = p
            /\ entry' = IF entry[n].present THEN entry ELSE [entry EXCEPT ![n] = e]
            /\ \/ publisher[p].pc = "locked" /\ ~entry[n].present /\ e = Nothing
               \/ publisher[p].pc = "aside" /\ kindOf[n] = "build" /\ e.present /\ ~Good(e)
    BY RenameFailsFacts
  <1>2. UNCHANGED <<kindOf, limited, moved, returned, confirmed, restored>> /\ Set(p, AtRest)
    BY DEF RenameFails
  <1>3. /\ entry' \in [Names -> Results] /\ \A m \in Names \ {n} : entry'[m] = entry[m]
        /\ ~entry'[n].present => ~entry[n].present
        /\ n \in Backups => entry'[n] \in {entry[n], Nothing}
    BY <1>1 DEF ResultsOK, PublicationTypes, Backups
  <1>4. \A m \in Backups : BackupOK(m)'
    BY <1>2, <1>3, NothingFields DEF ResultsOK, BackupOK, Durable, Good, Backups
  <1>5. \A m \in confirmed' : ConfirmedOK(m)'
    BY <1>2, <1>3, NothingFields DEF ResultsOK, ConfirmedOK, Backups
  <1>6. Releases(p)
    BY DEF RenameFails
  <1>7. QED
    BY <1>2, <1>3, <1>4, <1>5, <1>6, RestingOK, ReleasesLocks, AtRestFields, ChangesResults
    DEF ResultsOK, PublicationTypes

LEMMA MoveOutOK ==
  ASSUME ResultsOK, NEW n \in Names, MoveOut(n), UNCHANGED up
  PROVE  ResultsOK'
  <1>1. /\ entry' \in [Names -> Results] /\ moved' \in [Names -> Results]
        /\ entry'[n] = Nothing /\ moved'[n] = entry[n] /\ entry[n].present
        /\ \A m \in Names \ {n} : entry'[m] = entry[m] /\ moved'[m] = moved[m]
    BY NothingFields DEF ResultsOK, PublicationTypes, MoveOut
  <1>2. PublicationTypes'
    BY <1>1 DEF ResultsOK, PublicationTypes, MoveOut
  <1>3. \A p \in Publishers : PublisherOK(p)'
    BY DEF ResultsOK, PublisherOK, MoveOut
  <1>4. \A m \in Backups' : BackupOK(m)'
    BY <1>1, NothingFields DEF ResultsOK, Backups, BackupOK, Durable, Good, MoveOut
  <1>5. \A m \in confirmed' : ConfirmedOK(m)'
    BY <1>1 DEF ResultsOK, ConfirmedOK, Backups, MoveOut
  <1>6. QED
    BY <1>2, <1>3, <1>4, <1>5 DEF ResultsOK

LEMMA PutBackOK ==
  ASSUME ResultsOK, NEW n \in Names, PutBack(n), UNCHANGED up
  PROVE  ResultsOK'
  <1>1. /\ entry' \in [Names -> Results] /\ moved' \in [Names -> Results]
        /\ entry'[n] = moved[n] /\ moved'[n] = Nothing /\ moved[n].present
        /\ \A m \in Names \ {n} : entry'[m] = entry[m] /\ moved'[m] = moved[m]
    BY NothingFields DEF ResultsOK, PublicationTypes, PutBack
  <1>2. PublicationTypes'
    BY <1>1 DEF ResultsOK, PublicationTypes, PutBack
  <1>3. \A p \in Publishers : PublisherOK(p)'
    BY DEF ResultsOK, PublisherOK, PutBack
  <1>4. \A m \in Backups' : BackupOK(m)'
    BY <1>1, NothingFields DEF ResultsOK, Backups, BackupOK, Durable, Good, PutBack
  <1>5. \A m \in confirmed' : ConfirmedOK(m)'
    BY <1>1 DEF ResultsOK, ConfirmedOK, Backups, PutBack
  <1>6. QED
    BY <1>2, <1>3, <1>4, <1>5 DEF ResultsOK

\* What a power failure leaves of an entry.
LEMMA PowerFailsFacts ==
  ASSUME ResultsOK, PowerFails, NEW n \in Names
  PROVE  /\ entry'[n] \in Results
         /\ \/ entry'[n] = entry[n]
            \/ /\ entry[n].present /\ n \notin confirmed /\ entry'[n] = Nothing
            \/ /\ entry[n].present /\ ~entry[n].synced
               /\ entry'[n].present /\ ~entry'[n].whole
               /\ entry'[n].ok = entry[n].ok /\ entry'[n].synced = entry[n].synced
  <1>1. PICK lost \in SUBSET {m \in Names : entry[m].present /\ m \notin confirmed},
             torn \in SUBSET {m \in Names : entry[m].present /\ ~entry[m].synced} :
          entry' = [m \in Names |-> IF m \in torn THEN [entry[m] EXCEPT !.whole = FALSE]
                                    ELSE IF m \in lost THEN Nothing ELSE entry[m]]
    BY DEF PowerFails
  <1>2. PICK e \in Results : e = entry[n]
    BY DEF ResultsOK, PublicationTypes
  <1>3. PICK d : d = [e EXCEPT !.whole = FALSE]
    OBVIOUS
  <1>4. d \in Results /\ d.present = e.present /\ ~d.whole /\ d.ok = e.ok /\ d.synced = e.synced
    BY <1>2, <1>3 DEF Results
  <1>5. entry'[n] = IF n \in torn THEN d ELSE IF n \in lost THEN Nothing ELSE e
    BY <1>1, <1>2, <1>3
  <1>6. QED
    BY <1>1, <1>2, <1>4, <1>5, NothingFields

LEMMA PowerFailsOK ==
  ASSUME ResultsOK, PowerFails
  PROVE  ResultsOK'
  <1>1. UNCHANGED <<kindOf, limited, moved, returned, confirmed>> /\ up' = FALSE
    BY DEF PowerFails
  <1>2. entry' \in [Names -> Results]
    <2>1. DOMAIN entry' = Names /\ entry' = [n \in Names |-> entry'[n]]
      BY DEF PowerFails
    <2>2. QED
      BY <2>1, PowerFailsFacts
  <1>3. publisher' \in [Publishers -> PublisherStates] /\ \A p \in Publishers : publisher'[p] = AtRest
    BY AtRestFields DEF PowerFails
  <1>4. restored' \in {"none", "foreign", "linked"}
    BY DEF PowerFails, ResultsOK, PublicationTypes
  <1>5. /\ quotaLock' \in Publishers \cup {NoPublisher}
        /\ nameLocks' \in [Names -> Publishers \cup {NoPublisher}]
    BY DEF PowerFails
  <1>6. PublicationTypes'
    BY <1>1, <1>2, <1>3, <1>4, <1>5 DEF ResultsOK, PublicationTypes
  <1>7. \A p \in Publishers : PublisherOK(p)'
    BY <1>3, AtRestFields DEF PublisherOK
  <1>8. ASSUME NEW n \in Backups PROVE BackupOK(n)'
    <2>1. n \in Names /\ BackupOK(n)
      BY DEF Backups, ResultsOK
    <2>2. QED
      BY <1>1, <2>1, PowerFailsFacts, NothingFields DEF BackupOK, Durable, Good
  <1>9. ASSUME NEW n \in confirmed PROVE ConfirmedOK(n)'
    <2>1. n \in Names /\ ConfirmedOK(n)
      BY DEF ResultsOK, PublicationTypes
    <2>2. QED
      BY <1>1, <2>1, PowerFailsFacts DEF ConfirmedOK, Backups
  <1>10. QED
    BY <1>1, <1>6, <1>7, <1>8, <1>9 DEF ResultsOK, Backups

LEMMA PowerReturnsOK ==
  ASSUME ResultsOK, PowerReturns
  PROVE  ResultsOK'
  BY DEF ResultsOK, PowerReturns, PublicationTypes, PublisherOK, Backups, BackupOK, Durable,
     Good, ConfirmedOK

LEMMA StillOK ==
  ASSUME ResultsOK, UNCHANGED publication
  PROVE  ResultsOK'
  BY DEF ResultsOK, publication, PublicationTypes, PublisherOK, Backups, BackupOK, Durable,
     Good, ConfirmedOK

------------------------------------------------------------------------------
(* The quota                                                                *)

\* What each name counts for, of the results e and without the names X.
Counted(e, X) ==
  [n \in Names |-> IF e[n].present /\ n \notin X THEN Bytes(n, e[n].ok) ELSE 0]

LEMMA CountedType ==
  ASSUME NEW e \in [Names -> Results], NEW X
  PROVE  /\ Counted(e, X) \in [Names -> Nat]
         /\ SumFunction(Counted(e, X)) \in Nat
  <1>1. Counted(e, X) \in [Names -> Nat]
    BY PublicationAssumption DEF Counted, Bytes
  <1>2. PICK f \in [Names -> Nat] : f = Counted(e, X)
    BY <1>1
  <1>3. SumFunctionOnSet(f, Names) \in Nat
    BY SumParts, PublicationAssumption
  <1>4. QED
    BY <1>1, <1>2, <1>3 DEF SumFunction

\* d counts no more than e at name n, with other names left out.
NoMore(d, Y, e, X, n) ==
  d[n].present /\ n \notin Y => e[n].present /\ n \notin X /\ d[n].ok = e[n].ok

LEMMA CountsLess ==
  ASSUME NEW d \in [Names -> Results], NEW e \in [Names -> Results], NEW X, NEW Y,
         \A n \in Names : NoMore(d, Y, e, X, n)
  PROVE  SumFunction(Counted(d, Y)) <= SumFunction(Counted(e, X))
  <1>1. PICK f \in [Names -> Nat], g \in [Names -> Nat] : f = Counted(d, Y) /\ g = Counted(e, X)
    BY CountedType
  <1>2. \A n \in Names : f[n] <= g[n]
    <2>1. ASSUME NEW n \in Names PROVE f[n] = 0 \/ f[n] = g[n]
      BY <1>1 DEF Counted, NoMore
    <2>2. QED
      BY <2>1
  <1>3. SumFunctionOnSet(f, Names) <= SumFunctionOnSet(g, Names)
    BY <1>2, SumOrdered, PublicationAssumption
  <1>4. QED
    BY <1>1, <1>3 DEF SumFunction

\* d counts no more than e except at name m.
LEMMA CountsChange ==
  ASSUME NEW d \in [Names -> Results], NEW e \in [Names -> Results], NEW X, NEW Y,
         NEW m \in Names,
         \A n \in Names \ {m} : NoMore(d, Y, e, X, n)
  PROVE  SumFunction(Counted(d, Y)) + Counted(e, X)[m] <= SumFunction(Counted(e, X)) + Counted(d, Y)[m]
  <1>1. PICK f \in [Names -> Nat], g \in [Names -> Nat] : f = Counted(d, Y) /\ g = Counted(e, X)
    BY CountedType
  <1>2. \A n \in Names \ {m} : f[n] <= g[n]
    <2>1. ASSUME NEW n \in Names \ {m} PROVE f[n] = 0 \/ f[n] = g[n]
      BY <1>1 DEF Counted, NoMore
    <2>2. QED
      BY <2>1
  <1>3. SumFunction(f) + g[m] <= SumFunction(g) + f[m]
    BY <1>2, SumChanges, PublicationAssumption
  <1>4. QED
    BY <1>1, <1>3

LEMMA BytesType ==
  ASSUME NEW n \in Names, NEW ok \in BOOLEAN
  PROVE  Bytes(n, ok) \in Nat
  BY PublicationAssumption DEF Bytes

\* The quota of the name whose publication goes on, in terms of what is counted.
RoomFor(e, m, X, r) ==
  /\ r.pc \in {"admitted", "locked", "aside"} =>
       SumFunction(Counted(e, X \cup {r.name})) + Bytes(r.name, r.ok) <= MaxBytes
  /\ r.pc = "aside" =>
       \/ SumFunction(Counted(e, X \cup {r.name})) + Bytes(r.name, r.aside.ok) <= MaxBytes
       \/ r.name \in X /\ ~e[r.name].present /\ ~m[r.name].present

QuotaFor(l, e, m, X, publishers) ==
  l =>
    /\ SumFunction(Counted(e, X)) <= MaxBytes
    /\ \A n \in X : ~m[n].present
    /\ \A p \in Publishers : RoomFor(e, m, X, publishers[p])

LEMMA QuotaNow == QuotaOK <=> QuotaFor(limited, entry, moved, returned, publisher)
  BY DEF QuotaOK, QuotaFor, RoomLeft, RoomFor, Retained, Counted

LEMMA QuotaThen == QuotaOK' <=> QuotaFor(limited', entry', moved', returned', publisher')
  BY DEF QuotaOK, QuotaFor, RoomLeft, RoomFor, Retained, Counted

\* Where nothing is added, the room of a publication that goes on is left.
LEMMA RoomStays ==
  ASSUME NEW e \in [Names -> Results], NEW d \in [Names -> Results], NEW m, NEW k,
         NEW X, NEW Y, NEW r \in PublisherStates, RoomFor(e, m, X, r),
         r.pc # "idle" => r.name \in Names,
         \A n \in Names : NoMore(d, Y, e, X, n),
         r.name \in X /\ ~e[r.name].present /\ ~m[r.name].present =>
           r.name \in Y /\ ~d[r.name].present /\ ~k[r.name].present
  PROVE  RoomFor(d, k, Y, r)
  <1>1. PICK x : x = SumFunction(Counted(e, X \cup {r.name}))
    OBVIOUS
  <1>2. PICK y : y = SumFunction(Counted(d, Y \cup {r.name}))
    OBVIOUS
  <1>3. x \in Nat /\ y \in Nat
    BY <1>1, <1>2, CountedType
  <1>4. y <= x
    <2>1. \A n \in Names : NoMore(d, Y \cup {r.name}, e, X \cup {r.name}, n)
      BY DEF NoMore
    <2>2. QED
      BY <2>1, <1>1, <1>2, CountsLess
  <1>5. r.ok \in BOOLEAN /\ r.aside.ok \in BOOLEAN
    BY DEF PublisherStates, Results
  <1>6. r.name \in Names => Bytes(r.name, r.ok) \in Nat /\ Bytes(r.name, r.aside.ok) \in Nat
    BY <1>5, BytesType
  <1>7. r.pc # "idle" /\ x + Bytes(r.name, r.ok) <= MaxBytes => y + Bytes(r.name, r.ok) <= MaxBytes
    BY <1>3, <1>4, <1>6, PublicationAssumption
  <1>8. r.pc # "idle" /\ x + Bytes(r.name, r.aside.ok) <= MaxBytes
          => y + Bytes(r.name, r.aside.ok) <= MaxBytes
    BY <1>3, <1>4, <1>6, PublicationAssumption
  <1>9. QED
    BY <1>1, <1>2, <1>7, <1>8 DEF RoomFor

\* A step that adds nothing keeps the quota, if the processes it moves have room.
LEMMA NothingAdded ==
  ASSUME PublicationInv, ResultsOK', limited' = limited,
         \A n \in Names : NoMore(entry', returned', entry, returned, n),
         \A n \in returned' : ~moved'[n].present,
         \A n \in Names : n \in returned /\ ~entry[n].present /\ ~moved[n].present =>
            n \in returned' /\ ~entry'[n].present /\ ~moved'[n].present,
         \A p \in Publishers :
            publisher'[p] = publisher[p]
            \/ publisher'[p].pc \notin {"admitted", "locked", "aside"}
            \/ (limited => RoomFor(entry', moved', returned', publisher'[p]))
  PROVE  QuotaOK'
  <1> SUFFICES ASSUME limited PROVE QuotaFor(limited', entry', moved', returned', publisher')
    BY QuotaThen DEF QuotaFor
  <1>1. QuotaFor(limited, entry, moved, returned, publisher)
    BY QuotaNow DEF PublicationInv
  <1>2. PICK e \in [Names -> Results], d \in [Names -> Results],
            X \in SUBSET Names, Y \in SUBSET Names :
           e = entry /\ d = entry' /\ X = returned /\ Y = returned'
    BY DEF PublicationInv, ResultsOK, PublicationTypes
  <1>3. \A n \in Names : NoMore(d, Y, e, X, n)
    BY <1>2
  <1>4. SumFunction(Counted(d, Y)) <= SumFunction(Counted(e, X))
    BY <1>3, CountsLess
  <1>5. SumFunction(Counted(d, Y)) <= MaxBytes
    <2>1. SumFunction(Counted(d, Y)) \in Nat /\ SumFunction(Counted(e, X)) \in Nat
      BY CountedType
    <2>2. SumFunction(Counted(e, X)) <= MaxBytes
      BY <1>1, <1>2 DEF QuotaFor
    <2>3. QED
      BY <1>4, <2>1, <2>2, PublicationAssumption
  <1>6. ASSUME NEW p \in Publishers PROVE RoomFor(d, moved', Y, publisher'[p])
    <2>1. CASE publisher'[p] = publisher[p]
      <3>1. PICK r \in PublisherStates : r = publisher[p] /\ (r.pc # "idle" => r.name \in Names)
        BY PublisherFields DEF PublicationInv, PublisherOK
      <3>2. RoomFor(e, moved, X, r)
        BY <1>1, <1>2, <3>1 DEF QuotaFor
      <3>3. CASE r.pc = "idle"
        BY <2>1, <3>1, <3>3 DEF RoomFor
      <3>4. CASE r.pc # "idle"
        <4>1. r.name \in X /\ ~e[r.name].present /\ ~moved[r.name].present =>
                r.name \in Y /\ ~d[r.name].present /\ ~moved'[r.name].present
          BY <1>2, <3>1, <3>4
        <4>2. RoomFor(d, moved', Y, r)
          BY <1>3, <3>1, <3>2, <4>1, RoomStays
        <4>3. QED
          BY <2>1, <3>1, <4>2
      <3>5. QED
        BY <3>3, <3>4
    <2>2. CASE publisher'[p].pc \notin {"admitted", "locked", "aside"}
      BY <2>2 DEF RoomFor
    <2>3. CASE RoomFor(entry', moved', returned', publisher'[p])
      BY <1>2, <2>3
    <2>4. QED
      BY <2>1, <2>2, <2>3
  <1>7. QED
    BY <1>2, <1>5, <1>6 DEF QuotaFor

\* Process p leaves the results alone.
LEMMA QuotaGoesOn ==
  ASSUME PublicationInv, ResultsOK', NEW p \in Publishers, NEW r, Set(p, r),
         UNCHANGED <<limited, entry, moved, returned>>,
         r.pc \in {"admitted", "locked", "aside"} /\ limited => RoomFor(entry, moved, returned, r)
  PROVE  QuotaOK'
  <1>1. \A q \in Publishers : IF q = p THEN publisher'[q] = r ELSE publisher'[q] = publisher[q]
    BY DEF PublicationInv, ResultsOK, PublicationTypes, Set
  <1>2. limited => \A n \in returned' : ~moved'[n].present
    BY DEF PublicationInv, QuotaOK
  <1>3. CASE ~limited
    BY <1>3 DEF QuotaOK
  <1>4. CASE limited
    BY <1>1, <1>2, <1>4, NothingAdded DEF NoMore
  <1>5. QED
    BY <1>3, <1>4

LEMMA QuotaSame ==
  ASSUME PublicationInv, UNCHANGED <<limited, entry, moved, returned, publisher>>
  PROVE  QuotaOK'
  BY QuotaNow, QuotaThen DEF PublicationInv

LEMMA AdmitQuota ==
  ASSUME PublicationInv, ResultsOK', NEW p \in Publishers, Admit(p)
  PROVE  QuotaOK'
  <1>1. ResultsOK
    BY DEF PublicationInv
  <1>2. PICK r \in PublisherStates :
           /\ Set(p, r) /\ r.pc = "admitted" /\ r.name = publisher[p].name
           /\ r.ok = publisher[p].ok
    BY <1>1, GoesFields DEF Admit, PublisherPcs
  <1>3. r.name \in Names
    BY <1>1, <1>2, PublisherFields DEF Admit, At, PublisherOK
  <1>4. PICK n \in Names, ok \in BOOLEAN : n = r.name /\ ok = r.ok
    BY <1>3 DEF PublisherStates
  <1>5. PICK e \in [Names -> Results] : e = entry
    BY <1>1 DEF ResultsOK, PublicationTypes
  <1>6. ASSUME limited PROVE RoomFor(e, moved, returned, r)
    <2>1. SumFunction(Counted(e, {n})) + Bytes(n, ok) <= MaxBytes
      BY <1>2, <1>4, <1>5, <1>6 DEF Admit, Fits, Retained, Counted, NameOf
    <2>2. SumFunction(Counted(e, returned \cup {n})) <= SumFunction(Counted(e, {n}))
      BY CountsLess DEF NoMore
    <2>3. /\ SumFunction(Counted(e, returned \cup {n})) \in Nat
          /\ SumFunction(Counted(e, {n})) \in Nat /\ Bytes(n, ok) \in Nat
      BY CountedType, BytesType
    <2>4. SumFunction(Counted(e, returned \cup {n})) + Bytes(n, ok) <= MaxBytes
      BY <2>1, <2>2, <2>3, PublicationAssumption
    <2>5. QED
      BY <1>2, <1>4, <2>4 DEF RoomFor
  <1>7. QED
    BY <1>2, <1>5, <1>6, QuotaGoesOn DEF Admit

LEMMA LockNameQuota ==
  ASSUME PublicationInv, ResultsOK', NEW p \in Publishers, LockName(p)
  PROVE  QuotaOK'
  <1>1. PICK r \in PublisherStates :
           /\ Set(p, r) /\ r.pc = "locked" /\ r.name = publisher[p].name
           /\ r.ok = publisher[p].ok
    BY GoesFields DEF LockName, PublisherPcs, PublicationInv
  <1>2. limited => RoomFor(entry, moved, returned, publisher[p])
    BY QuotaNow DEF PublicationInv, QuotaFor
  <1>3. limited => RoomFor(entry, moved, returned, r)
    BY <1>1, <1>2 DEF RoomFor, LockName, At
  <1>4. QED
    BY <1>1, <1>3, QuotaGoesOn DEF LockName

\* What is moved aside was counted, or was put back by an operator.
LEMMA MoveAsideQuota ==
  ASSUME PublicationInv, ResultsOK', NEW p \in Publishers, MoveAside(p)
  PROVE  QuotaOK'
  <1>1. ResultsOK
    BY DEF PublicationInv
  <1>2. PICK n \in Names, r \in PublisherStates :
            /\ n = publisher[p].name
            /\ entry[n].present
            /\ publisher[p].pc = "locked"
            /\ Set(p, r) /\ r.pc = "aside" /\ r.name = n /\ r.ok = publisher[p].ok
            /\ r.aside = entry[n]
            /\ entry' = [entry EXCEPT ![n] = Nothing]
    BY <1>1, MoveAsideFacts
  <1>3. UNCHANGED <<limited, moved, returned>>
    BY DEF MoveAside
  <1>4. PICK e \in [Names -> Results], d \in [Names -> Results] : e = entry /\ d = entry'
    BY <1>1 DEF ResultsOK, PublicationTypes
  <1>5. d = [e EXCEPT ![n] = Nothing] /\ ~d[n].present
    BY <1>2, <1>4, NothingFields
  <1>6. \A q \in Publishers : IF q = p THEN publisher'[q] = r ELSE publisher'[q] = publisher[q]
    BY <1>1, <1>2 DEF ResultsOK, PublicationTypes, Set
  <1>7. CASE ~limited
    BY <1>3, <1>7 DEF QuotaOK
  <1>8. CASE limited
    <2>1. QuotaFor(limited, e, moved, returned, publisher)
      BY <1>4, QuotaNow DEF PublicationInv
    <2>2. PICK there \in Nat, before \in Nat :
             /\ there = SumFunction(Counted(d, returned \cup {n}))
             /\ before = SumFunction(Counted(e, returned))
      BY CountedType
    <2>3. there + Bytes(n, r.ok) <= MaxBytes
      <3>1. SumFunction(Counted(e, returned \cup {n})) + Bytes(n, r.ok) <= MaxBytes
        BY <1>2, <1>8, <2>1 DEF QuotaFor, RoomFor
      <3>2. there <= SumFunction(Counted(e, returned \cup {n}))
        BY <1>5, <2>2, CountsLess DEF NoMore
      <3>3. SumFunction(Counted(e, returned \cup {n})) \in Nat /\ Bytes(n, r.ok) \in Nat
        BY CountedType, BytesType DEF PublisherStates
      <3>4. QED
        BY <3>1, <3>2, <3>3, PublicationAssumption
    <2>4. there + Bytes(n, r.aside.ok) <= MaxBytes \/ (n \in returned /\ ~moved[n].present)
      <3>1. CASE n \in returned
        BY <1>8, <2>1, <3>1 DEF QuotaFor
      <3>2. CASE n \notin returned
        <4>1. Counted(e, returned)[n] = Bytes(n, r.aside.ok)
          BY <1>2, <1>4, <3>2 DEF Counted
        <4>2. Counted(d, returned \cup {n})[n] = 0
          BY DEF Counted
        <4>3. there + Counted(e, returned)[n] <= before + Counted(d, returned \cup {n})[n]
          BY <1>5, <2>2, CountsChange DEF NoMore
        <4>4. before <= MaxBytes
          BY <1>8, <2>1, <2>2 DEF QuotaFor
        <4>5. Bytes(n, r.aside.ok) \in Nat
          BY BytesType DEF PublisherStates, Results
        <4>6. QED
          BY <4>1, <4>2, <4>3, <4>4, <4>5, PublicationAssumption
      <3>3. QED
        BY <3>1, <3>2
    <2>5. RoomFor(d, moved, returned, r)
      BY <1>2, <1>5, <2>2, <2>3, <2>4 DEF RoomFor
    <2>6. \A m \in Names : NoMore(d, returned, e, returned, m)
      BY <1>5 DEF NoMore
    <2>7. \A m \in Names : ~e[m].present => ~d[m].present
      BY <1>5
    <2>8. \A m \in returned : ~moved[m].present
      BY <1>8, <2>1 DEF QuotaFor
    <2>9. QED
      BY <1>3, <1>4, <1>6, <2>5, <2>6, <2>7, <2>8, NothingAdded
  <1>9. QED
    BY <1>7, <1>8

\* Nobody but the holder of the quota's lock has measured.
LEMMA MeasuredAlone ==
  ASSUME ResultsOK, limited, NEW p \in Publishers, quotaLock = p,
         NEW q \in Publishers, q # p
  PROVE  publisher[q].pc \notin {"admitted", "locked", "aside"}
  BY PublisherFields DEF PublisherOK

\* Process p, which holds the quota's lock, adds the entry n, for which there is room.
LEMMA RoomUsed ==
  ASSUME PublicationInv, ResultsOK', limited' = limited, moved' = moved,
         NEW p \in Publishers, limited => quotaLock = p, NEW r, Set(p, r),
         r.pc \notin {"admitted", "locked", "aside"},
         NEW n \in Names, NEW ok \in BOOLEAN, entry'[n].ok = ok,
         \A m \in Names \ {n} : entry'[m] = entry[m],
         returned' \subseteq returned, returned \ {n} \subseteq returned',
         limited /\ n \notin returned' =>
           SumFunction(Counted(entry, returned \cup {n})) + Bytes(n, ok) <= MaxBytes
  PROVE  QuotaOK'
  <1> SUFFICES ASSUME limited PROVE QuotaFor(limited', entry', moved', returned', publisher')
    BY QuotaThen DEF QuotaFor
  <1>1. QuotaFor(limited, entry, moved, returned, publisher)
    BY QuotaNow DEF PublicationInv
  <1>2. PICK e \in [Names -> Results], d \in [Names -> Results],
            X \in SUBSET Names, Y \in SUBSET Names :
           e = entry /\ d = entry' /\ X = returned /\ Y = returned'
    BY DEF PublicationInv, ResultsOK, PublicationTypes
  <1>3. ASSUME NEW q \in Publishers
        PROVE  publisher'[q].pc \notin {"admitted", "locked", "aside"}
    <2>1. CASE q = p
      BY <2>1, GoesOn DEF PublicationInv
    <2>2. CASE q # p
      <3>1. publisher'[q] = publisher[q]
        BY <2>2 DEF PublicationInv, ResultsOK, PublicationTypes, Set
      <3>2. QED
        BY <2>2, <3>1, MeasuredAlone DEF PublicationInv
    <2>3. QED
      BY <2>1, <2>2
  <1>4. PICK there \in Nat, after \in Nat, before \in Nat :
           /\ there = SumFunction(Counted(e, X \cup {n}))
           /\ after = SumFunction(Counted(d, Y))
           /\ before = SumFunction(Counted(e, X))
    BY CountedType
  <1>5. after <= MaxBytes
    <2>1. CASE n \in Y
      <3>1. \A m \in Names : NoMore(d, Y, e, X, m)
        BY <1>2, <2>1 DEF NoMore
      <3>2. after <= before
        BY <1>4, <3>1, CountsLess
      <3>3. before <= MaxBytes
        BY <1>1, <1>2, <1>4 DEF QuotaFor
      <3>4. QED
        BY <3>2, <3>3, PublicationAssumption
    <2>2. CASE n \notin Y
      <3>1. there + Bytes(n, ok) <= MaxBytes
        BY <1>2, <1>4, <2>2
      <3>2. \A m \in Names \ {n} : NoMore(d, Y, e, X \cup {n}, m)
        BY <1>2 DEF NoMore
      <3>3. after + Counted(e, X \cup {n})[n] <= there + Counted(d, Y)[n]
        BY <1>4, <3>2, CountsChange
      <3>4. Counted(e, X \cup {n})[n] = 0 /\ Counted(d, Y)[n] \in {0, Bytes(n, ok)}
        BY <1>2 DEF Counted
      <3>5. Bytes(n, ok) \in Nat
        BY BytesType
      <3>6. QED
        BY <3>1, <3>3, <3>4, <3>5, PublicationAssumption
    <2>3. QED
      BY <2>1, <2>2
  <1>6. \A m \in returned' : ~moved'[m].present
    BY <1>1 DEF QuotaFor
  <1>7. \A q \in Publishers : RoomFor(entry', moved', returned', publisher'[q])
    BY <1>3 DEF RoomFor
  <1>8. QED
    BY <1>2, <1>4, <1>5, <1>6, <1>7 DEF QuotaFor

LEMMA RenameQuota ==
  ASSUME PublicationInv, ResultsOK', NEW p \in Publishers, Rename(p)
  PROVE  QuotaOK'
  <1>1. ResultsOK
    BY DEF PublicationInv
  <1>2. PICK n \in Names, e \in Results, r \in PublisherStates :
            /\ n = publisher[p].name
            /\ limited => quotaLock = p
            /\ publisher[p].pc \in {"locked", "aside"}
            /\ e.ok = publisher[p].ok
            /\ entry' = [entry EXCEPT ![n] = e]
            /\ returned' = returned \ {n}
            /\ Set(p, r) /\ r.pc = "renamed" /\ r.name = n
    BY <1>1, RenameFacts
  <1>3. PICK ok \in BOOLEAN : ok = e.ok
    BY DEF Results
  <1>4. entry'[n].ok = ok /\ \A m \in Names \ {n} : entry'[m] = entry[m]
    BY <1>1, <1>2, <1>3 DEF ResultsOK, PublicationTypes
  <1>5. limited => SumFunction(Counted(entry, returned \cup {n})) + Bytes(n, ok) <= MaxBytes
    <2>1. limited => RoomFor(entry, moved, returned, publisher[p])
      BY QuotaNow DEF PublicationInv, QuotaFor
    <2>2. QED
      BY <1>2, <1>3, <2>1 DEF RoomFor
  <1>6. UNCHANGED <<limited, moved>>
    BY DEF Rename
  <1>7. QED
    BY <1>2, <1>4, <1>5, <1>6, RoomUsed

LEMMA RenameFailsQuota ==
  ASSUME PublicationInv, ResultsOK', NEW p \in Publishers, RenameFails(p)
  PROVE  QuotaOK'
  <1>1. ResultsOK
    BY DEF PublicationInv
  <1>2. PICK n \in Names, e \in Results :
            /\ n = publisher[p].name /\ e = publisher[p].aside
            /\ limited => quotaLock = p
            /\ entry' = IF entry[n].present THEN entry ELSE [entry EXCEPT ![n] = e]
            /\ \/ publisher[p].pc = "locked" /\ ~entry[n].present /\ e = Nothing
               \/ publisher[p].pc = "aside" /\ kindOf[n] = "build" /\ e.present /\ ~Good(e)
    BY <1>1, RenameFailsFacts
  <1>3. UNCHANGED <<limited, moved, returned>> /\ Set(p, AtRest)
    BY DEF RenameFails
  <1>4. CASE entry[n].present \/ ~e.present
    <2>1. \A m \in Names : entry'[m] = entry[m] \/ ~entry'[m].present
      BY <1>1, <1>2, <1>4 DEF ResultsOK, PublicationTypes
    <2>2. \A m \in Names : entry[m].present \/ ~entry'[m].present
      BY <2>1
    <2>3. \A q \in Publishers : q = p \/ publisher'[q] = publisher[q]
      BY <1>1, <1>3 DEF ResultsOK, PublicationTypes, Set
    <2>4. publisher'[p].pc = "idle"
      BY <1>1, <1>3, GoesOn, AtRestFields
    <2>5. \A m \in Names : NoMore(entry', returned', entry, returned, m)
      BY <1>3, <2>1 DEF NoMore
    <2>6. limited => \A m \in returned' : ~moved'[m].present
      BY <1>3 DEF PublicationInv, QuotaOK
    <2>7. CASE ~limited
      BY <1>3, <2>7 DEF QuotaOK
    <2>8. CASE limited
      BY <1>3, <2>2, <2>3, <2>4, <2>5, <2>6, <2>8, NothingAdded
    <2>9. QED
      BY <2>7, <2>8
  <1>5. CASE ~entry[n].present /\ e.present
    <2>1. PICK ok \in BOOLEAN : ok = e.ok
      BY DEF Results
    <2>2. entry'[n].ok = ok /\ \A m \in Names \ {n} : entry'[m] = entry[m]
      BY <1>1, <1>2, <1>5, <2>1 DEF ResultsOK, PublicationTypes
    <2>3. publisher[p].pc = "aside"
      BY <1>2, <1>5, NothingFields
    <2>4. limited /\ n \notin returned =>
            SumFunction(Counted(entry, returned \cup {n})) + Bytes(n, ok) <= MaxBytes
      <3>1. limited => RoomFor(entry, moved, returned, publisher[p])
        BY QuotaNow DEF PublicationInv, QuotaFor
      <3>2. QED
        BY <1>2, <2>1, <2>3, <3>1 DEF RoomFor
    <2>5. QED
      BY <1>2, <1>3, <2>2, <2>4, AtRestFields, RoomUsed
  <1>6. QED
    BY <1>4, <1>5

\* What an operator moves away is no more than what was there.
LEMMA MoveOutQuota ==
  ASSUME PublicationInv, ResultsOK', NEW n \in Names, MoveOut(n)
  PROVE  QuotaOK'
  <1>1. /\ entry'[n] = Nothing /\ entry[n].present
        /\ \A m \in Names \ {n} : entry'[m] = entry[m] /\ moved'[m] = moved[m]
        /\ returned' = returned \ {n} /\ UNCHANGED <<limited, publisher>>
    BY DEF PublicationInv, ResultsOK, PublicationTypes, MoveOut
  <1>2. \A m \in Names : NoMore(entry', returned', entry, returned, m)
    BY <1>1, NothingFields DEF NoMore
  <1>3. limited => \A m \in returned' : ~moved'[m].present
    BY <1>1 DEF PublicationInv, QuotaOK, ResultsOK, PublicationTypes
  <1>4. CASE ~limited
    BY <1>1, <1>4 DEF QuotaOK
  <1>5. CASE limited
    BY <1>1, <1>2, <1>3, <1>5, NothingAdded
  <1>6. QED
    BY <1>4, <1>5

\* What an operator puts back is not counted.
LEMMA PutBackQuota ==
  ASSUME PublicationInv, ResultsOK', NEW n \in Names, PutBack(n)
  PROVE  QuotaOK'
  <1>1. /\ moved'[n] = Nothing /\ moved[n].present
        /\ \A m \in Names \ {n} : entry'[m] = entry[m] /\ moved'[m] = moved[m]
        /\ returned' = returned \cup {n} /\ UNCHANGED <<limited, publisher>>
    BY DEF PublicationInv, ResultsOK, PublicationTypes, PutBack
  <1>2. \A m \in Names : NoMore(entry', returned', entry, returned, m)
    BY <1>1, NothingFields DEF NoMore
  <1>3. limited => \A m \in returned' : ~moved'[m].present
    BY <1>1, NothingFields DEF PublicationInv, QuotaOK, ResultsOK, PublicationTypes
  <1>4. CASE ~limited
    BY <1>1, <1>4 DEF QuotaOK
  <1>5. CASE limited
    BY <1>1, <1>2, <1>3, <1>5, NothingAdded
  <1>6. QED
    BY <1>4, <1>5

LEMMA PowerFailsQuota ==
  ASSUME PublicationInv, ResultsOK', PowerFails
  PROVE  QuotaOK'
  <1>1. ResultsOK /\ UNCHANGED <<limited, moved, returned>>
    BY DEF PublicationInv, PowerFails
  <1>2. \A m \in Names : NoMore(entry', returned', entry, returned, m)
    BY <1>1, PowerFailsFacts, NothingFields DEF NoMore
  <1>3. \A m \in Names : ~entry[m].present => ~entry'[m].present
    BY <1>1, PowerFailsFacts
  <1>4. \A p \in Publishers : publisher'[p].pc = "idle"
    BY AtRestFields DEF PowerFails
  <1>5. limited => \A m \in returned' : ~moved'[m].present
    BY <1>1 DEF PublicationInv, QuotaOK
  <1>6. CASE ~limited
    BY <1>1, <1>6 DEF QuotaOK
  <1>7. CASE limited
    BY <1>1, <1>2, <1>3, <1>4, <1>5, <1>7, NothingAdded
  <1>8. QED
    BY <1>6, <1>7

------------------------------------------------------------------------------
(* The theorems                                                             *)

LEMMA PublicationInvInit == PublicationInit => PublicationInv
  <1> SUFFICES ASSUME PublicationInit PROVE PublicationInv
    OBVIOUS
  <1>1. PublicationTypes
    BY NothingFields, AtRestFields DEF PublicationInit, PublicationTypes
  <1>2. \A p \in Publishers : PublisherOK(p)
    BY AtRestFields DEF PublicationInit, PublisherOK
  <1>3. \A n \in Backups : BackupOK(n)
    BY NothingFields DEF PublicationInit, Backups, BackupOK, Durable
  <1>4. \A n \in confirmed : ConfirmedOK(n)
    BY DEF PublicationInit
  <1>5. SumFunction(Counted(entry, returned)) <= MaxBytes
    <2>1. PICK e \in [Names -> Results], f \in [Names -> Nat] :
             e = entry /\ f = Counted(e, {})
      BY <1>1, CountedType DEF PublicationTypes
    <2>2. PICK z \in [Names -> Nat] : z = [n \in Names |-> 0]
      OBVIOUS
    <2>3. f = z
      BY <2>1, <2>2, NothingFields DEF PublicationInit, Counted
    <2>4. SumFunctionOnSet(z, Names) = 0
      <3> DEFINE G == {S \in SUBSET Names : SumFunctionOnSet(z, S) = 0}
      <3>1. ASSUME NEW S \in SUBSET Names, \A U \in SUBSET S : U # S => U \in G
            PROVE  S \in G
        <4>1. CASE S = {}
          BY <4>1, SumEmpty
        <4>2. CASE S # {}
          <5>1. Taken(S) \in S /\ SumFunctionOnSet(z, Rest(S)) = 0
            BY <3>1, <4>2, RestSmaller
          <5>2. IsFiniteSet(S)
            BY FS_Subset, PublicationAssumption
          <5>3. SumFunctionOnSet(z, S) = z[Taken(S)] + SumFunctionOnSet(z, Rest(S))
            BY <4>2, <5>2, SumTaken
          <5>4. QED
            BY <2>2, <5>1, <5>3
        <4>3. QED
          BY <4>1, <4>2
      <3> HIDE DEF G
      <3>2. Names \in G
        BY <3>1, SubsetInduction, PublicationAssumption
      <3>3. QED
        BY <3>2 DEF G
    <2>5. QED
      BY <2>1, <2>2, <2>3, <2>4, PublicationAssumption DEF SumFunction, PublicationInit
  <1>6. \A p \in Publishers : RoomFor(entry, moved, returned, publisher[p])
    BY AtRestFields DEF PublicationInit, RoomFor
  <1>7. returned = {}
    BY DEF PublicationInit
  <1>8. QuotaOK
    BY <1>5, <1>6, <1>7, QuotaNow DEF QuotaFor
  <1>9. QED
    BY <1>1, <1>2, <1>3, <1>4, <1>8 DEF PublicationInv, ResultsOK

LEMMA ResultsOKStep ==
  ASSUME ResultsOK, [PublicationNext]_publication
  PROVE  ResultsOK'
  <1>1. ASSUME UNCHANGED up, NEW p \in Publishers, PublisherSteps(p) PROVE ResultsOK'
    BY <1>1, StageResultOK, SyncStageOK, AdmitOK, ExceedsOK, LockNameOK, DiscardOK, MoveAsideOK,
       RenameOK, RenameFailsOK, FinishOK, StartDatabaseRestoreOK, SyncCopyOK, LinkCopyOK, DieOK
    DEF PublisherSteps
  <1>2. ASSUME UNCHANGED up, NEW n \in Names, MoveOut(n) \/ PutBack(n) PROVE ResultsOK'
    BY <1>2, MoveOutOK, PutBackOK
  <1>3. QED
    BY <1>1, <1>2, OccupyOK, PowerFailsOK, PowerReturnsOK, StillOK DEF PublicationNext

LEMMA PublicationInvStep ==
  ASSUME PublicationInv, [PublicationNext]_publication
  PROVE  PublicationInv'
  <1>1. ResultsOK'
    BY ResultsOKStep DEF PublicationInv
  <1>2. ASSUME NEW p \in Publishers, PublisherSteps(p) PROVE QuotaOK'
    <2>1. CASE \E n \in Names, ok \in BOOLEAN : StageResult(p, n, ok)
      <3>1. PICK n \in Names, ok \in BOOLEAN : StageResult(p, n, ok)
        BY <2>1
      <3>2. PICK r : r = [AtRest EXCEPT !.pc = IF kindOf[n] = "backup" THEN "unsynced" ELSE "staged",
                                        !.name = n, !.ok = ok]
        OBVIOUS
      <3>3. r.pc \in {"unsynced", "staged"}
        BY <3>2, AtRestFields DEF PublisherStates
      <3>4. QED
        BY <1>1, <3>1, <3>2, <3>3, QuotaGoesOn DEF StageResult
    <2>2. CASE SyncStage(p)
      <3>1. PICK r : r = [publisher[p] EXCEPT !.pc = "staged", !.synced = TRUE]
        OBVIOUS
      <3>2. r.pc = "staged"
        BY <3>1, PublisherFields DEF PublisherStates, PublicationInv
      <3>3. QED
        BY <1>1, <2>2, <3>1, <3>2, QuotaGoesOn DEF SyncStage
    <2>3. CASE Exceeds(p) \/ Discard(p) \/ LinkCopy(p) \/ Die(p)
      BY <1>1, <2>3, AtRestFields, QuotaGoesOn DEF Exceeds, Discard, LinkCopy, Die
    <2>4. CASE Finish(p)
      BY <1>1, <2>4, AtRestFields, QuotaGoesOn DEF Finish
    <2>5. CASE \E n \in Names : StartDatabaseRestore(p, n)
      <3>1. PICK n \in Names : StartDatabaseRestore(p, n)
        BY <2>5
      <3>2. PICK r : r = [AtRest EXCEPT !.pc = "copied", !.name = n]
        OBVIOUS
      <3>3. r.pc = "copied"
        BY <3>2, AtRestFields DEF PublisherStates
      <3>4. QED
        BY <1>1, <3>1, <3>2, <3>3, QuotaGoesOn DEF StartDatabaseRestore
    <2>6. CASE SyncCopy(p)
      <3>1. PICK r : r = [publisher[p] EXCEPT !.pc = "verified", !.synced = TRUE]
        OBVIOUS
      <3>2. r.pc = "verified"
        BY <3>1, PublisherFields DEF PublisherStates, PublicationInv
      <3>3. QED
        BY <1>1, <2>6, <3>1, <3>2, QuotaGoesOn DEF SyncCopy
    <2>7. QED
      BY <1>1, <1>2, <2>1, <2>2, <2>3, <2>4, <2>5, <2>6, AdmitQuota, LockNameQuota,
         MoveAsideQuota, RenameQuota, RenameFailsQuota
      DEF PublisherSteps
  <1>3. ASSUME NEW n \in Names, MoveOut(n) \/ PutBack(n) PROVE QuotaOK'
    BY <1>1, <1>3, MoveOutQuota, PutBackQuota
  <1>4. ASSUME Occupy \/ PowerReturns \/ UNCHANGED publication PROVE QuotaOK'
    BY <1>4, QuotaSame DEF Occupy, PowerReturns, publication
  <1>5. QuotaOK'
    BY <1>1, <1>2, <1>3, <1>4, PowerFailsQuota DEF PublicationNext
  <1>6. QED
    BY <1>1, <1>5 DEF PublicationInv

LEMMA PublicationInvAlways == PublicationSpec => []PublicationInv
  <1>1. PublicationInv /\ [PublicationNext]_publication => PublicationInv'
    BY PublicationInvStep
  <1>2. QED
    BY <1>1, PublicationInvInit, PTL DEF PublicationSpec

\* However many publishers run at once, and whichever of them die, fail or give
\* back what they moved aside, the retained results stay within a quota that is
\* configured, but for those an operator put back.
THEOREM QuotaKept == PublicationSpec => []WithinQuota
  <1>1. PublicationInv => WithinQuota
    BY DEF PublicationInv, QuotaOK, WithinQuota
  <1>2. QED
    BY <1>1, PublicationInvAlways, PTL

\* A backup that was reported to its caller can be read after any crash or power
\* failure, in place or where an operator moved it, and no restored database is
\* a part of one.
THEOREM ReportedBackupsLast == PublicationSpec => []BackupsLast
  <1>1. ASSUME PublicationInv, NEW n \in confirmed PROVE Good(entry[n]) \/ Good(moved[n])
    BY <1>1 DEF PublicationInv, ResultsOK, ConfirmedOK, BackupOK, Durable
  <1>2. PublicationInv => BackupsLast
    BY <1>1 DEF PublicationInv, ResultsOK, PublicationTypes, BackupsLast
  <1>3. QED
    BY <1>2, PublicationInvAlways, PTL

------------------------------------------------------------------------------
(* The catalog                                                              *)

\* What the catalog shows of the entries e.
Shown(e) == [n \in Names |-> StateOf(e[n])]

LEMMA StateCases ==
  ASSUME NEW e \in Results
  PROVE  /\ StateOf(e) \in Catalog!Contents
         /\ StateOf(e) = "absent" <=> ~e.present
         /\ StateOf(e) = "good" <=> Good(e)
         /\ e.present /\ ~Good(e) => StateOf(e) \in {"bad", "damaged"}
         /\ e.present /\ e.whole => StateOf(e) \in {"good", "bad"}
         /\ e.present /\ ~e.whole => StateOf(e) = "damaged"
  BY DEF Results, StateOf, Good, Catalog!Contents

CatalogStep == [Catalog!CatalogNext]_<<Shown(entry), Shown(moved), confirmed, up>>

\* The step of the catalog that shows what happened to name n.
LEMMA CatalogOf ==
  ASSUME up, up' = up, NEW n \in Names,
         \/ Catalog!Add(n) \/ Catalog!Withdraw(n) \/ Catalog!Reinstate(n)
         \/ Catalog!Report(n) \/ Catalog!MoveAway(n) \/ Catalog!ReturnTo(n)
  PROVE  CatalogStep
  BY DEF CatalogStep, Catalog!CatalogNext

\* One entry changes: what is shown changes at its name.
LEMMA ShownChanges ==
  ASSUME NEW e \in [Names -> Results], NEW n \in Names, NEW r \in Results
  PROVE  /\ Shown([e EXCEPT ![n] = r]) = [Shown(e) EXCEPT ![n] = StateOf(r)]
         /\ Shown(e)[n] = StateOf(e[n])
  BY DEF Shown

LEMMA ShownGone ==
  ASSUME NEW e \in [Names -> Results], NEW n \in Names
  PROVE  Shown([e EXCEPT ![n] = Nothing]) = [Shown(e) EXCEPT ![n] = "absent"]
  <1>1. PICK r \in Results : r = Nothing /\ StateOf(r) = "absent"
    BY NothingFields, StateCases
  <1>2. Shown([e EXCEPT ![n] = r]) = [Shown(e) EXCEPT ![n] = StateOf(r)]
    BY ShownChanges
  <1>3. QED
    BY <1>1, <1>2

LEMMA ReportsShown ==
  ASSUME ResultsOK, NEW p \in Publishers, UNCHANGED <<entry, moved, up>>, up,
         publisher[p].name \in Names,
         confirmed' = IF KindAt(p) = "backup" /\ Good(entry[NameOf(p)])
                      THEN confirmed \cup {NameOf(p)} ELSE confirmed
  PROVE  CatalogStep
  <1>1. CASE confirmed' = confirmed
    BY <1>1 DEF CatalogStep, Shown
  <1>2. CASE confirmed' # confirmed
    <2>1. PICK n \in Names : n = publisher[p].name
      OBVIOUS
    <2>2. entry[n] \in Results /\ Good(entry[n]) /\ confirmed' = confirmed \cup {n}
      BY <1>2, <2>1 DEF ResultsOK, PublicationTypes, NameOf
    <2>3. StateOf(entry[n]) = "good"
      BY <2>2, StateCases
    <2>4. Catalog!Report(n)
      BY <2>2, <2>3 DEF Catalog!Report
    <2>5. QED
      BY <2>4, CatalogOf
  <1>3. QED
    BY <1>1, <1>2

LEMMA MoveAsideShown ==
  ASSUME ResultsOK, NEW p \in Publishers, MoveAside(p), up, UNCHANGED up
  PROVE  CatalogStep
  <1>1. PICK n \in Names : entry[n].present /\ ~Good(entry[n]) /\ entry' = [entry EXCEPT ![n] = Nothing]
    BY MoveAsideFacts
  <1>2. PICK e \in [Names -> Results] : e = entry
    BY DEF ResultsOK, PublicationTypes
  <1>3. StateOf(e[n]) \in {"bad", "damaged"} /\ StateOf(Nothing) = "absent"
    BY <1>1, <1>2, StateCases, NothingFields
  <1>4. Shown([e EXCEPT ![n] = Nothing]) = [Shown(e) EXCEPT ![n] = "absent"]
    BY ShownGone
  <1>5. Catalog!Withdraw(n)
    BY <1>1, <1>2, <1>3, <1>4 DEF Catalog!Withdraw, MoveAside, Shown
  <1>6. QED
    BY <1>5, CatalogOf

LEMMA RenameShown ==
  ASSUME ResultsOK, NEW p \in Publishers, Rename(p), up, UNCHANGED up
  PROVE  CatalogStep
  <1>1. PICK n \in Names, r \in Results :
           ~entry[n].present /\ r.present /\ r.whole /\ entry' = [entry EXCEPT ![n] = r]
    BY RenameFacts
  <1>2. PICK e \in [Names -> Results] : e = entry
    BY DEF ResultsOK, PublicationTypes
  <1>3. StateOf(e[n]) = "absent" /\ StateOf(r) \in {"good", "bad"}
    BY <1>1, <1>2, StateCases
  <1>4. Shown([e EXCEPT ![n] = r]) = [Shown(e) EXCEPT ![n] = StateOf(r)]
    BY ShownChanges
  <1>5. Catalog!Add(n)
    BY <1>1, <1>2, <1>3, <1>4 DEF Catalog!Add, Rename, Shown
  <1>6. QED
    BY <1>5, CatalogOf

LEMMA RenameFailsShown ==
  ASSUME ResultsOK, NEW p \in Publishers, RenameFails(p), up, UNCHANGED up
  PROVE  CatalogStep
  <1>1. PICK n \in Names, r \in Results :
            /\ entry' = IF entry[n].present THEN entry ELSE [entry EXCEPT ![n] = r]
            /\ \/ ~entry[n].present /\ r = Nothing
               \/ r.present /\ ~Good(r)
    BY RenameFailsFacts
  <1>2. PICK e \in [Names -> Results] : e = entry
    BY DEF ResultsOK, PublicationTypes
  <1>3. UNCHANGED <<moved, confirmed>>
    BY DEF RenameFails
  <1>4. CASE entry[n].present
    BY <1>1, <1>3, <1>4 DEF CatalogStep, Shown
  <1>5. CASE ~entry[n].present
    <2>1. StateOf(e[n]) = "absent"
      BY <1>2, <1>5, StateCases
    <2>2. Shown([e EXCEPT ![n] = r]) = [Shown(e) EXCEPT ![n] = StateOf(r)]
      BY ShownChanges
    <2>3. CASE r = Nothing
      <3>1. StateOf(r) = "absent"
        BY <2>3, StateCases, NothingFields
      <3>2. [Shown(e) EXCEPT ![n] = StateOf(r)] = Shown(e)
        BY <2>1, <3>1 DEF Shown
      <3>3. Shown(entry') = Shown(entry)
        BY <1>1, <1>2, <1>5, <2>2, <3>2
      <3>4. QED
        BY <1>3, <3>3 DEF CatalogStep, Shown
    <2>4. CASE r.present /\ ~Good(r)
      <3>1. StateOf(r) \in {"bad", "damaged"}
        BY <2>4, StateCases
      <3>2. Catalog!Reinstate(n)
        BY <1>1, <1>2, <1>3, <1>5, <2>1, <2>2, <3>1 DEF Catalog!Reinstate, Shown
      <3>3. QED
        BY <3>2, CatalogOf
    <2>5. QED
      BY <1>1, <1>5, <2>3, <2>4
  <1>6. QED
    BY <1>4, <1>5

LEMMA MoveOutShown ==
  ASSUME ResultsOK, NEW n \in Names, MoveOut(n), up, UNCHANGED up
  PROVE  CatalogStep
  <1>1. PICK e \in [Names -> Results], m \in [Names -> Results] : e = entry /\ m = moved
    BY DEF ResultsOK, PublicationTypes
  <1>2. StateOf(e[n]) # "absent" /\ StateOf(m[n]) = "absent" /\ StateOf(Nothing) = "absent"
    BY <1>1, StateCases, NothingFields DEF MoveOut
  <1>3. /\ Shown([e EXCEPT ![n] = Nothing]) = [Shown(e) EXCEPT ![n] = "absent"]
        /\ Shown([m EXCEPT ![n] = e[n]]) = [Shown(m) EXCEPT ![n] = StateOf(e[n])]
    <2>1. PICK r \in Results : r = e[n]
      OBVIOUS
    <2>2. Shown([m EXCEPT ![n] = r]) = [Shown(m) EXCEPT ![n] = StateOf(r)]
      BY ShownChanges
    <2>3. QED
      BY <2>1, <2>2, ShownGone
  <1>4. Catalog!MoveAway(n)
    BY <1>1, <1>2, <1>3 DEF Catalog!MoveAway, MoveOut, Shown
  <1>5. QED
    BY <1>4, CatalogOf

LEMMA PutBackShown ==
  ASSUME ResultsOK, NEW n \in Names, PutBack(n), up, UNCHANGED up
  PROVE  CatalogStep
  <1>1. PICK e \in [Names -> Results], m \in [Names -> Results] : e = entry /\ m = moved
    BY DEF ResultsOK, PublicationTypes
  <1>2. StateOf(e[n]) = "absent" /\ StateOf(m[n]) # "absent" /\ StateOf(Nothing) = "absent"
    BY <1>1, StateCases, NothingFields DEF PutBack
  <1>3. /\ Shown([e EXCEPT ![n] = m[n]]) = [Shown(e) EXCEPT ![n] = StateOf(m[n])]
        /\ Shown([m EXCEPT ![n] = Nothing]) = [Shown(m) EXCEPT ![n] = "absent"]
    <2>1. PICK r \in Results : r = m[n]
      OBVIOUS
    <2>2. Shown([e EXCEPT ![n] = r]) = [Shown(e) EXCEPT ![n] = StateOf(r)]
      BY ShownChanges
    <2>3. QED
      BY <2>1, <2>2, ShownGone
  <1>4. Catalog!ReturnTo(n)
    BY <1>1, <1>2, <1>3 DEF Catalog!ReturnTo, PutBack, Shown
  <1>5. QED
    BY <1>4, CatalogOf

\* A reported backup is durable: the power failure spares it.
LEMMA PowerFailsShown ==
  ASSUME ResultsOK, PowerFails
  PROVE  CatalogStep
  <1>1. ResultsOK'
    BY PowerFailsOK
  <1>2. ASSUME NEW n \in Names
        PROVE  \/ StateOf(entry[n])' = StateOf(entry[n])
               \/ /\ StateOf(entry[n]) # "absent" /\ n \notin confirmed
                  /\ StateOf(entry[n])' \in {"absent", "damaged"}
    <2>1. PICK e \in Results, d \in Results : e = entry[n] /\ d = entry'[n]
      BY <1>1 DEF ResultsOK, PublicationTypes
    <2>2. \/ d = e
          \/ e.present /\ n \notin confirmed /\ d = Nothing
          \/ e.present /\ ~e.synced /\ d.present /\ ~d.whole
      BY <2>1, PowerFailsFacts
    <2>3. e.present /\ ~e.synced => n \notin confirmed
      BY <2>1 DEF ResultsOK, ConfirmedOK, BackupOK, Durable
    <2>4. \/ StateOf(d) = StateOf(e)
          \/ StateOf(e) # "absent" /\ n \notin confirmed /\ StateOf(d) \in {"absent", "damaged"}
      BY <2>2, <2>3, StateCases, NothingFields
    <2>5. StateOf(entry[n])' = StateOf(d) /\ StateOf(entry[n]) = StateOf(e)
      BY <2>1 DEF StateOf
    <2>6. QED
      BY <2>4, <2>5
  <1>3. Shown(entry)' \in [Names -> Catalog!Contents]
    <2>1. PICK d \in [Names -> Results] : d = entry'
      BY <1>1 DEF ResultsOK, PublicationTypes
    <2>2. Shown(d) \in [Names -> Catalog!Contents]
      BY StateCases DEF Shown
    <2>3. QED
      BY <2>1, <2>2 DEF Shown, StateOf
  <1>4. Catalog!Outage
    BY <1>2, <1>3 DEF Catalog!Outage, PowerFails, Shown
  <1>5. QED
    BY <1>4 DEF CatalogStep, Catalog!CatalogNext

LEMMA PowerReturnsShown ==
  ASSUME PowerReturns
  PROVE  CatalogStep
  <1>1. Catalog!Resume
    BY DEF PowerReturns, Catalog!Resume
  <1>2. QED
    BY <1>1 DEF CatalogStep, Catalog!CatalogNext

LEMMA CatalogShown ==
  ASSUME ResultsOK, [PublicationNext]_publication
  PROVE  CatalogStep
  <1>1. ASSUME up, UNCHANGED up, NEW p \in Publishers, PublisherSteps(p) PROVE CatalogStep
    <2>1. CASE \/ \E n \in Names, ok \in BOOLEAN : StageResult(p, n, ok)
               \/ SyncStage(p) \/ Admit(p) \/ Exceeds(p) \/ LockName(p)
               \/ \E n \in Names : StartDatabaseRestore(p, n)
               \/ SyncCopy(p) \/ LinkCopy(p) \/ Die(p)
      <3>1. UNCHANGED <<entry, moved, confirmed>>
        BY <2>1 DEF StageResult, SyncStage, Admit, Exceeds, LockName, StartDatabaseRestore,
                    SyncCopy, LinkCopy, Die
      <3>2. QED
        BY <1>1, <3>1 DEF CatalogStep, Shown
    <2>2. CASE Discard(p) \/ Finish(p)
      <3>1. publisher[p].name \in Names
        BY <2>2, PublisherFields DEF PublisherOK, Discard, Finish, At
      <3>2. QED
        BY <1>1, <2>2, <3>1, ReportsShown DEF Discard, Finish
    <2>3. QED
      BY <1>1, <2>1, <2>2, MoveAsideShown, RenameShown, RenameFailsShown DEF PublisherSteps
  <1>2. ASSUME up, UNCHANGED up, NEW n \in Names, MoveOut(n) \/ PutBack(n) PROVE CatalogStep
    BY <1>2, MoveOutShown, PutBackShown
  <1>3. ASSUME UNCHANGED up, Occupy \/ UNCHANGED publication PROVE CatalogStep
    BY <1>3 DEF Occupy, publication, CatalogStep, Shown
  <1>4. QED
    BY <1>1, <1>2, <1>3, PowerFailsShown, PowerReturnsShown DEF PublicationNext, publication

LEMMA CatalogBegins == PublicationInit => Catalog!CatalogInit
  BY NothingFields DEF PublicationInit, Catalog!CatalogInit, StateOf

\* The published directories implement the catalog: whatever is staged, locked,
\* moved aside or lost on the way, a caller sees results appear whole, and no
\* publication takes the place of a good one.
THEOREM ArtifactsAreACatalog == PublicationSpec => CatalogSpec
  <1>1. PublicationInv /\ [PublicationNext]_publication => CatalogStep
    BY CatalogShown DEF PublicationInv
  <1>2. CatalogStep =>
          [Catalog!CatalogNext]_<<[n \in Names |-> StateOf(entry[n])],
                                  [n \in Names |-> StateOf(moved[n])], confirmed, up>>
    BY DEF CatalogStep, Shown
  <1>3. QED
    BY <1>1, <1>2, CatalogBegins, PublicationInvAlways, PTL
    DEF PublicationSpec, CatalogSpec, Catalog!CatalogSpec

==============================================================================
