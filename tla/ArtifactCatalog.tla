--------------------------- MODULE ArtifactCatalog ---------------------------
(****************************************************************************)
(* What the retained artifacts promise, whatever happens underneath: under  *)
(* each name there is nothing, or one complete result.  A successful result *)
(* stays until an operator moves it away or the power fails; a failed build *)
(* may be withdrawn for a new one; a backup that was reported to its caller *)
(* survives even a power failure.                                           *)
(****************************************************************************)
CONSTANT Artifacts

VARIABLES
  catalog,    \* what is found under each name
  away,       \* what operators have moved aside, under its name
  reported,   \* results a caller was told are durable: backups
  running     \* whether the machine has power

Contents == {"absent", "good", "bad", "damaged"}

CatalogInit ==
  /\ catalog = [n \in Artifacts |-> "absent"]
  /\ away = [n \in Artifacts |-> "absent"]
  /\ reported = {}
  /\ running = TRUE

Add(n) ==
  /\ catalog[n] = "absent"
  /\ \E c \in {"good", "bad"} : catalog' = [catalog EXCEPT ![n] = c]
  /\ UNCHANGED <<away, reported>>

Withdraw(n) ==
  /\ catalog[n] \in {"bad", "damaged"}
  /\ catalog' = [catalog EXCEPT ![n] = "absent"]
  /\ UNCHANGED <<away, reported>>

\* The new result could not be put in place: what was withdrawn is back.
Reinstate(n) ==
  /\ catalog[n] = "absent"
  /\ \E c \in {"bad", "damaged"} : catalog' = [catalog EXCEPT ![n] = c]
  /\ UNCHANGED <<away, reported>>

Report(n) ==
  /\ catalog[n] = "good"
  /\ reported' = reported \cup {n}
  /\ UNCHANGED <<catalog, away>>

MoveAway(n) ==
  /\ catalog[n] # "absent"
  /\ away[n] = "absent"
  /\ away' = [away EXCEPT ![n] = catalog[n]]
  /\ catalog' = [catalog EXCEPT ![n] = "absent"]
  /\ UNCHANGED reported

ReturnTo(n) ==
  /\ catalog[n] = "absent"
  /\ away[n] # "absent"
  /\ catalog' = [catalog EXCEPT ![n] = away[n]]
  /\ away' = [away EXCEPT ![n] = "absent"]
  /\ UNCHANGED reported

\* What was not made durable may be damaged or lost.
Outage ==
  /\ running
  /\ running' = FALSE
  /\ \A n \in Artifacts :
       \/ catalog'[n] = catalog[n]
       \/ catalog[n] # "absent" /\ n \notin reported /\ catalog'[n] \in {"absent", "damaged"}
  /\ catalog' \in [Artifacts -> Contents]
  /\ UNCHANGED <<away, reported>>

Resume ==
  /\ ~running
  /\ running' = TRUE
  /\ UNCHANGED <<catalog, away, reported>>

CatalogNext ==
  \/ /\ running
     /\ UNCHANGED running
     /\ \E n \in Artifacts : \/ Add(n) \/ Withdraw(n) \/ Reinstate(n)
                              \/ Report(n) \/ MoveAway(n) \/ ReturnTo(n)
  \/ Outage
  \/ Resume

CatalogSpec == CatalogInit /\ [][CatalogNext]_<<catalog, away, reported, running>>
==============================================================================
