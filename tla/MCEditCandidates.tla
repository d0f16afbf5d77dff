--------------------------- MODULE MCEditCandidates ---------------------------
(* Two processes.  Either two candidates may share a base and race for one  *)
(* branch, or one candidate is qualified more than once and may be          *)
(* published to a branch created meanwhile.                                 *)
EXTENDS EditCandidates, TLC

CONSTANT topic

VARIABLE part

CandidatesInit ==
  /\ Init
  /\ part \in {"race", "publication"}

CandidatesNext ==
  /\ Next
  /\ part = "race" => /\ Len(qualifications') <= 1
                      /\ \A k \in Keys : k[2] = topic => heads'[k] = NoRev
                      /\ \A c \in Clients : calls'[c].op = "publish" => calls'[c].key[2] # topic
  /\ part = "publication" => /\ Len(revs') <= 3 /\ Len(candidates') <= 1
                              /\ \A i \in DOMAIN candidates' : candidates'[i].status # "abandoned"
  /\ UNCHANGED part

CandidatesSpec == CandidatesInit /\ [][CandidatesNext]_<<vars, part>>

Symmetry == Permutations(Clients)
==============================================================================
