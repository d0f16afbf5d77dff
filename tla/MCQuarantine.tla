----------------------------- MODULE MCQuarantine -----------------------------
(* Two plans that may select the same entry, and a second payload published *)
(* under its name.                                                          *)
EXTENDS Quarantine, TLC

Symmetry == Permutations(Plans) \cup Permutations(Builds)
==============================================================================
