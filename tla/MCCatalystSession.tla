-------------------------- MODULE MCCatalystSession --------------------------
(* Model values for CatalystSession: clients and slots are interchangeable. *)
EXTENDS CatalystSession, TLC

Symmetry == Permutations(Clients) \cup Permutations(Slots) \cup Permutations(Addresses)
==============================================================================
