------------------------------- MODULE MCSiteStore -----------------------------
(* Model checking instance of SiteStore: two sites for a zone to be in, two  *)
(* requests in several steps at once, two faults.                            *)
EXTENDS SiteStore, TLC

Symmetry == Permutations(Clients)

================================================================================
