--------------------------- MODULE MCSeasonLifecycle ---------------------------
(* Model checking instance of SeasonLifecycle: requests in progress overlap  *)
(* in pairs; the cfg of the restart run allows two faults, that of the       *)
(* document's claim none.                                                    *)
EXTENDS SeasonLifecycle, TLC

Symmetry == Permutations(Clients)

================================================================================
