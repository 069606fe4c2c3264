--------------------------------- MODULE MCPlant -------------------------------
(* Model checking instance of Plant: each of the three simulators with all   *)
(* of its scenarios; all readings at the same end of their bands, or all but *)
(* one that has a band.                                                      *)
EXTENDS Plant

Ends == {-100, 0, 100}

Noisy(bands) == {m \in DOMAIN bands : bands[m][2] > 0}

Odd == UNION {Noisy(Healthy[any]) \cup UNION {Noisy(Imposed[any][s]) : s \in DOMAIN Imposed[any]} :
                any \in Simulators}

MCNoises ==
    {[m \in AllMetrics |-> IF m = odd THEN b ELSE a] : odd \in Odd, a \in Ends, b \in Ends}
================================================================================
