--------------------------- MODULE MCFirewaterEngine ---------------------------
(* Model checking instance of FirewaterEngine, with the record of its book   *)
(* (FirewaterBook): two runs, one request beside them, a healthy scenario    *)
(* and one that raises an alarm.                                             *)
EXTENDS FirewaterBook, TLC

MCConditions == [normal |-> <<>>, gas |-> [edge_gas_alarm |-> "critical"]]
MCMinuteInputs == {0}

================================================================================
