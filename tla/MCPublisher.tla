------------------------------- MODULE MCPublisher -----------------------------
(* Model checking instance of Publisher: two publishes, two gateways to      *)
(* change between or to clear, two changes and a restart.                    *)
EXTENDS Publisher
================================================================================
