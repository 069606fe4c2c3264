------------------------------ MODULE MCSimEngine ------------------------------
(* Model checking instance of SimEngine: two runs (a restart while the first *)
(* goroutine is inside a delivery), two requests, two scenarios.             *)
EXTENDS SimEngine
================================================================================
