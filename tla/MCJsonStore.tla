------------------------------- MODULE MCJsonStore -----------------------------
(* Model checking instance of JsonStore: three documents, two crashes. *)
EXTENDS JsonStore
================================================================================
