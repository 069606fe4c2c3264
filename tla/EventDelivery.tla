------------------------------ MODULE EventDelivery ----------------------------
(***************************************************************************)
(* What a publish promises the handler or tick that asked for it           *)
(* (PublishEventType of internal/relaypub/client.go: no error, or one),    *)
(* apart from gateways, topics, retries and settings.  An event ends well  *)
(* only when a gateway or Relay holds it, and takes effect at Relay once   *)
(* at most; how it ended is never taken back, and what was handed over is  *)
(* never lost.  An error promises nothing: the event may have arrived, may *)
(* arrive later, and may take effect.                                      *)
(***************************************************************************)
EXTENDS Naturals

CONSTANT Events

VARIABLES
    outcome,  \* outcome[e]: "open", or how the publish of e ended
    held,     \* events a gateway or Relay has
    effects   \* effects[e]: how often e has taken effect at Relay

vars == <<outcome, held, effects>>

Init ==
    /\ outcome = [e \in Events |-> "open"]
    /\ held = {}
    /\ effects = [e \in Events |-> 0]

(* e is handed over, or not. *)
Arrives(e) == held' \in {held, held \cup {e}}

(* Relay applies e, if it has not yet and somebody holds it. *)
Applies(e) ==
    \/ UNCHANGED effects
    \/ e \in held' /\ effects[e] = 0 /\ effects' = [effects EXCEPT ![e] = 1]

Ends(e) ==
    \E result \in {"ok", "failed"} :
        /\ outcome[e] = "open"
        /\ result = "ok" => e \in held'
        /\ outcome' = [outcome EXCEPT ![e] = result]

Deliver(e) == Arrives(e) /\ Applies(e) /\ (UNCHANGED outcome \/ Ends(e))

(* Publishes that a crash cuts short have failed. *)
Crash ==
    /\ \E cut \in SUBSET {e \in Events : outcome[e] = "open"} :
          outcome' = [e \in Events |-> IF e \in cut THEN "failed" ELSE outcome[e]]
    /\ UNCHANGED <<held, effects>>

Next == Crash \/ \E e \in Events : Deliver(e)

Spec == Init /\ [][Next]_vars

================================================================================
