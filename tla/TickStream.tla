------------------------------- MODULE TickStream ------------------------------
(***************************************************************************)
(* What starting and stopping a simulator promises, apart from how the     *)
(* engines do it: a run is a goroutine that ticks; at most one run is      *)
(* current; a run that is not current is on its way out and leaves.        *)
(*                                                                         *)
(* The promise is the one internal/fleet/restart_test.go and               *)
(* internal/remoteedge/restart_test.go write down: "A goroutine from a     *)
(* stopped run must exit even if Start is called again".                   *)
(***************************************************************************)
EXTENDS Naturals

CONSTANT Runs  \* identities of runs; positive numbers

VARIABLES
    current,  \* the run Start began and Stop has not ended, or 0
    alive     \* runs whose goroutine has not returned

vars == <<current, alive>>

Init == current = 0 /\ alive = {}

Start(r) ==
    /\ current = 0
    /\ r \notin alive
    /\ current' = r
    /\ alive' = alive \cup {r}

Stop ==
    /\ current # 0
    /\ current' = 0
    /\ UNCHANGED alive

Leave(r) ==
    /\ r \in alive
    /\ r # current
    /\ alive' = alive \ {r}
    /\ UNCHANGED current

Next ==
    \/ Stop
    \/ \E r \in Runs : Start(r) \/ Leave(r)

Spec == Init /\ [][Next]_vars /\ \A r \in Runs : WF_vars(Leave(r))

================================================================================
