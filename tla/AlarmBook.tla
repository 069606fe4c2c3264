------------------------------- MODULE AlarmBook -------------------------------
(***************************************************************************)
(* The alarm book of the fire-water engine (internal/firewater/alarms.go)  *)
(* and the two handlers an operator drives it with (fwAck, fwShelve in     *)
(* internal/httpapi/firewater.go).                                         *)
(*                                                                         *)
(* Book.mu makes Ingest, Ack, Shelve and List atomic, so each is one       *)
(* action.  The hard part is the order of calls: the plant raises, clears  *)
(* and raises a condition again while an operator acknowledges and shelves *)
(* it and the shelf runs out.                                              *)
(***************************************************************************)
EXTENDS Alarms

VARIABLES
    alarm,   \* alarm[t]: the entry of Book.active under key t, or Absent
    plant,   \* history: plant[t] is the severity of t in the last Ingest
    touched  \* history: types acked or shelved since the condition last cleared

vars == <<alarm, plant, touched>>

--------------------------------------------------------------------------------
(* Actions *)

Init ==
    /\ alarm = [t \in Types |-> Absent]
    /\ plant = [t \in Types |-> Quiet]
    /\ touched = {}

(* What Derive can hand to Ingest: at most one event per type, none info. *)
EventSets == UNION {[S -> Severity] : S \in SUBSET Types}

Ingest(evts) ==
    /\ alarm' = Ingested(alarm, evts)
    /\ plant' = [t \in Types |-> IF t \in Seen(evts) THEN evts[t] ELSE Quiet]
    /\ touched' = touched \cap Seen(evts)

(* POST /v1/firewater/alarms/{id}/ack; an unknown id answers 404. *)
fwAck(t) ==
    /\ alarm[t].state # "absent"
    /\ alarm' = [alarm EXCEPT ![t] = AckedEntry(@)]
    /\ touched' = IF alarm[t].state = "returned" THEN touched \ {t} ELSE touched \cup {t}
    /\ UNCHANGED plant

(* POST /v1/firewater/alarms/{id}/shelve; an unknown id answers 404. *)
fwShelve(t, minutes) ==
    /\ alarm[t].state # "absent"
    /\ alarm' = [alarm EXCEPT ![t] = ShelvedEntry(@, ShelfLength(minutes))]
    /\ touched' = touched \cup {t}
    /\ UNCHANGED plant

(* One minute passes. *)
Minute ==
    /\ alarm' = [t \in Types |-> Elapsed(alarm[t])]
    /\ UNCHANGED <<plant, touched>>

Next ==
    \/ \E evts \in EventSets : Ingest(evts)
    \/ \E t \in Types : fwAck(t)
    \/ \E t \in Types, m \in MinuteInputs : fwShelve(t, m)
    \/ Minute

Spec == Init /\ [][Next]_vars

(* The clock runs, and a running engine ingests again after every interval. *)
FairSpec ==
    /\ Spec
    /\ WF_vars(Minute)
    /\ WF_vars(\E evts \in EventSets : Ingest(evts))

--------------------------------------------------------------------------------
(* Properties *)

(* Every entry is an alarm or absent; the histories range over the types.    *)
TypeOK ==
    /\ alarm \in [Types -> {Absent} \cup Alarm]
    /\ plant \in [Types -> Severity \cup {Quiet}]
    /\ touched \subseteq Types

Present(t) == plant[t] # Quiet

(* A condition the plant still reports has an entry in the book that is not *)
(* "returned", whatever the operator did meanwhile: Ack may delete only an  *)
(* alarm whose condition is gone.                                           *)
PresentIsListed ==
    \A t \in Types : Present(t) => alarm[t].state \in {"unack", "acked", "shelved"}

(* A condition that came back, and that nobody acknowledged or shelved since *)
(* it last cleared, is unacknowledged with the severity the plant reports,   *)
(* unless a shelf set before it cleared still covers it.                     *)
RecurrenceIsLoud ==
    \A t \in Types :
        Present(t) /\ t \notin touched =>
            \/ alarm[t].state = "unack" /\ alarm[t].severity = plant[t]
            \/ alarm[t].state = "shelved"

Covered(t) == alarm[t].state = "shelved" /\ alarm[t].left > 0

Kept(t) ==
    Covered(t) => /\ alarm'[t].state \in {"shelved", "acked"}
                  /\ alarm'[t].severity = alarm[t].severity

(* While a shelf holds, no plant event and no passing minute ends it or      *)
(* changes the alarm's severity: only the operator's Ack takes it off.       *)
ShelfHonoured == [][\A t \in Types : Kept(t)]_vars

(* A condition that stays does not stay shelved for ever, unless the         *)
(* operator keeps shelving it: the shelf runs out and the next Ingest raises *)
(* the alarm again.                                                          *)
ShelfExpires ==
    \A t \in Types :
        <>[]Present(t) =>
            \/ []<>(alarm[t].state # "shelved")
            \/ []<><<\E m \in MinuteInputs : fwShelve(t, m)>>_vars

================================================================================
