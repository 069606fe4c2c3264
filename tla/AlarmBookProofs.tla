---------------------------- MODULE AlarmBookProofs ----------------------------
(***************************************************************************)
(* What AlarmBook keeps for every set of types, every cap and every limit: *)
(* its types, that no present condition is missing from the book, and that *)
(* a recurrence nobody touched is loud.                                    *)
(*                                                                         *)
(* PresentIsListed is inductive with the types.  RecurrenceIsLoud is not:  *)
(* Ack could turn an untouched alarm loud or silent unless an untouched    *)
(* entry that is not shelved is known to be exactly what the last Ingest   *)
(* left, so IInv adds what an entry looks like when its condition is gone. *)
(***************************************************************************)
EXTENDS AlarmBook, AlarmsProofs, TLAPS

(* A type whose condition is gone and that nobody touched since is absent,   *)
(* returned, or still under a shelf: the next event makes it loud or leaves  *)
(* it shelved.                                                               *)
ClearedIsQuiet ==
    \A t \in Types :
        ~Present(t) /\ t \notin touched =>
            alarm[t].state \in {"absent", "returned", "shelved"}

IInv == TypeOK /\ PresentIsListed /\ RecurrenceIsLoud /\ ClearedIsQuiet

--------------------------------------------------------------------------------
(* The invariant *)

LEMMA InitIInv == Init => IInv
BY DEF Init, IInv, TypeOK, PresentIsListed, RecurrenceIsLoud, ClearedIsQuiet,
       Present, Quiet, Absent

LEMMA IngestIInv ==
    ASSUME IInv, NEW evts \in EventSets, Ingest(evts)
    PROVE  IInv'
<1> DEFINE S == Seen(evts)
<1>1. /\ S \subseteq Types
      /\ \A t \in S : evts[t] \in Severity
      /\ \A t \in Types : t \in S => t \in DOMAIN evts
    BY DEF EventSets, Seen
<1>2. /\ alarm' = [t \in Types |-> IF t \in S THEN Raised(alarm[t], evts[t])
                                             ELSE Cleared(alarm[t])]
      /\ plant' = [t \in Types |-> IF t \in S THEN evts[t] ELSE Quiet]
      /\ touched' = touched \cap S
    BY DEF Ingest, Ingested
<1> HIDE DEF S
<1>3. ASSUME NEW t \in Types
      PROVE  alarm[t] \in {Absent} \cup Alarm
    BY DEF IInv, TypeOK
<1>4. ASSUME NEW t \in S
      PROVE  /\ alarm'[t] = Raised(alarm[t], evts[t])
             /\ plant'[t] = evts[t]
             /\ evts[t] # Quiet
             /\ alarm'[t] \in Alarm
             /\ alarm'[t].state \in {"unack", "acked", "shelved"}
    <2>1. t \in Types /\ evts[t] \in Severity
        BY <1>1
    <2>2. alarm'[t] = Raised(alarm[t], evts[t]) /\ plant'[t] = evts[t]
        BY <1>2, <2>1
    <2> QED BY <2>1, <2>2, <1>3, RaisedType DEF Severity, Quiet
<1>5. ASSUME NEW t \in Types \ S
      PROVE  /\ alarm'[t] = Cleared(alarm[t])
             /\ plant'[t] = Quiet
             /\ alarm'[t] \in {Absent} \cup Alarm
             /\ alarm'[t].state \in {"absent", "returned", "shelved"}
    BY <1>2, <1>3, ClearedType
<1>6. TypeOK'
    <2>1. alarm' \in [Types -> {Absent} \cup Alarm]
        BY <1>2, <1>4, <1>5
    <2>2. plant' \in [Types -> Severity \cup {Quiet}]
        BY <1>1, <1>2
    <2> QED BY <2>1, <2>2, <1>2 DEF IInv, TypeOK
<1>7. PresentIsListed'
    BY <1>4, <1>5 DEF PresentIsListed, Present
<1>8. RecurrenceIsLoud'
    <2> SUFFICES ASSUME NEW t \in Types, plant'[t] # Quiet, t \notin touched'
                 PROVE  \/ alarm'[t].state = "unack" /\ alarm'[t].severity = plant'[t]
                        \/ alarm'[t].state = "shelved"
        BY DEF RecurrenceIsLoud, Present
    <2>1. t \in S /\ t \notin touched
        BY <1>2, <1>5
    <2>2. alarm[t].state # "acked"
        BY <2>1 DEF IInv, RecurrenceIsLoud, ClearedIsQuiet
    <2> QED BY <2>1, <2>2, <1>1, <1>3, <1>4, RaisedLoud
<1>9. ClearedIsQuiet'
    BY <1>4, <1>5 DEF ClearedIsQuiet, Present
<1> QED BY <1>6, <1>7, <1>8, <1>9 DEF IInv

LEMMA AckIInv ==
    ASSUME IInv, NEW t \in Types, fwAck(t)
    PROVE  IInv'
<1>1. /\ alarm[t] \in Alarm
      /\ alarm' = [alarm EXCEPT ![t] = AckedEntry(alarm[t])]
      /\ plant' = plant
    BY DEF fwAck, IInv, TypeOK, Absent
<1>2. AckedEntry(alarm[t]) \in {Absent} \cup Alarm
    BY <1>1 DEF AckedEntry, Alarm, AlarmState
<1>3. CASE alarm[t].state = "returned"
    <2>1. ~Present(t)
        BY <1>3 DEF IInv, PresentIsListed
    <2>2. touched' = touched \ {t} /\ AckedEntry(alarm[t]) = Absent
        BY <1>3 DEF fwAck, AckedEntry
    <2> QED BY <1>1, <1>2, <2>1, <2>2
            DEF IInv, TypeOK, PresentIsListed, RecurrenceIsLoud, ClearedIsQuiet,
                Present, Absent
<1>4. CASE alarm[t].state # "returned"
    <2>1. touched' = touched \cup {t} /\ AckedEntry(alarm[t]).state = "acked"
        BY <1>1, <1>4 DEF fwAck, AckedEntry, Alarm
    <2> QED BY <1>1, <1>2, <2>1
            DEF IInv, TypeOK, PresentIsListed, RecurrenceIsLoud, ClearedIsQuiet, Present
<1> QED BY <1>3, <1>4

LEMMA ShelveIInv ==
    ASSUME IInv, NEW t \in Types, NEW m \in MinuteInputs, fwShelve(t, m)
    PROVE  IInv'
<1> DEFINE new == ShelvedEntry(alarm[t], ShelfLength(m))
<1>1. /\ alarm[t] \in Alarm
      /\ alarm' = [alarm EXCEPT ![t] = new]
      /\ plant' = plant
      /\ touched' = touched \cup {t}
    BY DEF fwShelve, IInv, TypeOK, Absent
<1>2. new \in Alarm /\ new.state = "shelved"
    BY <1>1, ShelfLengthType DEF ShelvedEntry, Alarm, AlarmState
<1> HIDE DEF new
<1> QED BY <1>1, <1>2
        DEF IInv, TypeOK, PresentIsListed, RecurrenceIsLoud, ClearedIsQuiet, Present

LEMMA MinuteIInv ==
    ASSUME IInv, Minute
    PROVE  IInv'
<1>1. ASSUME NEW t \in Types
      PROVE  /\ alarm'[t] \in {Absent} \cup Alarm
             /\ alarm'[t].state = alarm[t].state
             /\ alarm[t].state # "absent" => alarm'[t].severity = alarm[t].severity
    <2>1. alarm'[t] = Elapsed(alarm[t]) /\ alarm[t] \in {Absent} \cup Alarm
        BY DEF Minute, IInv, TypeOK
    <2> QED BY <2>1, AlarmsAssumption DEF Elapsed, Alarm, Absent, NoDeadline
<1>2. alarm' \in [Types -> {Absent} \cup Alarm]
    BY <1>1 DEF Minute
<1> QED BY <1>1, <1>2
        DEF Minute, IInv, TypeOK, PresentIsListed, RecurrenceIsLoud, ClearedIsQuiet, Present

(* The alarm book keeps its types, keeps every present condition listed and  *)
(* every untouched recurrence loud, for every set of alarm types.            *)
THEOREM BookInvariant == Spec => []IInv
<1>1. Init => IInv
    BY InitIInv
<1>2. IInv /\ [Next]_vars => IInv'
    <2> SUFFICES ASSUME IInv, [Next]_vars PROVE IInv'
        OBVIOUS
    <2>1. CASE \E evts \in EventSets : Ingest(evts)
        BY <2>1, IngestIInv
    <2>2. CASE \E t \in Types : fwAck(t)
        BY <2>2, AckIInv
    <2>3. CASE \E t \in Types, m \in MinuteInputs : fwShelve(t, m)
        BY <2>3, ShelveIInv
    <2>4. CASE Minute
        BY <2>4, MinuteIInv
    <2>5. CASE UNCHANGED vars
        BY <2>5 DEF vars, IInv, TypeOK, PresentIsListed, RecurrenceIsLoud,
                    ClearedIsQuiet, Present
    <2> QED BY <2>1, <2>2, <2>3, <2>4, <2>5 DEF Next
<1> QED BY <1>1, <1>2, PTL DEF Spec

(* Type correctness of the alarm book. *)
THEOREM TypeCorrect == Spec => []TypeOK
<1>1. IInv => TypeOK
    BY DEF IInv
<1> QED BY <1>1, BookInvariant, PTL

(* No sequence of ticks, acks and shelves hides a condition the plant still  *)
(* reports: the book lists it and never as returned.                         *)
THEOREM PresentAlwaysListed == Spec => []PresentIsListed
<1>1. IInv => PresentIsListed
    BY DEF IInv
<1> QED BY <1>1, BookInvariant, PTL

(* A recurring condition nobody touched since it cleared is unacknowledged   *)
(* with the plant's severity, or under an earlier shelf.                     *)
THEOREM RecurrenceAlwaysLoud == Spec => []RecurrenceIsLoud
<1>1. IInv => RecurrenceIsLoud
    BY DEF IInv
<1> QED BY <1>1, BookInvariant, PTL

--------------------------------------------------------------------------------
(* Nothing but the operator's Ack ends a shelf that still holds, and its     *)
(* alarm keeps its severity meanwhile.                                       *)
THEOREM ShelvesAreHonoured == Spec => ShelfHonoured
<1>1. ASSUME TypeOK, [Next]_vars, NEW t \in Types
      PROVE  Kept(t)
    <2> SUFFICES ASSUME Covered(t) PROVE Kept(t)
        BY DEF Kept
    <2>1. alarm[t] \in Alarm /\ alarm[t].state = "shelved" /\ alarm[t].left > 0
        BY <1>1 DEF TypeOK, Covered, Absent
    <2>2. ASSUME NEW evts \in EventSets, Ingest(evts)
          PROVE  Kept(t)
        <3>1. alarm'[t] \in {Raised(alarm[t], evts[t]), Cleared(alarm[t])}
            BY <2>2 DEF Ingest, Ingested
        <3> QED BY <2>1, <3>1 DEF Raised, Cleared, Reannounced, InForce, Alarm, Kept
    <2>3. ASSUME NEW u \in Types, fwAck(u)
          PROVE  Kept(t)
        BY <1>1, <2>1, <2>3 DEF fwAck, AckedEntry, TypeOK, Alarm, Kept
    <2>4. ASSUME NEW u \in Types, NEW m \in MinuteInputs, fwShelve(u, m)
          PROVE  Kept(t)
        BY <1>1, <2>1, <2>4 DEF fwShelve, ShelvedEntry, TypeOK, Alarm, Kept
    <2>5. CASE Minute
        BY <2>1, <2>5 DEF Minute, Elapsed, Alarm, Kept
    <2>6. CASE UNCHANGED vars
        BY <2>1, <2>6 DEF vars, Kept
    <2> QED BY <1>1, <2>2, <2>3, <2>4, <2>5, <2>6 DEF Next
<1>2. TypeOK /\ [Next]_vars => [\A t \in Types : Kept(t)]_vars
    BY <1>1
<1> QED BY <1>2, TypeCorrect, PTL DEF Spec, ShelfHonoured

================================================================================
