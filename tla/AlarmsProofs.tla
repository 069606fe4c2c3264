------------------------------ MODULE AlarmsProofs ------------------------------
(***************************************************************************)
(* What the operators of Alarms make of any entry of the book: the lemmas  *)
(* AlarmBookProofs and FirewaterProofs rest on.                            *)
(***************************************************************************)
EXTENDS Alarms, TLAPS

--------------------------------------------------------------------------------

(* A shelf length is a number of minutes a Duration can hold. *)
LEMMA ShelfLengthType ==
    ASSUME NEW m \in MinuteInputs
    PROVE  ShelfLength(m) \in 0 .. DurationLimit
<1> USE AlarmsAssumption
<1>1. m \in Int
    OBVIOUS
<1>2. (IF m <= 0 THEN DefaultMinutes ELSE m) \in Int
    BY <1>1
<1>3. \A k \in Int : Wrap(k) \in Int /\ Wrap(k) <= DurationLimit
    <2> TAKE k \in Int
    <2> DEFINE w == 2 * DurationLimit
    <2>1. w \in Nat \ {0} /\ k + DurationLimit \in Int
        OBVIOUS
    <2>2. (k + DurationLimit) % w \in 0 .. (w - 1)
        <3> HIDE DEF w
        <3> QED BY <2>1
    <2> QED BY <2>2 DEF Wrap
<1> QED BY <1>2, <1>3 DEF ShelfLength

(* An event turns any entry into an alarm. *)
LEMMA RaisedType ==
    ASSUME NEW a \in {Absent} \cup Alarm, NEW sev \in Severity
    PROVE  /\ Raised(a, sev) \in Alarm
           /\ Raised(a, sev).state \in {"unack", "acked", "shelved"}
BY AlarmsAssumption DEF Raised, NewAlarm, Reannounced, Alarm, AlarmState, Absent, InForce, Bump, NoDeadline

(* What an event does to an entry that is not an acknowledged alarm. *)
LEMMA RaisedLoud ==
    ASSUME NEW a \in {Absent} \cup Alarm, NEW sev \in Severity, a.state # "acked"
    PROVE  \/ Raised(a, sev).state = "unack" /\ Raised(a, sev).severity = sev
           \/ Raised(a, sev).state = "shelved"
BY DEF Raised, NewAlarm, Reannounced, Alarm, AlarmState, Absent, InForce, Bump

(* The end of a condition keeps an entry an entry, and unacks nothing. *)
LEMMA ClearedType ==
    ASSUME NEW a \in {Absent} \cup Alarm
    PROVE  /\ Cleared(a) \in {Absent} \cup Alarm
           /\ Cleared(a).state \in {"absent", "returned", "shelved"}
BY DEF Cleared, Alarm, AlarmState, Absent

(* Ack and Shelve keep an entry an entry. *)
LEMMA AckedType ==
    ASSUME NEW a \in Alarm
    PROVE  AckedEntry(a) \in {Absent} \cup Alarm
BY DEF AckedEntry, Alarm, AlarmState

LEMMA ShelvedType ==
    ASSUME NEW a \in Alarm, NEW m \in MinuteInputs
    PROVE  ShelvedEntry(a, ShelfLength(m)) \in Alarm
<1>1. ShelfLength(m) \in 0 .. DurationLimit
    BY ShelfLengthType
<1> QED BY <1>1 DEF ShelvedEntry, Alarm, AlarmState

(* A passing minute keeps an entry an entry. *)
LEMMA ElapsedType ==
    ASSUME NEW a \in {Absent} \cup Alarm
    PROVE  Elapsed(a) \in {Absent} \cup Alarm
BY AlarmsAssumption DEF Elapsed, Alarm, Absent, NoDeadline

(* Ingest keeps the book a book. *)
LEMMA IngestedType ==
    ASSUME NEW book \in [Types -> {Absent} \cup Alarm],
           NEW evts, \A t \in Seen(evts) : evts[t] \in Severity
    PROVE  Ingested(book, evts) \in [Types -> {Absent} \cup Alarm]
<1>1. ASSUME NEW t \in Types
      PROVE  (IF t \in Seen(evts) THEN Raised(book[t], evts[t]) ELSE Cleared(book[t]))
                \in {Absent} \cup Alarm
    <2>1. book[t] \in {Absent} \cup Alarm
        OBVIOUS
    <2>2. CASE t \in Seen(evts)
        BY <2>1, <2>2, RaisedType
    <2>3. CASE t \notin Seen(evts)
        BY <2>1, <2>3, ClearedType
    <2> QED BY <2>2, <2>3
<1> QED BY <1>1 DEF Ingested

================================================================================
