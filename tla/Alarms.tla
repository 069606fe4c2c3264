--------------------------------- MODULE Alarms --------------------------------
(***************************************************************************)
(* What each call of the alarm book does to its entries                    *)
(* (internal/firewater/alarms.go), without the book's state: AlarmBook     *)
(* checks the book alone against every order of calls, FirewaterEngine     *)
(* puts it behind the engine's ticks.                                      *)
(*                                                                         *)
(* Abstractions: an alarm type is a member of Types; wall-clock time is    *)
(* kept as the time LEFT until shelved_until, so that no absolute clock is *)
(* needed; FirstAt, LastAt and Message are left out; the occurrence count  *)
(* saturates at CountCap.                                                  *)
(***************************************************************************)
EXTENDS Integers

CONSTANTS
    Types,          \* event types Derive can raise ("edge.gas.alarm", ...)
    CountCap,       \* bound of the model: occurrence counts saturate here
    MinuteInputs,   \* "minutes" values a shelve request can carry
    DefaultMinutes, \* what fwShelve uses when minutes <= 0 (15 in the code)
    DurationLimit   \* minutes a time.Duration (int64 nanoseconds) can hold

ASSUME AlarmsAssumption ==
    /\ CountCap \in Nat \ {0}
    /\ MinuteInputs \subseteq Int
    /\ DurationLimit \in Nat \ {0}
    /\ DefaultMinutes \in 1 .. (DurationLimit - 1)

--------------------------------------------------------------------------------
(* Alarms *)

Severity == {"warning", "critical"}
Quiet == "none"        \* plant[t] when the last Ingest did not contain t
NoDeadline == -1       \* ShelvedTo == nil

AlarmState == {"unack", "acked", "shelved", "returned"}

Alarm == [state    : AlarmState,
          severity : Severity,
          count    : 1 .. CountCap,
          left     : {NoDeadline} \cup (0 .. DurationLimit)]

(* The map has no key t. *)
Absent == [state |-> "absent"]

Bump(n) == IF n < CountCap THEN n + 1 ELSE CountCap

--------------------------------------------------------------------------------
(* Plausible bugs, one per property a run checks: each stands beside the     *)
(* definition it would spoil, and no other definition uses it.               *)

InForceTooShort(a) == a.state = "shelved" /\ a.left > 1
ReannouncedForgetsReturned(state) == IF state = "shelved" THEN "unack" ELSE state
ReannouncedForgetsShelved(state) == IF state = "returned" THEN "unack" ELSE state
AckedEntryAlwaysRemoved(a) == Absent
ClearedEntryKept(a) == a

--------------------------------------------------------------------------------
(* What each call does to one entry *)

(* Ingest meets a type the book does not have. *)
NewAlarm(sev) ==
    [state |-> "unack", severity |-> sev, count |-> 1, left |-> NoDeadline]

(* now is before ShelvedTo: the shelf still holds. *)
InForce(a) == a.state = "shelved" /\ a.left > 0

(* The state in which an event finds an alarm not silenced by a shelf, made  *)
(* the state it leaves it in: a run-out shelf and a cleared condition need   *)
(* a new acknowledgement.                                                    *)
Reannounced(state) == IF state \in {"shelved", "returned"} THEN "unack" ELSE state

(* Ingest, for an event of this type; a shelf that holds only counts it. *)
Raised(a, sev) ==
    IF a.state = "absent" THEN NewAlarm(sev)
    ELSE IF InForce(a) THEN [a EXCEPT !.count = Bump(@)]
    ELSE [state    |-> Reannounced(a.state),
          severity |-> sev,
          count    |-> Bump(a.count),
          left     |-> IF a.state = "shelved" THEN NoDeadline ELSE a.left]

(* Ingest, for a type the events do not contain. *)
Cleared(a) ==
    IF a.state \in {"unack", "acked"} THEN [a EXCEPT !.state = "returned"] ELSE a

(* Ack: a returned alarm leaves the book, any other becomes acked; its     *)
(* shelved_until, if it has one, stays behind.                             *)
AckedEntry(a) ==
    IF a.state = "returned" THEN Absent ELSE [a EXCEPT !.state = "acked"]

(* int64 arithmetic of time.Duration(minutes) * time.Minute. *)
Wrap(m) == ((m + DurationLimit) % (2 * DurationLimit)) - DurationLimit

(* fwShelve: minutes <= 0 (or an unreadable body, which leaves 0) means the *)
(* default; a deadline at or before now has nothing left.                   *)
ShelfLength(minutes) ==
    LET d == Wrap(IF minutes <= 0 THEN DefaultMinutes ELSE minutes)
    IN  IF d > 0 THEN d ELSE 0

ShelvedEntry(a, d) == [a EXCEPT !.state = "shelved", !.left = d]

(* A minute passes: a deadline still ahead comes nearer. *)
Elapsed(a) ==
    IF a.state # "absent" /\ a.left > 0 THEN [a EXCEPT !.left = @ - 1] ELSE a

(* Book.Ingest over the whole map: evts maps each type that has an event to *)
(* its severity; info events count as unseen.                               *)
Seen(evts) == {t \in DOMAIN evts : evts[t] # "info"}

Ingested(book, evts) ==
    [t \in Types |-> IF t \in Seen(evts) THEN Raised(book[t], evts[t])
                                         ELSE Cleared(book[t])]

================================================================================
