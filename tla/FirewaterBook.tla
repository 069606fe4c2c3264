------------------------------ MODULE FirewaterBook ----------------------------
(***************************************************************************)
(* The alarm book behind the running engine: FirewaterEngine with          *)
(* AlarmBook's record of what the plant reported last and of what an       *)
(* operator has handled since.  AlarmBook lets the plant say anything, at  *)
(* any time; here the ticks of goroutines of several runs and of requests  *)
(* feed the book, each with the scenario it stepped, possibly long after   *)
(* another scenario was set, while requests acknowledge and shelve.  That  *)
(* this implements AlarmBook is what makes its properties ones of the      *)
(* simulator.                                                              *)
(***************************************************************************)
EXTENDS FirewaterEngine

VARIABLES
    plant,   \* history: plant[t] is the severity of t in the last Ingest
    touched  \* history: types acked or shelved since the condition last cleared

record == <<plant, touched>>

bookedVars == <<vars, record>>

BookedInit ==
    /\ Init
    /\ plant = [t \in Types |-> Quiet]
    /\ touched = {}

--------------------------------------------------------------------------------
(* The steps that use the book, recorded *)

TickFeedsBook(i) ==
    /\ TickIngests(i)
    /\ LET evts == Conditions[thread[i].scen]
       IN  /\ plant' = [t \in Types |-> IF t \in Seen(evts) THEN evts[t] ELSE Quiet]
           /\ touched' = touched \cap Seen(evts)

(* An acknowledgement that takes a returned alarm off the book leaves        *)
(* nothing handled.                                                          *)
OperatorAcks(t) ==
    /\ ClientAcks(t)
    /\ touched' = IF alarm'[t] = Absent THEN touched \ {t} ELSE touched \cup {t}
    /\ UNCHANGED plant

OperatorShelves(t, minutes) ==
    /\ ClientShelves(t, minutes)
    /\ touched' = touched \cup {t}
    /\ UNCHANGED plant

BookedNext ==
    \/ EngineNext /\ UNCHANGED record
    \/ \E i \in Threads : TickFeedsBook(i)
    \/ \E t \in Types : OperatorAcks(t) \/ \E m \in MinuteInputs : OperatorShelves(t, m)
    \/ Minute /\ UNCHANGED record

BookedSpec == BookedInit /\ [][BookedNext]_bookedVars

(* The record takes no part in what is fair. *)
BookedFairSpec == BookedSpec /\ Fairness

--------------------------------------------------------------------------------
(* Properties *)

Book == INSTANCE AlarmBook

(* Whoever ticks, in whatever order the ticks reach the book, and whatever   *)
(* operators do in between: the book goes through nothing that AlarmBook     *)
(* does not.                                                                 *)
KeepsBook == Book!Spec

================================================================================
