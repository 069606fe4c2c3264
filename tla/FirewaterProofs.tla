---------------------------- MODULE FirewaterProofs ----------------------------
(***************************************************************************)
(* The fire-water engine never closes a channel twice, and while it runs   *)
(* the goroutine of the current run is there and waits on an open channel: *)
(* adopting a newer run's channel leaks goroutines but stops none early.   *)
(* For any number of runs, requests, scenarios and alarm types.            *)
(*                                                                         *)
(* NoDoubleClose and RunningMeansTicking are inductive once it is known    *)
(* that only channels of runs begun so far are closed.                     *)
(*                                                                         *)
(* Behind it, the alarm book implements AlarmBook, step by step, so that   *)
(* what AlarmBookProofs shows of a book fed in any way holds of this one.  *)
(***************************************************************************)
EXTENDS FirewaterBook, AlarmsProofs, TLAPS

(* Only channels of runs that were begun are closed. *)
ClosedWereBegun == closed \subseteq 1 .. started

IInv ==
    /\ TypeOK
    /\ ClosedWereBegun
    /\ NoDoubleClose
    /\ RunningMeansTicking

Lifecycle == <<running, stop, closed, started>>

--------------------------------------------------------------------------------

LEMMA ThreadTypes ==
    ASSUME TypeOK
    PROVE  /\ List \in Listing
           /\ \A pc \in PC : At(pc) \in Thread /\ At(pc).pc = pc /\ At(pc).chan = 0
           /\ \A snap \in Listing :
                 [At("deliver") EXCEPT !.snap = snap] \in Thread
           /\ [At("ingest") EXCEPT !.scen = scenario] \in Thread
           /\ [At("select") EXCEPT !.chan = stop] \in Thread
<1>1. List \in Listing
    BY DEF TypeOK, List, Listing, Absent, Alarm
<1>2. Blank \in Listing
    BY DEF Blank, Listing
<1>3. \A pc \in PC : At(pc) \in Thread /\ At(pc).pc = pc /\ At(pc).chan = 0
    BY <1>2, FirewaterAssumption DEF At, Thread
<1>4. {"deliver", "ingest", "select"} \subseteq PC
    BY DEF PC
<1> QED BY <1>1, <1>3, <1>4 DEF Thread, TypeOK

LEMMA InitIInv == Init => IInv
<1> SUFFICES ASSUME Init PROVE IInv
    OBVIOUS
<1>1. At("unborn") \in Thread /\ At("idle") \in Thread /\ Blank \in Listing
    BY FirewaterAssumption DEF At, Thread, PC, Blank, Listing
<1>2. 0 \in 0 .. MaxRuns /\ Nominal \in Scenarios
    BY FirewaterAssumption
<1>3. thread \in [Threads -> Thread]
    BY <1>1 DEF Init
<1>4. alarm \in [Types -> {Absent} \cup Alarm]
    BY DEF Init
<1>5. TypeOK
    BY <1>1, <1>2, <1>3, <1>4 DEF Init, TypeOK
<1>6. running = FALSE /\ closed = {}
    BY DEF Init
<1> QED BY <1>5, <1>6 DEF IInv, ClosedWereBegun, NoDoubleClose, RunningMeansTicking

(* A step of one thread that is not the end of a run's goroutine, and that   *)
(* leaves Start and Stop's variables alone, keeps the invariant.             *)
LEMMA ThreadStep ==
    ASSUME IInv, NEW i \in Threads, NEW th \in Thread,
           thread' = [thread EXCEPT ![i] = th],
           UNCHANGED Lifecycle,
           scenario' \in Scenarios, shown' \in Listing,
           alarm' \in [Types -> {Absent} \cup Alarm],
           running /\ i = stop =>
               th.pc \notin {"unborn", "returned"} /\ th.chan \notin closed
    PROVE  IInv'
<1>1. TypeOK'
    BY DEF IInv, TypeOK, Lifecycle
<1>2. NoDoubleClose' /\ ClosedWereBegun'
    BY DEF IInv, NoDoubleClose, ClosedWereBegun, Lifecycle
<1>3. RunningMeansTicking'
    <2> SUFFICES ASSUME running
                 PROVE  stop \in Alive' /\ thread'[stop].chan \notin closed
        BY DEF RunningMeansTicking, Lifecycle
    <2>1. stop \in Runs /\ stop \in Threads
        BY DEF IInv, NoDoubleClose, Threads
    <2>2. stop \in Alive /\ thread[stop].chan \notin closed
        BY DEF IInv, RunningMeansTicking
    <2>3. thread'[stop].chan \notin closed /\ thread'[stop].pc \notin {"unborn", "returned"}
        BY <2>1, <2>2 DEF IInv, TypeOK, Alive
    <2> QED BY <2>1, <2>3 DEF Alive
<1> QED BY <1>1, <1>2, <1>3 DEF IInv

(* Channel 0 stands for no channel and is never closed. *)
LEMMA NoChannelNotClosed == ASSUME TypeOK PROVE 0 \notin closed
BY FirewaterAssumption DEF TypeOK, Runs

(* Requests are not goroutines of runs. *)
LEMMA ClientNotRun == ASSUME NEW c \in Clients PROVE c \in Threads /\ c \notin Runs
BY FirewaterAssumption DEF Threads

--------------------------------------------------------------------------------
(* The actions *)

(* The steps of a tick, whoever runs it. *)
LEMMA TickIInv ==
    ASSUME IInv, NEW i \in Threads,
           TickSteps(i) \/ TickIngests(i) \/ TickLists(i) \/ Delivers(i)
    PROVE  IInv'
<1>1. TypeOK /\ 0 \notin closed /\ List \in Listing
    BY NoChannelNotClosed, ThreadTypes DEF IInv
<1>2. CASE TickSteps(i)
    <2>1. [At("ingest") EXCEPT !.scen = scenario] \in Thread
        BY <1>1, ThreadTypes
    <2>2. /\ [At("ingest") EXCEPT !.scen = scenario].pc = "ingest"
          /\ [At("ingest") EXCEPT !.scen = scenario].chan = 0
        BY DEF At
    <2> QED BY <1>1, <1>2, <2>1, <2>2, ThreadStep DEF TickSteps, TypeOK, Lifecycle
<1>3. CASE TickIngests(i)
    <2>1. thread[i].scen \in Scenarios
        BY <1>1 DEF TypeOK, Thread
    <2>2. alarm' \in [Types -> {Absent} \cup Alarm]
        BY <1>1, <1>3, <2>1, IngestedType, FirewaterAssumption DEF TickIngests, TypeOK
    <2>3. At("list") \in Thread /\ At("list").pc = "list" /\ At("list").chan = 0
        BY <1>1, ThreadTypes DEF PC
    <2> QED BY <1>1, <1>3, <2>2, <2>3, ThreadStep
            DEF TickIngests, Goto, engine, TypeOK, Lifecycle
<1>4. CASE TickLists(i)
    <2>1. [At("deliver") EXCEPT !.snap = List] \in Thread
        BY <1>1, ThreadTypes
    <2>2. /\ [At("deliver") EXCEPT !.snap = List].pc = "deliver"
          /\ [At("deliver") EXCEPT !.snap = List].chan = 0
        BY DEF At
    <2> QED BY <1>1, <1>4, <2>1, <2>2, ThreadStep
            DEF TickLists, engine, TypeOK, Lifecycle
<1>5. CASE Delivers(i)
    <2> DEFINE pc == IF i \in Runs THEN "choose" ELSE "idle"
    <2>1. At(pc) \in Thread /\ At(pc).pc \in {"choose", "idle"} /\ At(pc).chan = 0
        BY <1>1, ThreadTypes DEF PC
    <2>2. shown' \in Listing
        BY <1>1, <1>5 DEF Delivers, TypeOK, Thread
    <2>3. thread' = [thread EXCEPT ![i] = At(pc)]
        BY <1>5 DEF Delivers, Goto
    <2>4. UNCHANGED <<scenario, running, stop, closed, started, alarm>>
        BY <1>5 DEF Delivers, engine
    <2> QED BY <1>1, <2>1, <2>2, <2>3, <2>4, ThreadStep DEF TypeOK, Lifecycle
<1> QED BY <1>2, <1>3, <1>4, <1>5

(* The select of a goroutine: what the current run's chooses is open, so it  *)
(* is not the one that returns.                                              *)
LEMMA SelectIInv ==
    ASSUME IInv, NEW r \in Runs, TickerChooses(r) \/ TickerReturns(r)
    PROVE  IInv'
<1>1. TypeOK /\ r \in Threads
    BY DEF IInv, Threads
<1>2. CASE TickerChooses(r)
    <2>1. [At("select") EXCEPT !.chan = stop] \in Thread
        BY <1>1, ThreadTypes
    <2>2. /\ [At("select") EXCEPT !.chan = stop].pc = "select"
          /\ [At("select") EXCEPT !.chan = stop].chan = stop
        BY DEF At
    <2>3. running => stop \notin closed
        BY DEF IInv, NoDoubleClose
    <2> QED BY <1>1, <1>2, <2>1, <2>2, <2>3, ThreadStep
            DEF TickerChooses, engine, TypeOK, Lifecycle
<1>3. CASE TickerReturns(r)
    <2>1. At("returned") \in Thread
        BY <1>1, ThreadTypes DEF PC
    <2>2. ~(running /\ r = stop)
        BY <1>3 DEF TickerReturns, IInv, RunningMeansTicking
    <2> QED BY <1>1, <1>3, <2>1, <2>2, ThreadStep
            DEF TickerReturns, Goto, engine, TypeOK, Lifecycle
<1> QED BY <1>2, <1>3

(* A request that leaves Start and Stop's variables alone. *)
LEMMA RequestIInv ==
    ASSUME IInv, NEW c \in Clients,
           \/ ClientSnapshots(c)
           \/ \E s \in Scenarios : ClientSetsScenario(c, s) \/ ClientConfigures(c, s)
    PROVE  IInv'
<1>1. TypeOK /\ c \in Threads /\ c \notin Runs /\ (running => c # stop)
    BY ClientNotRun DEF IInv, NoDoubleClose
<1>2. CASE ClientSnapshots(c)
    <2>1. [At("deliver") EXCEPT !.snap = List] \in Thread
        BY <1>1, ThreadTypes
    <2> QED BY <1>1, <1>2, <2>1, ThreadStep
            DEF ClientSnapshots, engine, TypeOK, Lifecycle
<1>3. ASSUME NEW s \in Scenarios, ClientSetsScenario(c, s)
      PROVE  IInv'
    <2>1. At("tick") \in Thread
        BY <1>1, ThreadTypes DEF PC
    <2> QED BY <1>1, <1>3, <2>1, ThreadStep DEF ClientSetsScenario, Goto, TypeOK, Lifecycle
<1>4. ASSUME NEW s \in Scenarios, ClientConfigures(c, s)
      PROVE  IInv'
    BY <1>4 DEF ClientConfigures, IInv, TypeOK, ClosedWereBegun, NoDoubleClose,
                RunningMeansTicking, Alive
<1> QED BY <1>2, <1>3, <1>4

LEMMA StartIInv ==
    ASSUME IInv, NEW c \in Clients, ClientStarts(c)
    PROVE  IInv'
<1>1. TypeOK /\ c \in Threads /\ c \notin Runs /\ (running => c # stop)
    BY ClientNotRun DEF IInv, NoDoubleClose
<1>2. /\ At("announce") \in Thread
      /\ At("first") \in Thread /\ At("first").pc = "first" /\ At("first").chan = 0
    BY <1>1, ThreadTypes DEF PC
<1>3. CASE running
    <2>1. Goto(c, "announce") /\ UNCHANGED engine /\ UNCHANGED <<alarm, shown>>
        BY <1>3, Zenon DEF ClientStarts, Start
    <2> QED BY <1>1, <1>2, <2>1, ThreadStep DEF Goto, engine, TypeOK, Lifecycle
<1>4. CASE ~running
    <2>1. StartRun(c) /\ UNCHANGED <<alarm, shown>>
        BY <1>4, Zenon DEF ClientStarts, Start
    <2> DEFINE r == started + 1
    <2>2. r \in Runs /\ r \in Threads /\ r # c /\ r \notin closed
        BY <1>1, <2>1, FirewaterAssumption
        DEF StartRun, TypeOK, Runs, Threads, IInv, ClosedWereBegun
    <2>3. /\ thread' = [thread EXCEPT ![c] = At("announce"), ![r] = At("first")]
          /\ stop' = r /\ started' = r
          /\ UNCHANGED <<scenario, closed, alarm, shown>>
        BY <2>1 DEF StartRun
    <2>4. running' = TRUE
        BY <2>1 DEF StartRun
    <2> HIDE DEF r
    <2>5. /\ thread' \in [Threads -> Thread]
          /\ thread'[r] = At("first")
        BY <1>1, <1>2, <2>2, <2>3 DEF TypeOK
    <2>6. TypeOK'
        BY <1>1, <2>2, <2>3, <2>4, <2>5 DEF TypeOK, Runs
    <2>7. ClosedWereBegun'
        BY <1>1, <2>3 DEF IInv, ClosedWereBegun, TypeOK, r
    <2>8. NoDoubleClose'
        BY <2>2, <2>3 DEF NoDoubleClose
    <2>9. RunningMeansTicking'
        <3>1. 0 \notin closed
            BY <1>1, NoChannelNotClosed
        <3> QED BY <1>2, <2>2, <2>3, <2>5, <3>1 DEF RunningMeansTicking, Alive
    <2> QED BY <2>6, <2>7, <2>8, <2>9 DEF IInv
<1> QED BY <1>3, <1>4

LEMMA StopIInv ==
    ASSUME IInv, NEW c \in Clients, ClientStops(c)
    PROVE  IInv'
<1>1. TypeOK /\ c \in Threads /\ c \notin Runs /\ (running => c # stop)
    BY ClientNotRun DEF IInv, NoDoubleClose
<1>2. At("announce") \in Thread
    BY <1>1, ThreadTypes DEF PC
<1>3. CASE running
    <2>1. StopRun(c) /\ UNCHANGED <<alarm, shown>>
        BY <1>3, Zenon DEF ClientStops, Stop
    <2>2. running' = FALSE
        BY <2>1 DEF StopRun
    <2>3. stop \in Runs /\ stop = started
        BY <1>3 DEF IInv, NoDoubleClose
    <2>4. TypeOK'
        BY <1>1, <1>2, <2>1, <2>2, <2>3 DEF StopRun, Goto, TypeOK
    <2>5. ClosedWereBegun'
        BY <1>1, <2>1, <2>3 DEF StopRun, IInv, ClosedWereBegun, Runs
    <2> QED BY <2>2, <2>4, <2>5 DEF IInv, NoDoubleClose, RunningMeansTicking
<1>4. CASE ~running
    <2>1. Goto(c, "announce") /\ UNCHANGED engine /\ UNCHANGED <<alarm, shown>>
        BY <1>4, Zenon DEF ClientStops, Stop
    <2> QED BY <1>1, <1>2, <2>1, ThreadStep DEF Goto, engine, TypeOK, Lifecycle
<1> QED BY <1>3, <1>4

(* The operator and the clock touch the book alone. *)
LEMMA BookIInv ==
    ASSUME IInv,
           \/ \E t \in Types : ClientAcks(t) \/ \E m \in MinuteInputs : ClientShelves(t, m)
           \/ Minute
    PROVE  IInv'
<1>1. UNCHANGED <<engine, thread, shown>>
    BY DEF ClientAcks, ClientShelves, Minute
<1>2. alarm' \in [Types -> {Absent} \cup Alarm]
    <2>1. \A t \in Types : alarm[t].state # "absent" => alarm[t] \in Alarm
        BY DEF IInv, TypeOK, Absent
    <2>2. ASSUME NEW t \in Types, ClientAcks(t)
          PROVE  alarm' \in [Types -> {Absent} \cup Alarm]
        <3>1. AckedEntry(alarm[t]) \in {Absent} \cup Alarm
            BY <2>1, <2>2, AckedType DEF ClientAcks
        <3> QED BY <2>2, <3>1 DEF ClientAcks, IInv, TypeOK
    <2>3. ASSUME NEW t \in Types, NEW m \in MinuteInputs, ClientShelves(t, m)
          PROVE  alarm' \in [Types -> {Absent} \cup Alarm]
        <3>1. ShelvedEntry(alarm[t], ShelfLength(m)) \in Alarm
            BY <2>1, <2>3, ShelvedType DEF ClientShelves
        <3> QED BY <2>3, <3>1 DEF ClientShelves, IInv, TypeOK
    <2>4. CASE Minute
        BY <2>4, ElapsedType DEF Minute, IInv, TypeOK
    <2> QED BY <2>2, <2>3, <2>4
<1> QED BY <1>1, <1>2 DEF engine, IInv, TypeOK, ClosedWereBegun, NoDoubleClose,
                          RunningMeansTicking, Alive

--------------------------------------------------------------------------------

LEMMA NextIInv == IInv /\ [Next]_vars => IInv'
<1> SUFFICES ASSUME IInv, [Next]_vars PROVE IInv'
    OBVIOUS
<1>1. CASE UNCHANGED vars
    BY <1>1 DEF vars, IInv, TypeOK, ClosedWereBegun, NoDoubleClose,
                RunningMeansTicking, Alive
<1>2. CASE Next
    BY <1>2, TickIInv, SelectIInv, RequestIInv, StartIInv, StopIInv, BookIInv
       DEF Next, EngineNext
<1> QED BY <1>1, <1>2

(* The engine's state always satisfies the inductive invariant. *)
THEOREM EngineInvariant == Spec => []IInv
BY InitIInv, NextIInv, PTL DEF Spec

(* Type correctness of the fire-water engine. *)
THEOREM TypeCorrect == Spec => []TypeOK
<1>1. IInv => TypeOK
    BY DEF IInv
<1> QED BY <1>1, EngineInvariant, PTL

(* No order of start and stop requests makes Stop close a channel twice.     *)
THEOREM NeverDoubleClose == Spec => []NoDoubleClose
<1>1. IInv => NoDoubleClose
    BY DEF IInv
<1> QED BY <1>1, EngineInvariant, PTL

(* A running engine always has its own goroutine, waiting on an open channel *)
(* even though goroutines of older runs may wait on the same one.            *)
THEOREM RunningAlwaysTicks == Spec => []RunningMeansTicking
<1>1. IInv => RunningMeansTicking
    BY DEF IInv
<1> QED BY <1>1, EngineInvariant, PTL

--------------------------------------------------------------------------------
(* The book behind the engine *)

(* What the engine's proofs know, and that only types of the book are        *)
(* handled.                                                                  *)
BookedInv == IInv /\ touched \subseteq Types

(* The book's operators are the engine's: both are those of Alarms.          *)
LEMMA BookOperators ==
    /\ Book!Severity = Severity /\ Book!Quiet = Quiet /\ Book!Absent = Absent
    /\ \A evts : Book!Seen(evts) = Seen(evts)
    /\ \A book, evts : Book!Ingested(book, evts) = Ingested(book, evts)
    /\ \A a : Book!AckedEntry(a) = AckedEntry(a) /\ Book!Elapsed(a) = Elapsed(a)
    /\ \A a, d : Book!ShelvedEntry(a, d) = ShelvedEntry(a, d)
    /\ \A m : Book!ShelfLength(m) = ShelfLength(m)
<1>1. /\ Book!Severity = Severity /\ Book!Quiet = Quiet /\ Book!Absent = Absent
      /\ Book!NoDeadline = NoDeadline
  BY DEF Book!Severity, Severity, Book!Quiet, Quiet, Book!Absent, Absent,
         Book!NoDeadline, NoDeadline
<1>2. \A evts : Book!Seen(evts) = Seen(evts)
  BY DEF Book!Seen, Seen
<1>3. \A a, sev : Book!Raised(a, sev) = Raised(a, sev)
  BY <1>1 DEF Book!Raised, Raised, Book!NewAlarm, NewAlarm, Book!InForce, InForce,
              Book!Reannounced, Reannounced, Book!Bump, Bump
<1>4. \A a : Book!Cleared(a) = Cleared(a)
  BY DEF Book!Cleared, Cleared
<1>5. \A book, evts : Book!Ingested(book, evts) = Ingested(book, evts)
  BY <1>2, <1>3, <1>4 DEF Book!Ingested, Ingested
<1>6. \A a : Book!AckedEntry(a) = AckedEntry(a) /\ Book!Elapsed(a) = Elapsed(a)
  BY <1>1 DEF Book!AckedEntry, AckedEntry, Book!Elapsed, Elapsed
<1>7. \A a, d : Book!ShelvedEntry(a, d) = ShelvedEntry(a, d)
  BY DEF Book!ShelvedEntry, ShelvedEntry
<1>8. \A m : Book!ShelfLength(m) = ShelfLength(m)
  BY DEF Book!ShelfLength, ShelfLength, Book!Wrap, Wrap
<1> QED BY <1>1, <1>2, <1>5, <1>6, <1>7, <1>8

(* What a tick that steps scenario s hands to the book, of what it takes. *)
Reported(s) == [t \in Types \cap Seen(Conditions[s]) |-> Conditions[s][t]]

(* What Derive yields in any scenario is an input of AlarmBook; to the book  *)
(* an event it does not take is one that was not there.                      *)
LEMMA ReportedIsSeen ==
    ASSUME NEW s \in Scenarios
    PROVE  /\ Reported(s) \in Book!EventSets
           /\ \A t \in Types : t \in Seen(Reported(s)) <=> t \in Seen(Conditions[s])
           /\ \A t \in Types : t \in Seen(Conditions[s]) => Reported(s)[t] = Conditions[s][t]
<1> DEFINE S == Types \cap Seen(Conditions[s])
<1>1. \A t \in S : Reported(s)[t] = Conditions[s][t] /\ Reported(s)[t] \in Severity
  BY FirewaterAssumption DEF Reported
<1>2. Reported(s) \in [S -> Severity]
  BY <1>1 DEF Reported
<1>3. Reported(s) \in Book!EventSets
  BY <1>2, BookOperators DEF Book!EventSets
<1>4. Seen(Reported(s)) = S
  <2>1. DOMAIN Reported(s) = S
    BY DEF Reported
  <2>2. "info" \notin Severity
    BY DEF Severity
  <2> QED BY <1>1, <2>1, <2>2 DEF Seen
<1> QED BY <1>1, <1>3, <1>4

(* Feeding the book from a tick is one of AlarmBook's ingests. *)
LEMMA FeedingIsIngest ==
    ASSUME BookedInv, NEW i \in Threads, TickFeedsBook(i)
    PROVE  \E evts \in Book!EventSets : Book!Ingest(evts)
<1> DEFINE s == thread[i].scen
<1>1. s \in Scenarios
  BY DEF BookedInv, IInv, TypeOK, Thread
<1>2. /\ Reported(s) \in Book!EventSets
      /\ \A t \in Types : t \in Seen(Reported(s)) <=> t \in Seen(Conditions[s])
      /\ \A t \in Types : t \in Seen(Conditions[s]) => Reported(s)[t] = Conditions[s][t]
  BY <1>1, ReportedIsSeen
<1>3. /\ alarm' = Ingested(alarm, Conditions[s])
      /\ plant' = [t \in Types |-> IF t \in Seen(Conditions[s]) THEN Conditions[s][t] ELSE Quiet]
      /\ touched' = touched \cap Seen(Conditions[s])
  BY DEF TickFeedsBook, TickIngests
<1> HIDE DEF s
<1>4. alarm' = Ingested(alarm, Reported(s))
  BY <1>2, <1>3 DEF Ingested
<1>5. plant' = [t \in Types |-> IF t \in Seen(Reported(s)) THEN Reported(s)[t] ELSE Quiet]
  BY <1>2, <1>3
<1>6. touched' = touched \cap Seen(Reported(s))
  BY <1>2, <1>3 DEF BookedInv
<1>7. Book!Ingest(Reported(s))
  BY <1>4, <1>5, <1>6, BookOperators DEF Book!Ingest
<1> QED BY <1>2, <1>7

(* So are an operator's acknowledgement and shelf. *)
LEMMA OperatorIsBooks ==
    ASSUME BookedInv, NEW t \in Types
    PROVE  /\ OperatorAcks(t) => Book!fwAck(t)
           /\ \A m \in MinuteInputs : OperatorShelves(t, m) => Book!fwShelve(t, m)
<1>1. ASSUME OperatorAcks(t)
      PROVE  Book!fwAck(t)
  <2>1. /\ alarm[t].state # "absent" /\ alarm[t] \in Alarm
        /\ alarm' = [alarm EXCEPT ![t] = AckedEntry(@)]
    BY <1>1 DEF OperatorAcks, ClientAcks, BookedInv, IInv, TypeOK, Absent
  <2>2. alarm'[t] = AckedEntry(alarm[t])
    BY <2>1 DEF BookedInv, IInv, TypeOK
  <2>3. alarm'[t] = Absent <=> alarm[t].state = "returned"
    <3>1. CASE alarm[t].state = "returned"
      BY <2>2, <3>1 DEF AckedEntry
    <3>2. CASE alarm[t].state # "returned"
      <4>1. alarm'[t].state = "acked"
        BY <2>1, <2>2, <3>2 DEF AckedEntry, Alarm
      <4> QED BY <3>2, <4>1 DEF Absent
    <3> QED BY <3>1, <3>2
  <2> QED BY <1>1, <2>1, <2>3, BookOperators DEF OperatorAcks, Book!fwAck
<1>2. ASSUME NEW m \in MinuteInputs, OperatorShelves(t, m)
      PROVE  Book!fwShelve(t, m)
  BY <1>2, BookOperators DEF OperatorShelves, ClientShelves, Book!fwShelve
<1> QED BY <1>1, <1>2

(* Every step of the engine is a step of the book, or leaves it as it is. *)
LEMMA BookedStep ==
    ASSUME BookedInv, [BookedNext]_bookedVars
    PROVE  [Book!Next]_(Book!vars)
<1>1. CASE UNCHANGED bookedVars
  BY <1>1 DEF bookedVars, vars, record, Book!vars
<1>2. CASE EngineNext /\ UNCHANGED record
  <2>1. UNCHANGED alarm
    BY <1>2 DEF EngineNext, TickSteps, TickLists, Delivers, TickerChooses, TickerReturns,
                ClientStarts, ClientStops, ClientSnapshots, ClientSetsScenario,
                ClientConfigures
  <2> QED BY <1>2, <2>1 DEF record, Book!vars
<1>3. CASE \E i \in Threads : TickFeedsBook(i)
  BY <1>3, FeedingIsIngest DEF Book!Next
<1>4. CASE \E t \in Types : OperatorAcks(t) \/ \E m \in MinuteInputs : OperatorShelves(t, m)
  BY <1>4, OperatorIsBooks DEF Book!Next
<1>5. CASE Minute /\ UNCHANGED record
  BY <1>5, BookOperators DEF Minute, record, Book!Minute, Book!Next
<1> QED BY <1>1, <1>2, <1>3, <1>4, <1>5 DEF BookedNext

LEMMA BookedInvKept == BookedInv /\ [BookedNext]_bookedVars => BookedInv'
<1> SUFFICES ASSUME BookedInv, [BookedNext]_bookedVars PROVE BookedInv'
  OBVIOUS
<1>1. [Next]_vars
  BY DEF BookedNext, Next, bookedVars, TickFeedsBook, OperatorAcks, OperatorShelves
<1>2. IInv'
  BY <1>1, NextIInv DEF BookedInv
<1>3. touched' \subseteq Types
  BY DEF BookedInv, BookedNext, bookedVars, record, TickFeedsBook, OperatorAcks,
         OperatorShelves
<1> QED BY <1>2, <1>3 DEF BookedInv

(* However the ticks of any number of runs and requests and the operators    *)
(* overlap, with any scenarios: the engine's book implements AlarmBook.      *)
THEOREM EngineKeepsBook == BookedSpec => KeepsBook
<1>1. BookedInit => BookedInv /\ Book!Init
  BY InitIInv, BookOperators DEF BookedInit, BookedInv, Init, Book!Init
<1>2. BookedInv /\ [BookedNext]_bookedVars => [Book!Next]_(Book!vars)
  BY BookedStep
<1> QED BY <1>1, <1>2, BookedInvKept, PTL DEF BookedSpec, KeepsBook, Book!Spec

--------------------------------------------------------------------------------
(* What the book's theorems say of the engine *)

BookThm == INSTANCE AlarmBookProofs

(* That instance's operators are the engine's too. *)
LEMMA BookThmOperators ==
    /\ BookThm!Severity = Severity /\ BookThm!Quiet = Quiet /\ BookThm!Absent = Absent
    /\ \A evts : BookThm!Seen(evts) = Seen(evts)
    /\ \A book, evts : BookThm!Ingested(book, evts) = Ingested(book, evts)
    /\ \A a : BookThm!AckedEntry(a) = AckedEntry(a) /\ BookThm!Elapsed(a) = Elapsed(a)
    /\ \A a, d : BookThm!ShelvedEntry(a, d) = ShelvedEntry(a, d)
    /\ \A m : BookThm!ShelfLength(m) = ShelfLength(m)
<1>1. /\ BookThm!Severity = Severity /\ BookThm!Quiet = Quiet /\ BookThm!Absent = Absent
      /\ BookThm!NoDeadline = NoDeadline
  BY DEF BookThm!Severity, Severity, BookThm!Quiet, Quiet, BookThm!Absent, Absent,
         BookThm!NoDeadline, NoDeadline
<1>2. \A evts : BookThm!Seen(evts) = Seen(evts)
  BY DEF BookThm!Seen, Seen
<1>3. \A a, sev : BookThm!Raised(a, sev) = Raised(a, sev)
  BY <1>1 DEF BookThm!Raised, Raised, BookThm!NewAlarm, NewAlarm, BookThm!InForce, InForce,
              BookThm!Reannounced, Reannounced, BookThm!Bump, Bump
<1>4. \A a : BookThm!Cleared(a) = Cleared(a)
  BY DEF BookThm!Cleared, Cleared
<1>5. \A book, evts : BookThm!Ingested(book, evts) = Ingested(book, evts)
  BY <1>2, <1>3, <1>4 DEF BookThm!Ingested, Ingested
<1>6. \A a : BookThm!AckedEntry(a) = AckedEntry(a) /\ BookThm!Elapsed(a) = Elapsed(a)
  BY <1>1 DEF BookThm!AckedEntry, AckedEntry, BookThm!Elapsed, Elapsed
<1>7. \A a, d : BookThm!ShelvedEntry(a, d) = ShelvedEntry(a, d)
  BY DEF BookThm!ShelvedEntry, ShelvedEntry
<1>8. \A m : BookThm!ShelfLength(m) = ShelfLength(m)
  BY DEF BookThm!ShelfLength, ShelfLength, BookThm!Wrap, Wrap
<1> QED BY <1>1, <1>2, <1>5, <1>6, <1>7, <1>8

(* The two instances of AlarmBook are one specification. *)
LEMMA SameBook ==
    /\ Book!Init <=> BookThm!Init
    /\ [Book!Next]_(Book!vars) <=> [BookThm!Next]_(BookThm!vars)
<1>1. Book!Init <=> BookThm!Init
  BY BookOperators, BookThmOperators DEF Book!Init, BookThm!Init
<1>2. Book!EventSets = BookThm!EventSets
  BY BookOperators, BookThmOperators DEF Book!EventSets, BookThm!EventSets
<1>3. \A evts : Book!Ingest(evts) <=> BookThm!Ingest(evts)
  BY BookOperators, BookThmOperators DEF Book!Ingest, BookThm!Ingest
<1>4. \A t : Book!fwAck(t) <=> BookThm!fwAck(t)
  BY BookOperators, BookThmOperators DEF Book!fwAck, BookThm!fwAck
<1>5. \A t, m : Book!fwShelve(t, m) <=> BookThm!fwShelve(t, m)
  BY BookOperators, BookThmOperators DEF Book!fwShelve, BookThm!fwShelve
<1>6. Book!Minute <=> BookThm!Minute
  BY BookOperators, BookThmOperators DEF Book!Minute, BookThm!Minute
<1>7. Book!Next <=> BookThm!Next
  BY <1>2, <1>3, <1>4, <1>5, <1>6 DEF Book!Next, BookThm!Next
<1> QED BY <1>1, <1>7 DEF Book!vars, BookThm!vars

(* So what is proved of AlarmBook's specification is proved of the engine.   *)
LEMMA EngineIsABook == BookedSpec => BookThm!Spec
BY SameBook, EngineKeepsBook, PTL DEF KeepsBook, Book!Spec, BookThm!Spec

(* In the running simulator no order of ticks and operators hides a          *)
(* condition that was reported last.                                         *)
THEOREM EngineListsPresent == BookedSpec => []BookThm!PresentIsListed
<1>1. BookThm!Spec => []BookThm!PresentIsListed
  BY AlarmsAssumption, BookThm!PresentAlwaysListed, Zenon
<1> QED BY <1>1, EngineIsABook, Zenon

(* A condition that came back, by whichever tick, and that no operator has   *)
(* handled since, is unacknowledged with the severity reported last, or      *)
(* under a shelf.                                                            *)
THEOREM EngineRaisesAgain == BookedSpec => []BookThm!RecurrenceIsLoud
<1>1. BookThm!Spec => []BookThm!RecurrenceIsLoud
  BY AlarmsAssumption, BookThm!RecurrenceAlwaysLoud, Zenon
<1> QED BY <1>1, EngineIsABook, Zenon

(* No tick of any run, however late, ends a shelf that holds or changes the  *)
(* severity under it.                                                        *)
THEOREM EngineHonoursShelves == BookedSpec => BookThm!ShelfHonoured
<1>1. BookThm!Spec => BookThm!ShelfHonoured
  BY AlarmsAssumption, BookThm!ShelvesAreHonoured, Zenon
<1> QED BY <1>1, EngineIsABook, Zenon

================================================================================
