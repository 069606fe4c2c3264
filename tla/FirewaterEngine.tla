---------------------------- MODULE FirewaterEngine ----------------------------
(***************************************************************************)
(* The fire-water simulator (internal/firewater/engine.go) with its alarm  *)
(* book and the handlers that drive both (internal/httpapi/firewater.go):  *)
(* a ticking goroutine per run and HTTP requests that start, stop, tick,   *)
(* configure, acknowledge and shelve.                                      *)
(*                                                                         *)
(* Two things differ from the simulators of SimEngine.  The goroutine      *)
(* reads the ENGINE's stop channel each time it reaches its select, so     *)
(* after a stop and a start it may wait on the next run's channel.  And a  *)
(* tick is not one critical section: it steps the plant under Engine.mu,   *)
(* then feeds the book and lists it under Book.mu, then delivers, and      *)
(* another tick or an operator may come in between.                        *)
(*                                                                         *)
(* Abstractions: healthyFleet resets every value before step applies the   *)
(* scenario, and a tick copies the values in the same critical section, so *)
(* what Derive finds is the constant Conditions of the tick's scenario; a  *)
(* snapshot is the listed alarms' states (what SimEngine checks of a       *)
(* snapshot's scenario and values is not repeated; pumpOn, the interval    *)
(* and the publish switches are left out); a delivery stands for           *)
(* onFirewaterTick's broadcast and for the handlers' own.                  *)
(***************************************************************************)
EXTENDS Alarms

CONSTANTS
    Scenarios,   \* scenario names
    Nominal,     \* the scenario an engine is created with ("normal")
    Conditions,  \* Conditions[s]: the severity of each event Derive yields in s
    MaxRuns,     \* bound of the model: calls of Start that begin a run
    Clients      \* HTTP requests that can be in progress at once

Runs == 1 .. MaxRuns

ASSUME FirewaterAssumption ==
    /\ Nominal \in Scenarios
    /\ MaxRuns \in Nat
    /\ Runs \cap Clients = {}
    /\ \A s \in Scenarios : \A t \in Seen(Conditions[s]) : Conditions[s][t] \in Severity

VARIABLES
    scenario,  \* Engine.scenario
    running,   \* Engine.running
    stop,      \* Engine.stop: the channel made by run number stop, 0 for nil
    closed,    \* channels that have been closed
    started,   \* runs begun so far
    alarm,     \* alarm[t]: the entry of Book.active under key t, or Absent
    thread,    \* thread[r], thread[c]: the goroutine of run r, the request c
    shown      \* the alarms of the snapshot broadcast last

vars == <<scenario, running, stop, closed, started, alarm, thread, shown>>

engine == <<scenario, running, stop, closed, started>>

--------------------------------------------------------------------------------
(* Threads and snapshots *)

Threads == Runs \cup Clients

Listing == [Types -> AlarmState \cup {"absent"}]

Blank == [t \in Types |-> "absent"]

PC == {"unborn", "idle", "first", "tick", "ingest", "list", "announce",
       "deliver", "choose", "select", "returned"}

(* chan is the channel a goroutine's select waits on, scen the scenario of a *)
(* tick that has yet to feed the book, snap the snapshot to be delivered.    *)
Thread == [pc : PC, chan : 0 .. MaxRuns, scen : Scenarios, snap : Listing]

At(pc) == [pc |-> pc, chan |-> 0, scen |-> Nominal, snap |-> Blank]

Goto(i, pc) == thread' = [thread EXCEPT ![i] = At(pc)]

(* Goroutines that have been started and have not returned. *)
Alive == {r \in Runs : thread[r].pc \notin {"unborn", "returned"}}

(* Book.List, without the entries' order. *)
List == [t \in Types |-> alarm[t].state]

Init ==
    /\ scenario = Nominal
    /\ running = FALSE
    /\ stop = 0
    /\ closed = {}
    /\ started = 0
    /\ alarm = [t \in Types |-> Absent]
    /\ thread = [i \in Threads |-> IF i \in Runs THEN At("unborn") ELSE At("idle")]
    /\ shown = Blank

--------------------------------------------------------------------------------
(* Plausible bugs, one per property a run checks *)

StopUnguarded(c) ==
    /\ running' = FALSE
    /\ closed' = closed \cup {stop}
    /\ Goto(c, "announce")
    /\ UNCHANGED <<scenario, stop, started>>

StopForgetsRunning(c) ==
    /\ closed' = closed \cup {stop}
    /\ Goto(c, "announce")
    /\ UNCHANGED <<scenario, running, stop, started>>

StopKeepsChannelOpen(c) ==
    /\ running' = FALSE
    /\ Goto(c, "announce")
    /\ UNCHANGED <<scenario, stop, closed, started>>

(* A restart trusts a goroutine that is on its way out to go on ticking. *)
StartReusesTicker(c) ==
    /\ started < MaxRuns
    /\ running' = TRUE
    /\ stop' = started + 1
    /\ started' = started + 1
    /\ thread' = [thread EXCEPT ![c] = At("announce"),
                                ![started + 1] = IF Alive = {} THEN At("first") ELSE @]
    /\ UNCHANGED <<scenario, closed>>

(* The handler hands on the minutes of the request as they came. *)
ClientShelvesAsAsked(t, minutes) ==
    /\ alarm[t].state # "absent"
    /\ alarm' = [alarm EXCEPT ![t] = ShelvedEntry(@, minutes)]
    /\ UNCHANGED <<engine, thread, shown>>

--------------------------------------------------------------------------------
(* Engine.Start and Engine.Stop, called by request c *)

StartRun(c) ==
    /\ started < MaxRuns
    /\ running' = TRUE
    /\ stop' = started + 1
    /\ started' = started + 1
    /\ thread' = [thread EXCEPT ![c] = At("announce"), ![started + 1] = At("first")]
    /\ UNCHANGED <<scenario, closed>>

Start(c) == IF running THEN Goto(c, "announce") /\ UNCHANGED engine ELSE StartRun(c)

StopRun(c) ==
    /\ running' = FALSE
    /\ closed' = closed \cup {stop}
    /\ Goto(c, "announce")
    /\ UNCHANGED <<scenario, stop, started>>

Stop(c) == IF running THEN StopRun(c) ELSE Goto(c, "announce") /\ UNCHANGED engine

--------------------------------------------------------------------------------
(* Engine.Tick, run by thread i: a goroutine at its start or when its timer  *)
(* fires, a POST .../tick, or a POST .../scenario after SetScenario          *)

(* step() and the copies, under Engine.mu. *)
TickSteps(i) ==
    /\ thread[i].pc \in {"first", "select", "idle", "tick"}
    /\ thread' = [thread EXCEPT ![i] = [At("ingest") EXCEPT !.scen = scenario]]
    /\ UNCHANGED <<scenario, running, stop, closed, started, alarm, shown>>

(* Derive on the copies, then Book.Ingest. *)
TickIngests(i) ==
    /\ thread[i].pc = "ingest"
    /\ alarm' = Ingested(alarm, Conditions[thread[i].scen])
    /\ Goto(i, "list")
    /\ UNCHANGED <<engine, shown>>

TickLists(i) ==
    /\ thread[i].pc = "list"
    /\ thread' = [thread EXCEPT ![i] = [At("deliver") EXCEPT !.snap = List]]
    /\ UNCHANGED <<engine, alarm, shown>>

(* onTick; then a goroutine goes to its select, a request answers. *)
Delivers(i) ==
    /\ thread[i].pc = "deliver"
    /\ shown' = thread[i].snap
    /\ Goto(i, IF i \in Runs THEN "choose" ELSE "idle")
    /\ UNCHANGED <<engine, alarm>>

--------------------------------------------------------------------------------
(* The goroutine of run r *)

(* select evaluates e.stop, without the lock. *)
TickerChooses(r) ==
    /\ thread[r].pc = "choose"
    /\ thread' = [thread EXCEPT ![r] = [At("select") EXCEPT !.chan = stop]]
    /\ UNCHANGED <<engine, alarm, shown>>

(* select takes the stop case.  (The timer's case is TickSteps.) *)
TickerReturns(r) ==
    /\ thread[r].pc = "select"
    /\ thread[r].chan \in closed
    /\ Goto(r, "returned")
    /\ UNCHANGED <<engine, alarm, shown>>

--------------------------------------------------------------------------------
(* HTTP requests *)

(* fwStart and fwStop: the engine's call, then Snapshot, then a broadcast. *)
ClientStarts(c) ==
    /\ thread[c].pc = "idle"
    /\ Start(c)
    /\ UNCHANGED <<alarm, shown>>

ClientStops(c) ==
    /\ thread[c].pc = "idle"
    /\ Stop(c)
    /\ UNCHANGED <<alarm, shown>>

(* Engine.Snapshot takes Book.mu while it holds Engine.mu. *)
ClientSnapshots(c) ==
    /\ thread[c].pc = "announce"
    /\ thread' = [thread EXCEPT ![c] = [At("deliver") EXCEPT !.snap = List]]
    /\ UNCHANGED <<engine, alarm, shown>>

(* fwScenario: SetScenario, and a Tick of its own in a later step.           *)
ClientSetsScenario(c, s) ==
    /\ thread[c].pc = "idle"
    /\ scenario' = s
    /\ Goto(c, "tick")
    /\ UNCHANGED <<running, stop, closed, started, alarm, shown>>

(* fwConfig: Apply sets the scenario and nothing ticks or is broadcast. *)
ClientConfigures(c, s) ==
    /\ thread[c].pc = "idle"
    /\ scenario' = s
    /\ UNCHANGED <<running, stop, closed, started, alarm, thread, shown>>

(* fwAck and fwShelve are one critical section of Book.mu each. *)
ClientAcks(t) ==
    /\ alarm[t].state # "absent"
    /\ alarm' = [alarm EXCEPT ![t] = AckedEntry(@)]
    /\ UNCHANGED <<engine, thread, shown>>

ClientShelves(t, minutes) ==
    /\ alarm[t].state # "absent"
    /\ alarm' = [alarm EXCEPT ![t] = ShelvedEntry(@, ShelfLength(minutes))]
    /\ UNCHANGED <<engine, thread, shown>>

Minute ==
    /\ alarm' = [t \in Types |-> Elapsed(alarm[t])]
    /\ UNCHANGED <<engine, thread, shown>>

--------------------------------------------------------------------------------

(* The steps that leave the book alone. *)
EngineNext ==
    \/ \E i \in Threads : TickSteps(i) \/ TickLists(i) \/ Delivers(i)
    \/ \E r \in Runs : TickerChooses(r) \/ TickerReturns(r)
    \/ \E c \in Clients :
          \/ ClientStarts(c)
          \/ ClientStops(c)
          \/ ClientSnapshots(c)
          \/ \E s \in Scenarios : ClientSetsScenario(c, s) \/ ClientConfigures(c, s)

Next ==
    \/ EngineNext
    \/ \E i \in Threads : TickIngests(i)
    \/ \E t \in Types : ClientAcks(t) \/ \E m \in MinuteInputs : ClientShelves(t, m)
    \/ Minute

Spec == Init /\ [][Next]_vars

(* As in SimEngine: what can run does, a timer keeps firing, select does not *)
(* pass over a closed channel for ever, a request in progress is carried     *)
(* through.  Nobody has to send a request, acknowledge or shelve.            *)
Fairness ==
    /\ \A r \in Runs : WF_vars(TickSteps(r)) /\ WF_vars(TickerChooses(r))
                       /\ SF_vars(TickerReturns(r))
    /\ \A i \in Threads : WF_vars(TickIngests(i)) /\ WF_vars(TickLists(i))
                          /\ WF_vars(Delivers(i))
    /\ \A c \in Clients : WF_vars(ClientSnapshots(c))
                          /\ WF_vars(thread[c].pc = "tick" /\ TickSteps(c))

FairSpec == Spec /\ Fairness

--------------------------------------------------------------------------------
(* Properties *)

(* Every variable ranges over what the code can store in it. *)
TypeOK ==
    /\ scenario \in Scenarios
    /\ running \in BOOLEAN
    /\ stop \in 0 .. MaxRuns
    /\ closed \subseteq Runs
    /\ started \in 0 .. MaxRuns
    /\ alarm \in [Types -> {Absent} \cup Alarm]
    /\ thread \in [Threads -> Thread]
    /\ shown \in Listing

(* Stop never closes a channel twice: while the engine runs, its channel is  *)
(* open and belongs to the last run, also when older goroutines wait on it.  *)
NoDoubleClose == running => stop = started /\ stop \in Runs \ closed

(* While the engine says it is running, the goroutine of the current run is  *)
(* there, and it waits on no channel that is closed: no goroutine of an      *)
(* older run and no stop request can take the ticking away.                  *)
RunningMeansTicking ==
    running => stop \in Alive /\ thread[stop].chan \notin closed

(* A goroutine that adopted a newer channel is still ended by the next stop: *)
(* once the engine stays stopped, every goroutine of every run returns.      *)
StopEndsAll == <>[](~running) => <>[](Alive = {})

(* A listing agrees with scenario s: what is unacknowledged is a condition   *)
(* of s, and every condition of s is listed and not as returned.             *)
Agrees(listing, s) ==
    \A t \in Types :
        /\ listing[t] = "unack" => t \in Seen(Conditions[s])
        /\ t \in Seen(Conditions[s]) => listing[t] \in {"unack", "acked", "shelved"}

(* Ticks of different threads may feed the book out of order and operators   *)
(* act in between; still, when the scenario stops changing while the engine  *)
(* runs, the book and the broadcast alarms end up agreeing with it.          *)
PlantConverges ==
    \A s \in Scenarios :
        <>[](running /\ scenario = s) =>
            <>[](Agrees(List, s) /\ Agrees(shown, s))

(* What internal/fleet/restart_test.go and internal/remoteedge/              *)
(* restart_test.go ask of the same Start and Stop protocol: a goroutine from *)
(* a stopped run must exit even if Start is called again.                    *)
StoppedRunLeaves == \A r \in Runs : (r \in closed) ~> (r \notin Alive)

================================================================================
