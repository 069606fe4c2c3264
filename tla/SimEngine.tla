------------------------------- MODULE SimEngine -------------------------------
(***************************************************************************)
(* The fleet and remote-edge simulators (internal/fleet/sim.go,            *)
(* internal/remoteedge/sim.go: the same code but for the data) with the    *)
(* handlers that drive them (internal/httpapi/fleet.go, remoteedge.go):    *)
(* a ticking goroutine per run, an engine mutex, and HTTP requests that    *)
(* start, stop, tick and change the scenario while it ticks.               *)
(*                                                                         *)
(* Start makes a stop channel and the goroutine CAPTURES it; Stop closes   *)
(* the channel the engine holds.  Each critical section of Engine.mu is    *)
(* one step; between them anything may happen.                             *)
(*                                                                         *)
(* Abstractions: step() writes every value from the scenario alone, so the *)
(* values are named by the scenario that wrote them; a snapshot is the     *)
(* scenario and the values it was taken with; a delivery stands for        *)
(* processTick's log, publish and broadcast; ticker intervals are left to  *)
(* the scheduler (a timer may fire at any time).                           *)
(***************************************************************************)
EXTENDS Naturals

CONSTANTS
    Scenarios,   \* scenario names
    Nominal,     \* the scenario an engine is created with
    MaxRuns,     \* bound of the model: calls of Start that begin a run
    Clients      \* HTTP requests that can be in progress at once

ASSUME SimEngineAssumption ==
    /\ Nominal \in Scenarios
    /\ MaxRuns \in Nat

Runs == 1 .. MaxRuns

VARIABLES
    scenario,  \* Engine.scenario
    values,    \* Engine.values, named by the scenario step() wrote them from
    running,   \* Engine.running
    stop,      \* Engine.stop: the channel made by run number stop, 0 for nil
    closed,    \* channels that have been closed
    started,   \* runs begun so far
    ticker,    \* ticker[r]: the goroutine of run r
    client,    \* client[c]: the HTTP request c
    shown      \* the snapshot delivered last to the event stream

vars == <<scenario, values, running, stop, closed, started, ticker, client, shown>>

engine == <<scenario, values, running, stop, closed, started>>

--------------------------------------------------------------------------------
(* Threads and snapshots *)

Snapshot == [scenario : Scenarios, values : Scenarios]

(* snap() under the lock, after step() or without it. *)
Snap == [scenario |-> scenario, values |-> values]
Stepped == [scenario |-> scenario, values |-> scenario]

TickerPC == {"unborn", "first", "select", "deliver", "returned"}
ClientPC == {"idle", "tick", "announce", "deliver"}

Thread(PC) == [pc : PC, snap : Snapshot]

Blank == [scenario |-> Nominal, values |-> Nominal]

At(pc) == [pc |-> pc, snap |-> Blank]
Delivering(snap) == [pc |-> "deliver", snap |-> snap]

(* Goroutines that have been started and have not returned. *)
Alive == {r \in Runs : ticker[r].pc \notin {"unborn", "returned"}}

Init ==
    /\ scenario = Nominal
    /\ values = Nominal
    /\ running = FALSE
    /\ stop = 0
    /\ closed = {}
    /\ started = 0
    /\ ticker = [r \in Runs |-> At("unborn")]
    /\ client = [c \in Clients |-> At("idle")]
    /\ shown = Blank

--------------------------------------------------------------------------------
(* Plausible bugs, one per property a run checks *)

StopUnguarded ==
    /\ running' = FALSE
    /\ closed' = closed \cup {stop}
    /\ UNCHANGED <<scenario, values, stop, started, ticker>>

StopKeepsChannelOpen ==
    /\ running' = FALSE
    /\ UNCHANGED <<scenario, values, stop, closed, started, ticker>>

StopForgetsRunning ==
    /\ closed' = closed \cup {stop}
    /\ UNCHANGED <<scenario, values, running, stop, started, ticker>>

(* The unfixed goroutine: it looks at the engine's channel, not its own. *)
TickerReturnsOnEngineChannel(r) ==
    /\ ticker[r].pc = "select"
    /\ stop \in closed
    /\ ticker' = [ticker EXCEPT ![r] = At("returned")]
    /\ UNCHANGED <<engine, client, shown>>

(* The loop of the goroutine is lost. *)
TickerTicksOnce(r) ==
    /\ ticker[r].pc = "first"
    /\ values' = scenario
    /\ ticker' = [ticker EXCEPT ![r] = Delivering(Stepped)]
    /\ UNCHANGED <<scenario, running, stop, closed, started, client, shown>>

--------------------------------------------------------------------------------
(* Engine.Start and Engine.Stop *)

(* Begins a run unless one is running. *)
StartRun ==
    /\ started < MaxRuns
    /\ running' = TRUE
    /\ stop' = started + 1
    /\ started' = started + 1
    /\ ticker' = [ticker EXCEPT ![started + 1] = At("first")]
    /\ UNCHANGED <<scenario, values, closed>>

Start == IF running THEN UNCHANGED <<engine, ticker>> ELSE StartRun

(* Marks the engine stopped and closes its channel. *)
StopRun ==
    /\ running' = FALSE
    /\ closed' = closed \cup {stop}
    /\ UNCHANGED <<scenario, values, stop, started, ticker>>

Stop == IF running THEN StopRun ELSE UNCHANGED <<engine, ticker>>

--------------------------------------------------------------------------------
(* The goroutine of run r *)

(* The first tick, and every later one: step and snapshot under the lock. *)
TickerTicks(r) ==
    /\ ticker[r].pc \in {"first", "select"}
    /\ values' = scenario
    /\ ticker' = [ticker EXCEPT ![r] = Delivering(Stepped)]
    /\ UNCHANGED <<scenario, running, stop, closed, started, client, shown>>

(* onStep runs outside the lock. *)
TickerDelivers(r) ==
    /\ ticker[r].pc = "deliver"
    /\ shown' = ticker[r].snap
    /\ ticker' = [ticker EXCEPT ![r] = At("select")]
    /\ UNCHANGED <<engine, client>>

(* select takes the captured channel's case. *)
TickerReturns(r) ==
    /\ ticker[r].pc = "select"
    /\ r \in closed
    /\ ticker' = [ticker EXCEPT ![r] = At("returned")]
    /\ UNCHANGED <<engine, client, shown>>

--------------------------------------------------------------------------------
(* HTTP requests *)

(* POST .../start and .../stop call the engine, then take a snapshot and     *)
(* broadcast it.                                                             *)
ClientStarts(c) ==
    /\ client[c].pc = "idle"
    /\ Start
    /\ client' = [client EXCEPT ![c] = At("announce")]
    /\ UNCHANGED shown

ClientStops(c) ==
    /\ client[c].pc = "idle"
    /\ Stop
    /\ client' = [client EXCEPT ![c] = At("announce")]
    /\ UNCHANGED shown

(* POST .../scenario: SetScenario sets the scenario, unlocks, and ticks.     *)
ClientSetsScenario(c, s) ==
    /\ client[c].pc = "idle"
    /\ scenario' = s
    /\ client' = [client EXCEPT ![c] = At("tick")]
    /\ UNCHANGED <<values, running, stop, closed, started, ticker, shown>>

(* Engine.Tick, for POST .../tick or at the end of SetScenario. *)
ClientTicks(c) ==
    /\ client[c].pc \in {"idle", "tick"}
    /\ values' = scenario
    /\ client' = [client EXCEPT ![c] = Delivering(Stepped)]
    /\ UNCHANGED <<scenario, running, stop, closed, started, ticker, shown>>

ClientSnapshots(c) ==
    /\ client[c].pc = "announce"
    /\ client' = [client EXCEPT ![c] = Delivering(Snap)]
    /\ UNCHANGED <<engine, ticker, shown>>

ClientDelivers(c) ==
    /\ client[c].pc = "deliver"
    /\ shown' = client[c].snap
    /\ client' = [client EXCEPT ![c] = At("idle")]
    /\ UNCHANGED <<engine, ticker>>

--------------------------------------------------------------------------------

Next ==
    \/ \E r \in Runs : TickerTicks(r) \/ TickerDelivers(r) \/ TickerReturns(r)
    \/ \E c \in Clients :
          \/ ClientStarts(c)
          \/ ClientStops(c)
          \/ \E s \in Scenarios : ClientSetsScenario(c, s)
          \/ ClientTicks(c)
          \/ ClientSnapshots(c)
          \/ ClientDelivers(c)

Spec == Init /\ [][Next]_vars

(* Goroutines and handlers that can run do; a timer fires again and again;   *)
(* select picks among ready cases at random, so a closed channel that is     *)
(* offered over and over is taken (strong fairness).  A request already      *)
(* accepted is carried through; nobody has to send one.                      *)
Fairness ==
    /\ \A r \in Runs :
          /\ WF_vars(TickerTicks(r))
          /\ WF_vars(TickerDelivers(r))
          /\ SF_vars(TickerReturns(r))
    /\ \A c \in Clients :
          /\ WF_vars(client[c].pc = "tick" /\ ClientTicks(c))
          /\ WF_vars(ClientSnapshots(c))
          /\ WF_vars(ClientDelivers(c))

FairSpec == Spec /\ Fairness

--------------------------------------------------------------------------------
(* Properties *)

(* Every variable ranges over what the code can store in it. *)
TypeOK ==
    /\ scenario \in Scenarios
    /\ values \in Scenarios
    /\ running \in BOOLEAN
    /\ stop \in 0 .. MaxRuns
    /\ closed \subseteq Runs
    /\ started \in 0 .. MaxRuns
    /\ ticker \in [Runs -> Thread(TickerPC)]
    /\ client \in [Clients -> Thread(ClientPC)]
    /\ shown \in Snapshot

(* Stop never closes a channel twice (a panic in Go): while the engine runs, *)
(* its channel is open and belongs to the last run.                          *)
NoDoubleClose == running => stop = started /\ stop \in Runs \ closed

(* However Start and Stop interleave with goroutines that are still inside a *)
(* delivery, at most one goroutine is not told to stop, and there is one     *)
(* exactly when the engine says it is running.                               *)
OneLiveTicker == Alive \ closed = IF running THEN {stop} ELSE {}

(* Starting and stopping keep the promise of TickStream: the run in effect   *)
(* is the one whose channel the engine holds, and a stopped run's goroutine  *)
(* returns even when Start is called again before it reaches its select.     *)
Stream == INSTANCE TickStream
              WITH current <- IF running THEN stop ELSE 0, alive <- Alive

KeepsStreamPromise == Stream!Spec

(* When the scenario stops changing while the engine runs, the event stream  *)
(* ends up showing that scenario and its values, whatever older snapshots    *)
(* were still being delivered: no client is left looking at the old plant.   *)
StreamConverges ==
    \A s \in Scenarios :
        <>[](running /\ scenario = s)
            => <>[](shown = [scenario |-> s, values |-> s])

================================================================================
