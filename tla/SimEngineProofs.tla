---------------------------- MODULE SimEngineProofs ----------------------------
(***************************************************************************)
(* The fleet and remote-edge engines never close a channel twice, have one *)
(* live goroutine exactly while they run, and take only steps TickStream   *)
(* allows, for any number of runs, clients and scenarios.                  *)
(*                                                                         *)
(* NoDoubleClose and OneLiveTicker are not inductive by themselves: a run  *)
(* not begun yet must be unborn, a run begun before must be closed unless  *)
(* it is the one in effect, and no begun run may be unborn.  RunsInOrder   *)
(* says so.                                                                *)
(***************************************************************************)
EXTENDS SimEngine, TLAPS

(* Runs are begun in order, a begun run's goroutine exists, and every begun  *)
(* run but the one in effect has had its channel closed.                     *)
RunsInOrder ==
    /\ stop = started
    /\ closed \subseteq 1 .. started
    /\ running => started > 0 /\ started \notin closed
    /\ \A r \in Runs :
          /\ r > started => ticker[r].pc = "unborn"
          /\ r <= started => ticker[r].pc # "unborn"
          /\ r <= started /\ r \notin closed => running /\ r = stop
          /\ ticker[r].pc = "returned" => r \in closed

IInv == TypeOK /\ RunsInOrder

--------------------------------------------------------------------------------

LEMMA InitIInv == Init => IInv
<1> SUFFICES ASSUME Init PROVE IInv
    OBVIOUS
<1>1. /\ Blank \in Snapshot
      /\ At("unborn") \in Thread(TickerPC)
      /\ At("idle") \in Thread(ClientPC)
      /\ At("unborn").pc = "unborn"
    BY SimEngineAssumption DEF At, Blank, Snapshot, Thread, TickerPC, ClientPC
<1>2. TypeOK
    <2>1. 0 \in 0 .. MaxRuns /\ Nominal \in Scenarios
        BY SimEngineAssumption
    <2>2. /\ ticker \in [Runs -> Thread(TickerPC)]
          /\ client \in [Clients -> Thread(ClientPC)]
        BY <1>1 DEF Init
    <2> QED BY <1>1, <2>1, <2>2 DEF Init, TypeOK
<1>3. RunsInOrder
    <2>1. \A r \in Runs : ticker[r].pc = "unborn"
        BY <1>1 DEF Init
    <2>2. stop = 0 /\ started = 0 /\ closed = {} /\ running = FALSE
        BY DEF Init
    <2>3. \A r \in Runs : r > 0 /\ ~(r <= 0)
        BY SimEngineAssumption DEF Runs
    <2> QED BY <2>1, <2>2, <2>3 DEF RunsInOrder
<1> QED BY <1>2, <1>3 DEF IInv

(* The snapshots a thread can take are snapshots. *)
LEMMA ThreadTypes ==
    ASSUME TypeOK
    PROVE  /\ Snap \in Snapshot /\ Stepped \in Snapshot /\ Blank \in Snapshot
           /\ \A pc \in TickerPC : At(pc) \in Thread(TickerPC) /\ At(pc).pc = pc
           /\ \A pc \in ClientPC : At(pc) \in Thread(ClientPC) /\ At(pc).pc = pc
           /\ \A s \in Snapshot :
                 /\ Delivering(s) \in Thread(TickerPC)
                 /\ Delivering(s) \in Thread(ClientPC)
                 /\ Delivering(s).pc = "deliver"
BY SimEngineAssumption
   DEF TypeOK, Snap, Stepped, Blank, Snapshot, At, Delivering, Thread, TickerPC, ClientPC

(* A goroutine's tick or delivery leaves the lifecycle as it was. *)
LEMMA TickerIInv ==
    ASSUME IInv, NEW r \in Runs,
           TickerTicks(r) \/ TickerDelivers(r) \/ TickerReturns(r)
    PROVE  IInv'
<1>1. ASSUME NEW t \in Thread(TickerPC), t.pc # "unborn",
             t.pc = "returned" => r \in closed,
             ticker[r].pc # "unborn",
             ticker' = [ticker EXCEPT ![r] = t],
             values' \in Scenarios, shown' \in Snapshot,
             UNCHANGED <<scenario, running, stop, closed, started, client>>
      PROVE  IInv'
    <2>1. TypeOK'
        BY <1>1 DEF IInv, TypeOK
    <2>2. RunsInOrder'
        BY <1>1 DEF IInv, TypeOK, RunsInOrder
    <2> QED BY <2>1, <2>2 DEF IInv
<1>2. CASE TickerTicks(r)
    <2>1. Delivering(Stepped) \in Thread(TickerPC) /\ Delivering(Stepped).pc = "deliver"
        BY ThreadTypes DEF IInv
    <2> QED BY <1>1, <1>2, <2>1 DEF TickerTicks, IInv, TypeOK
<1>3. CASE TickerDelivers(r)
    <2>1. At("select") \in Thread(TickerPC) /\ At("select").pc = "select"
        BY ThreadTypes DEF IInv, TickerPC
    <2>2. ticker[r].snap \in Snapshot
        BY DEF IInv, TypeOK, Thread
    <2> QED BY <1>1, <1>3, <2>1, <2>2 DEF TickerDelivers, engine, IInv, TypeOK
<1>4. CASE TickerReturns(r)
    <2>1. At("returned") \in Thread(TickerPC) /\ At("returned").pc = "returned"
        BY ThreadTypes DEF IInv, TickerPC
    <2> QED BY <1>1, <1>4, <2>1 DEF TickerReturns, engine, IInv, TypeOK
<1> QED BY <1>2, <1>3, <1>4

LEMMA StartIInv ==
    ASSUME IInv, Start, client' \in [Clients -> Thread(ClientPC)], UNCHANGED shown
    PROVE  IInv'
<1>1. CASE running
    <2>1. UNCHANGED <<scenario, values, running, stop, closed, started, ticker>>
        BY <1>1, Zenon DEF Start, engine
    <2> QED BY <2>1 DEF IInv, TypeOK, RunsInOrder
<1>2. CASE ~running
    <2>1. /\ started < MaxRuns /\ running' = TRUE /\ stop' = started + 1
          /\ started' = started + 1
          /\ ticker' = [ticker EXCEPT ![started + 1] = At("first")]
          /\ UNCHANGED <<scenario, values, closed>>
        BY <1>2 DEF Start, StartRun
    <2>2. At("first") \in Thread(TickerPC) /\ At("first").pc = "first"
        BY ThreadTypes DEF IInv, TickerPC
    <2>3. started \in Nat /\ started + 1 \in Runs
        BY <2>1, SimEngineAssumption DEF IInv, TypeOK, Runs
    <2>4. TypeOK'
        BY <2>1, <2>2, <2>3, SimEngineAssumption DEF IInv, TypeOK, Runs
    <2>5. ASSUME NEW r \in Runs
          PROVE  ticker'[r] = IF r = started + 1 THEN At("first") ELSE ticker[r]
        BY <2>1 DEF IInv, TypeOK
    <2>6. RunsInOrder'
        BY <1>2, <2>1, <2>2, <2>3, <2>5, SimEngineAssumption DEF IInv, TypeOK, RunsInOrder, Runs
    <2> QED BY <2>4, <2>6 DEF IInv
<1> QED BY <1>1, <1>2 DEF IInv, TypeOK

LEMMA StopIInv ==
    ASSUME IInv, Stop, client' \in [Clients -> Thread(ClientPC)], UNCHANGED shown
    PROVE  IInv'
<1>1. CASE ~running
    <2>1. UNCHANGED <<scenario, values, running, stop, closed, started, ticker>>
        BY <1>1, Zenon DEF Stop, engine
    <2> QED BY <2>1 DEF IInv, TypeOK, RunsInOrder
<1>2. CASE running
    <2>1. running' = FALSE /\ closed' = closed \cup {stop}
          /\ UNCHANGED <<scenario, values, stop, started, ticker>>
        BY <1>2 DEF Stop, StopRun
    <2>2. stop \in Runs /\ stop \in 1 .. started
        BY <1>2, SimEngineAssumption DEF IInv, TypeOK, RunsInOrder, Runs
    <2>3. TypeOK'
        BY <2>1, <2>2 DEF IInv, TypeOK
    <2>4. RunsInOrder'
        BY <1>2, <2>1, <2>2 DEF IInv, RunsInOrder
    <2> QED BY <2>3, <2>4 DEF IInv
<1> QED BY <1>1, <1>2 DEF IInv, TypeOK

LEMMA ClientIInv ==
    ASSUME IInv, NEW c \in Clients,
           \/ ClientStarts(c)
           \/ ClientStops(c)
           \/ \E s \in Scenarios : ClientSetsScenario(c, s)
           \/ ClientTicks(c)
           \/ ClientSnapshots(c)
           \/ ClientDelivers(c)
    PROVE  IInv'
<1>1. \A t \in Thread(ClientPC) :
         [client EXCEPT ![c] = t] \in [Clients -> Thread(ClientPC)]
    BY DEF IInv, TypeOK
<1>2. /\ At("announce") \in Thread(ClientPC) /\ At("tick") \in Thread(ClientPC)
      /\ At("idle") \in Thread(ClientPC)
      /\ Delivering(Snap) \in Thread(ClientPC) /\ Delivering(Stepped) \in Thread(ClientPC)
    BY ThreadTypes DEF IInv, ClientPC
<1>3. client[c].snap \in Snapshot
    BY DEF IInv, TypeOK, Thread
<1>4. CASE ClientStarts(c)
    BY <1>1, <1>2, <1>4, StartIInv DEF ClientStarts
<1>5. CASE ClientStops(c)
    BY <1>1, <1>2, <1>5, StopIInv DEF ClientStops
<1>6. ASSUME NEW s \in Scenarios, ClientSetsScenario(c, s)
      PROVE  IInv'
    BY <1>1, <1>2, <1>6 DEF ClientSetsScenario, IInv, TypeOK, RunsInOrder
<1>7. CASE ClientTicks(c)
    BY <1>1, <1>2, <1>7 DEF ClientTicks, IInv, TypeOK, RunsInOrder
<1>8. CASE ClientSnapshots(c)
    BY <1>1, <1>2, <1>8 DEF ClientSnapshots, engine, IInv, TypeOK, RunsInOrder
<1>9. CASE ClientDelivers(c)
    BY <1>1, <1>2, <1>3, <1>9 DEF ClientDelivers, engine, IInv, TypeOK, RunsInOrder
<1> QED BY <1>4, <1>5, <1>6, <1>7, <1>8, <1>9

(* The engine's lifecycle invariant. *)
THEOREM EngineInvariant == Spec => []IInv
<1>1. Init => IInv
    BY InitIInv
<1>2. IInv /\ [Next]_vars => IInv'
    <2> SUFFICES ASSUME IInv, [Next]_vars PROVE IInv'
        OBVIOUS
    <2>1. CASE \E r \in Runs : TickerTicks(r) \/ TickerDelivers(r) \/ TickerReturns(r)
        BY <2>1, TickerIInv
    <2>2. CASE \E c \in Clients :
                  \/ ClientStarts(c)
                  \/ ClientStops(c)
                  \/ \E s \in Scenarios : ClientSetsScenario(c, s)
                  \/ ClientTicks(c)
                  \/ ClientSnapshots(c)
                  \/ ClientDelivers(c)
        BY <2>2, ClientIInv
    <2>3. CASE UNCHANGED vars
        BY <2>3 DEF vars, IInv, TypeOK, RunsInOrder
    <2> QED BY <2>1, <2>2, <2>3 DEF Next
<1> QED BY <1>1, <1>2, PTL DEF Spec

(* Type correctness of the engine. *)
THEOREM TypeCorrect == Spec => []TypeOK
<1>1. IInv => TypeOK
    BY DEF IInv
<1> QED BY <1>1, EngineInvariant, PTL

LEMMA IInvNoDoubleClose == IInv => NoDoubleClose
BY SimEngineAssumption DEF IInv, TypeOK, RunsInOrder, NoDoubleClose, Runs

LEMMA IInvOneLive == IInv => OneLiveTicker
<1> SUFFICES ASSUME IInv PROVE OneLiveTicker
    OBVIOUS
<1>1. ASSUME NEW r \in Runs
      PROVE  r \in Alive \ closed <=> running /\ r = stop
    BY SimEngineAssumption DEF IInv, TypeOK, RunsInOrder, Alive, Runs
<1>2. Alive \ closed \subseteq Runs
    BY DEF Alive
<1>3. running => stop \in Runs
    BY IInvNoDoubleClose DEF NoDoubleClose
<1> QED BY <1>1, <1>2, <1>3 DEF OneLiveTicker

(* Stop never closes a channel that is closed already: no panic, whatever    *)
(* requests race with it.                                                    *)
THEOREM NeverDoubleClose == Spec => []NoDoubleClose
BY IInvNoDoubleClose, EngineInvariant, PTL

(* There is exactly one goroutine not told to stop while the engine runs,    *)
(* and none when it does not.                                                *)
THEOREM AlwaysOneLiveTicker == Spec => []OneLiveTicker
BY IInvOneLive, EngineInvariant, PTL

--------------------------------------------------------------------------------
(* Refinement: every step of the engine is a step of TickStream or a stutter *)
(* of it.  (That a stopped run leaves is liveness, which the run checks.)     *)

LEMMA StreamStep == IInv /\ [Next]_vars => [Stream!Next]_(Stream!vars)
<1> DEFINE cur == IF running THEN stop ELSE 0
<1> SUFFICES ASSUME IInv, [Next]_vars
             PROVE  Stream!Next \/ (cur' = cur /\ Alive' = Alive)
    BY DEF Stream!vars
<1> USE DEF IInv, TypeOK
<1>1. ASSUME UNCHANGED <<running, stop, ticker>>
      PROVE  cur' = cur /\ Alive' = Alive
    BY <1>1 DEF Alive
<1>2. ASSUME NEW r \in Runs, TickerTicks(r) \/ TickerDelivers(r)
      PROVE  cur' = cur /\ Alive' = Alive
    <2>1. /\ UNCHANGED <<running, stop>>
          /\ ticker[r].pc \in {"first", "select", "deliver"}
          /\ ticker'[r].pc \in {"select", "deliver"}
          /\ \A q \in Runs \ {r} : ticker'[q] = ticker[q]
        BY <1>2 DEF TickerTicks, TickerDelivers, engine, At, Delivering
    <2> QED BY <2>1 DEF Alive
<1>3. ASSUME NEW r \in Runs, TickerReturns(r)
      PROVE  Stream!Next
    <2>1. r \in Alive /\ r # cur
        BY <1>3, SimEngineAssumption DEF TickerReturns, Alive, RunsInOrder, Runs
    <2>2. cur' = cur /\ Alive' = Alive \ {r}
        BY <1>3 DEF TickerReturns, engine, Alive, At
    <2> QED BY <2>1, <2>2 DEF Stream!Next, Stream!Leave
<1>4. ASSUME Start
      PROVE  Stream!Next \/ (cur' = cur /\ Alive' = Alive)
    <2>1. CASE running
        BY <1>1, <1>4, <2>1 DEF Start, engine
    <2>2. CASE ~running
        <3> DEFINE r == started + 1
        <3>1. r \in Runs /\ r > started
            BY <1>4, <2>2, SimEngineAssumption DEF Start, StartRun, Runs
        <3>2. cur = 0 /\ cur' = r /\ r \notin Alive
            BY <1>4, <2>2, <3>1 DEF Start, StartRun, RunsInOrder, Alive
        <3>3. Alive' = Alive \cup {r}
            BY <1>4, <2>2, <3>1 DEF Start, StartRun, Alive, At
        <3> QED BY <3>1, <3>2, <3>3 DEF Stream!Next, Stream!Start
    <2> QED BY <2>1, <2>2
<1>5. ASSUME Stop
      PROVE  Stream!Next \/ (cur' = cur /\ Alive' = Alive)
    <2>1. CASE ~running
        BY <1>1, <1>5, <2>1 DEF Stop, engine
    <2>2. CASE running
        <3>1. cur # 0 /\ cur' = 0 /\ Alive' = Alive
            BY <1>5, <2>2, SimEngineAssumption DEF Stop, StopRun, RunsInOrder, Alive
        <3> QED BY <3>1 DEF Stream!Next, Stream!Stop
    <2> QED BY <2>1, <2>2
<1>6. ASSUME NEW c \in Clients,
             \/ ClientStarts(c)
             \/ ClientStops(c)
             \/ \E s \in Scenarios : ClientSetsScenario(c, s)
             \/ ClientTicks(c)
             \/ ClientSnapshots(c)
             \/ ClientDelivers(c)
      PROVE  Stream!Next \/ (cur' = cur /\ Alive' = Alive)
    BY <1>1, <1>4, <1>5, <1>6
       DEF ClientStarts, ClientStops, ClientSetsScenario, ClientTicks, ClientSnapshots,
           ClientDelivers, engine
<1>7. CASE UNCHANGED vars
    BY <1>1, <1>7 DEF vars
<1> QED BY <1>2, <1>3, <1>6, <1>7 DEF Next

(* The engines implement TickStream, but for its liveness.                   *)
THEOREM EngineRefinesStream == Spec => Stream!Init /\ [][Stream!Next]_(Stream!vars)
<1>1. Init => Stream!Init
    BY DEF Init, Stream!Init, Alive, At
<1> QED BY <1>1, StreamStep, EngineInvariant, PTL DEF Spec

================================================================================
