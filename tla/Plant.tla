---------------------------------- MODULE Plant --------------------------------
(***************************************************************************)
(* What the simulators' readings are and what is concluded from them: the  *)
(* steps and Derive of firewater/engine.go, fleet/sim.go and               *)
(* remoteedge/sim.go, and the interlocks of firewater/interlock.go.        *)
(*                                                                         *)
(* A step puts every reading back to its healthy value, with noise, and    *)
(* then imposes the scenario's.  Derive compares readings with thresholds; *)
(* the interlocks compare them again, with tables of their own.            *)
(*                                                                         *)
(* Abstractions: numbers are hundredths; noise is a percentage of half the *)
(* width of its band, which is rounded outwards; Noises are those that are *)
(* considered; readings that no threshold modelled here looks at are left  *)
(* out, as are the data in an event.  The floors under the tank level      *)
(* (maxf in step) are never reached, as the tank is filled again at each   *)
(* step, and are left out.                                                 *)
(***************************************************************************)
EXTENDS Integers

CONSTANTS
    Unknown,  \* a scenario none of the simulators has; requests may name any
    Noises    \* for each reading, a percentage of the half of its band

VARIABLES
    sim,       \* the simulator: each runs alone
    scenario,  \* Engine.scenario
    values,    \* Engine.values
    pumpOn,    \* Engine.pumpOn of the fire-water engine
    ticked,    \* the scenario of the last tick, or "none"
    events     \* what Derive made of it

plantVars == <<sim, scenario, values, pumpOn, ticked, events>>

--------------------------------------------------------------------------------
(* Readings: a band is a centre and what noise adds or takes *)

Exactly(n) == <<n, 0>>
Yes == Exactly(100)
No == Exactly(0)

(* The values of healthyFleet, of the fleet's catalog and of nominal().       *)
FirewaterHealthy == [
    tank_level |-> <<8600, 30>>, jockey_bar |-> <<820, 4>>, main_bar |-> <<40, 3>>,
    riser_bar |-> <<760, 4>>, header_lps |-> <<8, 2>>, valve_open |-> Exactly(10000),
    room_c |-> <<2400, 15>>, flood_mm |-> No, diesel_pct |-> <<7800, 5>>,
    pump_amps |-> No, pump_vib |-> <<210, 7>>, tamper |-> No, leak_db |-> <<3800, 78>>,
    cam_ai_fire |-> <<400, 10>>, mqtt_ok |-> Yes, cell_rsrp |-> <<-8500, 168>>,
    mains_ok |-> Yes, ups_soc |-> <<9600, 194>>, gen_run |-> No, lel_pct |-> <<40, 3>>,
    co_ppm |-> <<300, 8>>, plc_ok |-> Yes, facp_ok |-> Yes, diesel_ecu |-> Yes,
    nfc_lock |-> Yes, door_secure |-> Yes, k3s_ok |-> Yes]

FleetHealthy == [
    inverter_ok |-> Yes, rmu_ok |-> Yes, amr_pose |-> Yes, ids_evt |-> <<0, 3>>,
    cems_nox |-> <<4200, 129>>, aqi_pm |-> <<2800, 87>>, crac_c |-> <<2200, 69>>,
    face_gate |-> Yes]

RemoteEdgeHealthy == [
    starlink_snr |-> <<840, 38>>, sdwan_ok |-> Yes, lte_rsrp |-> <<-9200, 364>>,
    cruiser_gpu |-> <<4100, 168>>, cruiser_c |-> <<2700, 112>>, intrude |-> No,
    flood_mm |-> <<0, 4>>, drone_batt |-> <<7800, 316>>, drone_alt |-> No]

Healthy ==
    [firewater |-> FirewaterHealthy, fleet |-> FleetHealthy, remoteedge |-> RemoteEdgeHealthy]

(* The cases of the three step functions. *)
FirewaterImposed == [
    fire |-> [tank_level |-> <<8565, 30>>, jockey_bar |-> <<700, 10>>,
              main_bar |-> <<940, 8>>, riser_bar |-> <<810, 6>>,
              header_lps |-> <<2800, 70>>, room_c |-> <<3100, 20>>,
              pump_amps |-> <<14800, 200>>, pump_vib |-> <<680, 20>>,
              cam_ai_fire |-> <<8200, 200>>],
    lowtank |-> [tank_level |-> <<2200, 40>>],
    lowpress |-> [jockey_bar |-> <<510, 8>>, riser_bar |-> <<360, 6>>,
                  header_lps |-> <<240, 15>>],
    pumpfail |-> [header_lps |-> <<600, 20>>, riser_bar |-> <<320, 10>>,
                  main_bar |-> <<60, 5>>, pump_amps |-> <<800, 100>>,
                  pump_vib |-> <<40, 5>>, diesel_ecu |-> No, plc_ok |-> Yes],
    valve |-> [valve_open |-> No, nfc_lock |-> Yes],
    leak |-> [header_lps |-> <<180, 10>>, jockey_bar |-> <<620, 8>>,
              tank_level |-> <<8592, 30>>, leak_db |-> <<8100, 150>>],
    freeze |-> [room_c |-> <<240, 15>>],
    hydrant |-> [tamper |-> Yes, nfc_lock |-> No, door_secure |-> No],
    comms |-> [mqtt_ok |-> No, cell_rsrp |-> <<-12400, 100>>, k3s_ok |-> No],
    vision |-> [cam_ai_fire |-> <<8800, 150>>],
    power |-> [mains_ok |-> No, ups_soc |-> <<1800, 100>>, gen_run |-> Yes, plc_ok |-> Yes],
    gas |-> [lel_pct |-> <<2400, 100>>, co_ppm |-> <<6200, 200>>],
    plc |-> [plc_ok |-> No, facp_ok |-> No]]

FleetImposed == [
    blackout |-> [inverter_ok |-> No, rmu_ok |-> No],
    intrusion |-> [face_gate |-> No, ids_evt |-> Exactly(1200)],
    spill |-> [cems_nox |-> Exactly(21000), aqi_pm |-> Exactly(16000)],
    amr_lost |-> [amr_pose |-> No],
    ot_storm |-> [ids_evt |-> Exactly(4000)],
    heatwave |-> [crac_c |-> Exactly(3100)]]

RemoteEdgeImposed == [
    sat_down |-> [starlink_snr |-> Exactly(110), sdwan_ok |-> No],
    offline |-> [starlink_snr |-> No, sdwan_ok |-> No, lte_rsrp |-> Exactly(-12800)],
    gpu_hot |-> [cruiser_gpu |-> Exactly(9600), cruiser_c |-> Exactly(4800)],
    drone_patrol |-> [drone_alt |-> Exactly(4200), drone_batt |-> Exactly(1500)],
    intrusion |-> [intrude |-> Yes, drone_alt |-> Exactly(2800)],
    flood |-> [flood_mm |-> Exactly(18000)]]

Imposed ==
    [firewater |-> FirewaterImposed, fleet |-> FleetImposed, remoteedge |-> RemoteEdgeImposed]

Simulators == DOMAIN Healthy
Metrics == DOMAIN Healthy[sim]

(* Scenarios whose readings no threshold looks at, beside the healthy one.   *)
Quiet == [firewater |-> {"normal"}, fleet |-> {"nominal", "flood"},
          remoteedge |-> {"nominal", "p5g_load"}]
Scenarios == DOMAIN Imposed[sim] \cup Quiet[sim] \cup {Unknown}

AllMetrics == UNION {DOMAIN Healthy[any] : any \in Simulators}

ASSUME PlantAssumption ==
    /\ Noises \subseteq [AllMetrics -> -100 .. 100]
    /\ \A any \in Simulators :
          Unknown \notin DOMAIN Imposed[any] \cup Quiet[any] \cup {"none"}

(* jitter: the centre of a band and a share of its half width.               *)
Within(band, noise) == band[1] + (band[2] * noise) \div 100

--------------------------------------------------------------------------------
(* Plausible bugs, one per property a run checks *)

(* healthyFleet without the flags: only what has noise is put back.          *)
RestoredButFlags(m, noise) ==
    IF Healthy[sim][m][2] = 0 THEN values[m] ELSE Within(Healthy[sim][m], noise[m])

ReadyWithoutGas(v) ==
    /\ v.tank_level >= 5000 /\ v.valve_open >= 9000
    /\ v.plc_ok >= 100 /\ v.facp_ok >= 100
    /\ v.mains_ok + v.gen_run >= 100
    /\ v.nfc_lock >= 100

--------------------------------------------------------------------------------
(* Steps *)

(* healthyFleet for one reading; the first half of the other engines' steps. *)
Restored(m, noise) == Within(Healthy[sim][m], noise[m])

Stepped(noise) ==
    [m \in Metrics |->
        IF scenario \in DOMAIN Imposed[sim] /\ m \in DOMAIN Imposed[sim][scenario]
        THEN Within(Imposed[sim][scenario][m], noise[m])
        ELSE Restored(m, noise)]

(* pumpOn follows fire and pumpfail and is reset where step has no case.     *)
PumpAfter ==
    IF sim # "firewater" THEN pumpOn
    ELSE IF scenario = "fire" THEN TRUE
    ELSE IF scenario \in DOMAIN FirewaterImposed \ {"pumpfail"} THEN pumpOn
    ELSE FALSE

--------------------------------------------------------------------------------
(* Derive *)

(* Derive and the matrix add a row where a condition holds.                  *)
ev(type, command) == [type |-> type, command |-> command]

When(holds, x) == IF holds THEN {x} ELSE {}

FirewaterRows(scen, v) == UNION {
    When(v.tank_level <= 3000, ev("firewater.tank.low", "tank.fill")),
    When(v.tank_level > 3000 /\ v.tank_level <= 5000, ev("firewater.tank.low", "tank.inspect")),
    When(v.riser_bar <= 400, ev("firewater.pressure.low", "pump.start")),
    When(v.riser_bar > 400 /\ v.jockey_bar <= 550, ev("firewater.pressure.low", "jockey.inspect")),
    When(scen = "fire", ev("firewater.demand.active", "pump.confirm_run")),
    When(scen = "pumpfail", ev("firewater.pump.fail", "pump.start_backup")),
    When(v.valve_open < 2000, ev("firewater.valve.closed", "valve.open")),
    When(v.header_lps > 120 /\ scen # "fire", ev("firewater.flow.detected", "zone.investigate")),
    When(v.room_c <= 400, ev("firewater.freeze.risk", "room.heat")),
    When(v.tamper >= 100, ev("firewater.hydrant.tamper", "security.dispatch")),
    When(v.flood_mm >= 3000, ev("firewater.pumproom.flood", "sump.start")),
    When(v.diesel_pct <= 2000, ev("firewater.diesel.low", "fuel.refill")),
    When(v.leak_db >= 7500, ev("firewater.leak.acoustic", "zone.investigate")),
    When(v.cam_ai_fire >= 7000, ev("edge.vision.fire", "nvr.clip")),
    When(v.mqtt_ok < 100 \/ v.cell_rsrp <= -12000, ev("edge.comms.down", "radio.failover")),
    When(v.mains_ok < 100 \/ v.ups_soc <= 2000, ev("edge.power.fail", "genset.start")),
    When(v.lel_pct >= 2000 \/ v.co_ppm >= 5000, ev("edge.gas.alarm", "siren.on")),
    When(v.plc_ok < 100 \/ v.facp_ok < 100, ev("edge.control.fault", "plc.reset")),
    When(v.nfc_lock < 100 \/ v.door_secure < 100, ev("edge.access.breach", "security.dispatch")),
    When(v.k3s_ok < 100, ev("edge.runtime.down", "k3s.recover")),
    When(v.pump_vib >= 1100, ev("firewater.pump.vibration", "pump.inspect"))}

FleetRows(v) == UNION {
    When(v.inverter_ok < 100 \/ v.rmu_ok < 100, ev("fleet.power.island", "bess.discharge")),
    When(v.amr_pose < 100, ev("fleet.robot.lost", "amr.relocalize")),
    When(v.ids_evt > 800, ev("fleet.ot.ids", "ot.segment")),
    When(v.cems_nox > 15000 \/ v.aqi_pm > 10000, ev("fleet.env.exceedance", "process.curtail")),
    When(v.crac_c > 2800, ev("fleet.dc.thermal", "workload.shed")),
    When(v.face_gate < 100, ev("fleet.access.fault", "security.lockdown"))}

LinkMode(v) ==
    CASE v.starlink_snr < 200 /\ v.lte_rsrp > -12000 -> "lte"
      [] v.starlink_snr < 200 /\ v.lte_rsrp <= -12000 /\ v.sdwan_ok < 100 -> "offline"
      [] OTHER -> "starlink"

RemoteEdgeRows(v) == UNION {
    When(v.starlink_snr < 300, ev("remote-edge.link.starlink.degraded", "sdwan.failover")),
    When(LinkMode(v) = "offline", ev("remote-edge.link.offline", "store_and_forward")),
    When(v.cruiser_c > 4500 \/ v.cruiser_gpu > 9200,
         ev("remote-edge.galleon.thermal", "workload.shed")),
    When(v.intrude >= 100, ev("remote-edge.vision.intrusion", "uav.launch")),
    When(v.flood_mm > 5000, ev("remote-edge.iot.flood", "site.evacuate_low")),
    When(v.drone_batt < 2000 /\ v.drone_alt > 500, ev("remote-edge.uav.rtb", "uav.rtl"))}

Derive(scen, v) ==
    CASE sim = "firewater" -> FirewaterRows(scen, v)
      [] sim = "fleet" -> FleetRows(v)
      [] sim = "remoteedge" -> RemoteEdgeRows(v)

--------------------------------------------------------------------------------
(* Interlocks of the fire-water plant *)

SystemReady(v) ==
    /\ v.tank_level >= 5000 /\ v.valve_open >= 9000
    /\ v.plc_ok >= 100 /\ v.facp_ok >= 100
    /\ v.mains_ok + v.gen_run >= 100
    /\ v.nfc_lock >= 100
    /\ v.lel_pct < 1000

(* ReadyWhy repeats the conditions, each with its reason. *)
ReadyWhy(v) == UNION {
    When(v.tank_level < 5000, "tank"), When(v.valve_open < 9000, "valve"),
    When(v.plc_ok < 100, "PLC"), When(v.facp_ok < 100, "FACP"),
    When(v.mains_ok + v.gen_run < 100, "no utility"),
    When(v.nfc_lock < 100, "hydrant lock"), When(v.lel_pct >= 1000, "LEL")}

(* The cause-and-effect matrix: the rows in force, of those that there are.  *)
Rule(command, effect) == [command |-> command, effect |-> effect]

Governed == {"pump.start", "pump.start_backup", "valve.open", "room.heat", "genset.start",
             "siren.on"}

Matrix(v) == UNION {
    When(v.tank_level < 2000, Rule("pump.start", "inhibit")),
    When(v.valve_open < 2000, Rule("pump.start", "inhibit")),
    When(v.plc_ok < 100, Rule("pump.start", "inhibit")),
    When(v.lel_pct >= 2000, Rule("pump.start", "inhibit")),
    When(v.riser_bar < 400, Rule("pump.start", "act")),
    When(v.diesel_ecu < 100, Rule("pump.start_backup", "inhibit")),
    When(v.valve_open < 2000, Rule("valve.open", "act")),
    When(v.room_c <= 400, Rule("room.heat", "act")),
    When(v.mains_ok < 100, Rule("genset.start", "act")),
    When(v.cam_ai_fire >= 7000 \/ v.lel_pct >= 2000, Rule("siren.on", "act"))}

(* The two answers of Evaluate: is the command allowed, and is there an act  *)
(* (an inhibited command's act is "inhibit").                                *)
Allowed(command, v) == Rule(command, "inhibit") \notin Matrix(v)
HasAct(command, v) == \E effect \in {"act", "inhibit"} : Rule(command, effect) \in Matrix(v)

(* RunWeeklyTest does not start the pump. *)
WeeklyInhibited(v) == v.tank_level < 2000 \/ v.plc_ok < 100

--------------------------------------------------------------------------------

(* The values of New; header_lps is 0.1 there and not 0.08, which is far from *)
(* every threshold.                                                          *)
PlantInit ==
    /\ sim \in Simulators
    /\ scenario \in Quiet[sim] \cap {"normal", "nominal"}
    /\ values = [m \in Metrics |-> Healthy[sim][m][1]]
    /\ pumpOn = FALSE
    /\ ticked = "none"
    /\ events = {}

SetScenario(s) ==
    /\ scenario' = s
    /\ UNCHANGED <<sim, values, pumpOn, ticked, events>>

Tick(noise) ==
    /\ values' = Stepped(noise)
    /\ pumpOn' = PumpAfter
    /\ ticked' = scenario
    /\ events' = Derive(scenario, values')
    /\ UNCHANGED <<sim, scenario>>

PlantNext ==
    \/ \E s \in Scenarios : SetScenario(s)
    \/ \E noise \in Noises : Tick(noise)

PlantSpec == PlantInit /\ [][PlantNext]_plantVars

--------------------------------------------------------------------------------
(* Properties *)

(* docs/SIMULATORS.md, the event each scenario brings about. *)
Documented == [
    firewater |-> [
        lowtank |-> "firewater.tank.low", lowpress |-> "firewater.pressure.low",
        fire |-> "firewater.demand.active", pumpfail |-> "firewater.pump.fail",
        valve |-> "firewater.valve.closed", leak |-> "firewater.leak.acoustic",
        freeze |-> "firewater.freeze.risk", hydrant |-> "firewater.hydrant.tamper",
        comms |-> "edge.comms.down", vision |-> "edge.vision.fire",
        power |-> "edge.power.fail", gas |-> "edge.gas.alarm", plc |-> "edge.control.fault"],
    fleet |-> [
        blackout |-> "fleet.power.island", amr_lost |-> "fleet.robot.lost",
        ot_storm |-> "fleet.ot.ids", spill |-> "fleet.env.exceedance",
        heatwave |-> "fleet.dc.thermal", intrusion |-> "fleet.access.fault"],
    remoteedge |-> [
        sat_down |-> "remote-edge.link.starlink.degraded",
        offline |-> "remote-edge.link.offline", gpu_hot |-> "remote-edge.galleon.thermal",
        intrusion |-> "remote-edge.vision.intrusion", flood |-> "remote-edge.iot.flood",
        drone_patrol |-> "remote-edge.uav.rtb"]]

Raised == {e.type : e \in events}

(* Whatever scenarios ran before and wherever in its band the noise puts a   *)
(* reading, a tick of a scenario yields the event documented for it, and one *)
(* of a scenario without an event yields none: nothing is left of an earlier *)
(* scenario, and no healthy reading is near enough to a threshold.           *)
ScenarioIsHeard ==
    ticked # "none" =>
        IF ticked \in DOMAIN Documented[sim]
        THEN Documented[sim][ticked] \in Raised
        ELSE Raised = {}

(* Readiness, its reasons, the interlocks, the alarms and the weekly test    *)
(* each have thresholds of their own for the same readings and agree: the    *)
(* plant is called ready exactly when no reason against it is given; then    *)
(* pump and weekly test may start and no alarm of tank, valve, gas or        *)
(* control is in force; and a command an alarm recommends finds a rule that  *)
(* acts or says why not.                                                     *)
InterlocksAgree ==
    sim = "firewater" =>
        /\ SystemReady(values) <=> ReadyWhy(values) = {}
        /\ SystemReady(values) =>
              /\ Allowed("pump.start", values)
              /\ ~WeeklyInhibited(values)
              /\ Raised \cap {"firewater.tank.low", "firewater.valve.closed",
                             "edge.gas.alarm", "edge.control.fault"} = {}
        /\ \A e \in events :
              e.command \in Governed => HasAct(e.command, values)

================================================================================
