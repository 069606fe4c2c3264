------------------------------ MODULE EventProofs ------------------------------
(***************************************************************************)
(* From a reading to Relay: what of Plant, EventStream and Publisher holds *)
(* for any noise; for any threads, browsers, queue and log sizes and ticks;*)
(* and for any events, gateways, Relays, settings, changes and restarts.   *)
(* The three are independent: each part below uses the definitions of one  *)
(* module only.                                                            *)
(***************************************************************************)
EXTENDS Plant, EventStream, Publisher, SequenceTheorems, FiniteSetTheorems, TLAPS

--------------------------------------------------------------------------------
(* Plant: bands *)

(* The band of a reading under a scenario: the one the scenario imposes, or  *)
(* the healthy one.                                                          *)
Band(any, s, m) ==
    IF s \in DOMAIN Imposed[any] /\ m \in DOMAIN Imposed[any][s]
    THEN Imposed[any][s][m] ELSE Healthy[any][m]

Around(n, band) == n \in Int /\ band[1] - band[2] <= n /\ n <= band[1] + band[2]

InBands(any, s, v) == \A m \in DOMAIN Healthy[any] : Around(v[m], Band(any, s, m))

(* Readings and events are those of the scenario last ticked, wherever in    *)
(* their bands the noise has put them.                                       *)
PlantInv ==
    /\ sim \in Simulators
    /\ scenario \in Scenarios
    /\ ticked \in Scenarios \cup {"none"}
    /\ InBands(sim, ticked, values)
    /\ events = IF ticked = "none" THEN {} ELSE Derive(ticked, values)

(* A share of a half width stays within it. *)
LEMMA WithinIsAround ==
    ASSUME NEW band \in Int \X Nat, NEW noise \in -100 .. 100
    PROVE  Around(Within(band, noise), band)
<1>1. PICK c \in Int, w \in Nat : band = <<c, w>>
  OBVIOUS
<1>2. PICK x \in Int : x = w * noise
  OBVIOUS
<1>3. w * noise <= w * 100 /\ -(w * 100) <= w * noise
  <2>1. w * (100 - noise) >= 0 /\ w * (100 + noise) >= 0
    OBVIOUS
  <2>2. w * (100 - noise) = w * 100 - w * noise /\ w * (100 + noise) = w * 100 + w * noise
    OBVIOUS
  <2> QED BY <2>1, <2>2
<1>4. x \div 100 \in Int /\ -w <= x \div 100 /\ x \div 100 <= w
  BY <1>2, <1>3
<1>5. Within(band, noise) = c + x \div 100
  BY <1>1, <1>2 DEF Within
<1> QED BY <1>1, <1>4, <1>5 DEF Around

(* Every band is a centre and a half width. *)
LEMMA FirewaterBands ==
    \A s \in DOMAIN FirewaterImposed : \A m \in DOMAIN FirewaterHealthy :
        Band("firewater", s, m) \in Int \X Nat
<1>1. \A m \in DOMAIN FirewaterHealthy : FirewaterHealthy[m] \in Int \X Nat
  BY DEF FirewaterHealthy, Exactly, Yes, No
<1>2. \A m \in DOMAIN FirewaterImposed["fire"] : FirewaterImposed["fire"][m] \in Int \X Nat
  BY DEF FirewaterImposed, Exactly, Yes, No
<1>3. \A m \in DOMAIN FirewaterImposed["lowtank"] : FirewaterImposed["lowtank"][m] \in Int \X Nat
  BY DEF FirewaterImposed, Exactly, Yes, No
<1>4. \A m \in DOMAIN FirewaterImposed["lowpress"] : FirewaterImposed["lowpress"][m] \in Int \X Nat
  BY DEF FirewaterImposed, Exactly, Yes, No
<1>5. \A m \in DOMAIN FirewaterImposed["pumpfail"] : FirewaterImposed["pumpfail"][m] \in Int \X Nat
  BY DEF FirewaterImposed, Exactly, Yes, No
<1>6. \A m \in DOMAIN FirewaterImposed["valve"] : FirewaterImposed["valve"][m] \in Int \X Nat
  BY DEF FirewaterImposed, Exactly, Yes, No
<1>7. \A m \in DOMAIN FirewaterImposed["leak"] : FirewaterImposed["leak"][m] \in Int \X Nat
  BY DEF FirewaterImposed, Exactly, Yes, No
<1>8. \A m \in DOMAIN FirewaterImposed["freeze"] : FirewaterImposed["freeze"][m] \in Int \X Nat
  BY DEF FirewaterImposed, Exactly, Yes, No
<1>9. \A m \in DOMAIN FirewaterImposed["hydrant"] : FirewaterImposed["hydrant"][m] \in Int \X Nat
  BY DEF FirewaterImposed, Exactly, Yes, No
<1>10. \A m \in DOMAIN FirewaterImposed["comms"] : FirewaterImposed["comms"][m] \in Int \X Nat
  BY DEF FirewaterImposed, Exactly, Yes, No
<1>11. \A m \in DOMAIN FirewaterImposed["vision"] : FirewaterImposed["vision"][m] \in Int \X Nat
  BY DEF FirewaterImposed, Exactly, Yes, No
<1>12. \A m \in DOMAIN FirewaterImposed["power"] : FirewaterImposed["power"][m] \in Int \X Nat
  BY DEF FirewaterImposed, Exactly, Yes, No
<1>13. \A m \in DOMAIN FirewaterImposed["gas"] : FirewaterImposed["gas"][m] \in Int \X Nat
  BY DEF FirewaterImposed, Exactly, Yes, No
<1>14. \A m \in DOMAIN FirewaterImposed["plc"] : FirewaterImposed["plc"][m] \in Int \X Nat
  BY DEF FirewaterImposed, Exactly, Yes, No
<1>15. DOMAIN FirewaterImposed =
           {"fire", "lowtank", "lowpress", "pumpfail", "valve", "leak", "freeze", "hydrant",
            "comms", "vision", "power", "gas", "plc"}
  BY DEF FirewaterImposed
<1> QED BY <1>1, <1>2, <1>3, <1>4, <1>5, <1>6, <1>7, <1>8, <1>9, <1>10, <1>11, <1>12, <1>13,
        <1>14, <1>15 DEF Band, Imposed, Healthy

(* Every band is a centre and a half width, whoever imposes it. *)
LEMMA BandsAreBands ==
    ASSUME NEW any \in Simulators, NEW s, NEW m \in DOMAIN Healthy[any]
    PROVE  Band(any, s, m) \in Int \X Nat
<1> USE DEF Exactly, Yes, No
<1>1. CASE any = "firewater"
  <2>1. \A r \in DOMAIN FirewaterHealthy : FirewaterHealthy[r] \in Int \X Nat
    BY DEF FirewaterHealthy
  <2> QED BY <1>1, <2>1, FirewaterBands DEF Band, Healthy, Imposed
<1>2. CASE any = "fleet"
  <2>1. \A r \in DOMAIN FleetHealthy : FleetHealthy[r] \in Int \X Nat
    BY DEF FleetHealthy
  <2>2. \A t \in DOMAIN FleetImposed : \A r \in DOMAIN FleetImposed[t] :
            FleetImposed[t][r] \in Int \X Nat
    BY DEF FleetImposed
  <2> QED BY <1>2, <2>1, <2>2 DEF Band, Healthy, Imposed
<1>3. CASE any = "remoteedge"
  <2>1. \A r \in DOMAIN RemoteEdgeHealthy : RemoteEdgeHealthy[r] \in Int \X Nat
    BY DEF RemoteEdgeHealthy
  <2>2. \A t \in DOMAIN RemoteEdgeImposed : \A r \in DOMAIN RemoteEdgeImposed[t] :
            RemoteEdgeImposed[t][r] \in Int \X Nat
    BY DEF RemoteEdgeImposed
  <2> QED BY <1>3, <2>1, <2>2 DEF Band, Healthy, Imposed
<1> QED BY <1>1, <1>2, <1>3 DEF Simulators, Healthy

(* An event among those derived is heard under its type. *)
LEMMA Raises ==
    ASSUME NEW rows, NEW type, NEW command, ev(type, command) \in rows
    PROVE  \E e \in rows : e.type = type
BY DEF ev

--------------------------------------------------------------------------------
(* Plant: the fire-water events *)

(* What a scenario imposes brings its event about, wherever the noise is.    *)
LEMMA FirewaterHeard ==
    ASSUME NEW s \in DOMAIN FirewaterImposed, NEW v, InBands("firewater", s, v)
    PROVE  \E e \in FirewaterRows(s, v) : e.type = Documented["firewater"][s]
<1>0. /\ Documented["firewater"]["lowtank"] = "firewater.tank.low"
      /\ Documented["firewater"]["lowpress"] = "firewater.pressure.low"
      /\ Documented["firewater"]["fire"] = "firewater.demand.active"
      /\ Documented["firewater"]["pumpfail"] = "firewater.pump.fail"
      /\ Documented["firewater"]["valve"] = "firewater.valve.closed"
      /\ Documented["firewater"]["leak"] = "firewater.leak.acoustic"
      /\ Documented["firewater"]["freeze"] = "firewater.freeze.risk"
      /\ Documented["firewater"]["hydrant"] = "firewater.hydrant.tamper"
      /\ Documented["firewater"]["comms"] = "edge.comms.down"
      /\ Documented["firewater"]["vision"] = "edge.vision.fire"
      /\ Documented["firewater"]["power"] = "edge.power.fail"
      /\ Documented["firewater"]["gas"] = "edge.gas.alarm"
      /\ Documented["firewater"]["plc"] = "edge.control.fault"
  BY DEF Documented
<1>1. CASE s = "lowtank"
  <2>1. v.tank_level <= 3000
    BY SMTT(30), <1>1 DEF InBands, Band, Imposed, FirewaterImposed, Healthy, FirewaterHealthy,
                  Around, Exactly, Yes, No
  <2>2. ev("firewater.tank.low", "tank.fill") \in FirewaterRows(s, v)
    BY <1>1, <2>1 DEF FirewaterRows, When
  <2> QED BY <1>0, <1>1, <2>2, Raises
<1>2. CASE s = "lowpress"
  <2>1. v.riser_bar <= 400
    BY SMTT(30), <1>2 DEF InBands, Band, Imposed, FirewaterImposed, Healthy, FirewaterHealthy,
                  Around, Exactly, Yes, No
  <2>2. ev("firewater.pressure.low", "pump.start") \in FirewaterRows(s, v)
    BY <1>2, <2>1 DEF FirewaterRows, When
  <2> QED BY <1>0, <1>2, <2>2, Raises
<1>3. CASE s = "fire"
  <2>1. ev("firewater.demand.active", "pump.confirm_run") \in FirewaterRows(s, v)
    BY <1>3 DEF FirewaterRows, When
  <2> QED BY <1>0, <1>3, <2>1, Raises
<1>4. CASE s = "pumpfail"
  <2>1. ev("firewater.pump.fail", "pump.start_backup") \in FirewaterRows(s, v)
    BY <1>4 DEF FirewaterRows, When
  <2> QED BY <1>0, <1>4, <2>1, Raises
<1>5. CASE s = "valve"
  <2>1. v.valve_open < 2000
    BY SMTT(30), <1>5 DEF InBands, Band, Imposed, FirewaterImposed, Healthy, FirewaterHealthy,
                  Around, Exactly, Yes, No
  <2>2. ev("firewater.valve.closed", "valve.open") \in FirewaterRows(s, v)
    BY <1>5, <2>1 DEF FirewaterRows, When
  <2> QED BY <1>0, <1>5, <2>2, Raises
<1>6. CASE s = "leak"
  <2>1. v.leak_db >= 7500
    BY SMTT(30), <1>6 DEF InBands, Band, Imposed, FirewaterImposed, Healthy, FirewaterHealthy,
                  Around, Exactly, Yes, No
  <2>2. ev("firewater.leak.acoustic", "zone.investigate") \in FirewaterRows(s, v)
    BY <1>6, <2>1 DEF FirewaterRows, When
  <2> QED BY <1>0, <1>6, <2>2, Raises
<1>7. CASE s = "freeze"
  <2>1. v.room_c <= 400
    BY SMTT(30), <1>7 DEF InBands, Band, Imposed, FirewaterImposed, Healthy, FirewaterHealthy,
                  Around, Exactly, Yes, No
  <2>2. ev("firewater.freeze.risk", "room.heat") \in FirewaterRows(s, v)
    BY <1>7, <2>1 DEF FirewaterRows, When
  <2> QED BY <1>0, <1>7, <2>2, Raises
<1>8. CASE s = "hydrant"
  <2>1. v.tamper >= 100
    BY SMTT(30), <1>8 DEF InBands, Band, Imposed, FirewaterImposed, Healthy, FirewaterHealthy,
                  Around, Exactly, Yes, No
  <2>2. ev("firewater.hydrant.tamper", "security.dispatch") \in FirewaterRows(s, v)
    BY <1>8, <2>1 DEF FirewaterRows, When
  <2> QED BY <1>0, <1>8, <2>2, Raises
<1>9. CASE s = "comms"
  <2>1. v.mqtt_ok < 100
    BY SMTT(30), <1>9 DEF InBands, Band, Imposed, FirewaterImposed, Healthy, FirewaterHealthy,
                  Around, Exactly, Yes, No
  <2>2. ev("edge.comms.down", "radio.failover") \in FirewaterRows(s, v)
    BY <1>9, <2>1 DEF FirewaterRows, When
  <2> QED BY <1>0, <1>9, <2>2, Raises
<1>10. CASE s = "vision"
  <2>1. v.cam_ai_fire >= 7000
    BY SMTT(30), <1>10 DEF InBands, Band, Imposed, FirewaterImposed, Healthy, FirewaterHealthy,
                  Around, Exactly, Yes, No
  <2>2. ev("edge.vision.fire", "nvr.clip") \in FirewaterRows(s, v)
    BY <1>10, <2>1 DEF FirewaterRows, When
  <2> QED BY <1>0, <1>10, <2>2, Raises
<1>11. CASE s = "power"
  <2>1. v.mains_ok < 100
    BY SMTT(30), <1>11 DEF InBands, Band, Imposed, FirewaterImposed, Healthy, FirewaterHealthy,
                  Around, Exactly, Yes, No
  <2>2. ev("edge.power.fail", "genset.start") \in FirewaterRows(s, v)
    BY <1>11, <2>1 DEF FirewaterRows, When
  <2> QED BY <1>0, <1>11, <2>2, Raises
<1>12. CASE s = "gas"
  <2>1. v.lel_pct >= 2000
    BY SMTT(30), <1>12 DEF InBands, Band, Imposed, FirewaterImposed, Healthy, FirewaterHealthy,
                  Around, Exactly, Yes, No
  <2>2. ev("edge.gas.alarm", "siren.on") \in FirewaterRows(s, v)
    BY <1>12, <2>1 DEF FirewaterRows, When
  <2> QED BY <1>0, <1>12, <2>2, Raises
<1>13. CASE s = "plc"
  <2>1. v.plc_ok < 100
    BY SMTT(30), <1>13 DEF InBands, Band, Imposed, FirewaterImposed, Healthy, FirewaterHealthy,
                  Around, Exactly, Yes, No
  <2>2. ev("edge.control.fault", "plc.reset") \in FirewaterRows(s, v)
    BY <1>13, <2>1 DEF FirewaterRows, When
  <2> QED BY <1>0, <1>13, <2>2, Raises
<1> QED BY <1>1, <1>2, <1>3, <1>4, <1>5, <1>6, <1>7, <1>8, <1>9, <1>10, <1>11, <1>12, <1>13
        DEF FirewaterImposed

(* A scenario that imposes nothing leaves the healthy plant. *)
LEMMA FirewaterUnimposed ==
    ASSUME NEW s, s \notin DOMAIN FirewaterImposed, NEW v, InBands("firewater", s, v)
    PROVE  \A m \in DOMAIN FirewaterHealthy : Around(v[m], FirewaterHealthy[m])
BY DEF InBands, Band, Healthy, Imposed

(* The healthy plant raises nothing, wherever the noise is. *)
LEMMA FirewaterSilent ==
    ASSUME NEW s, s \notin DOMAIN FirewaterImposed, NEW v, InBands("firewater", s, v)
    PROVE  FirewaterRows(s, v) = {}
<1>1. \A m \in DOMAIN FirewaterHealthy : Around(v[m], FirewaterHealthy[m])
  BY FirewaterUnimposed
<1>2. s # "fire" /\ s # "pumpfail"
  BY DEF FirewaterImposed
<1>3. ~(v.tank_level <= 3000) /\ ~(v.tank_level <= 5000)
  <2>1. Around(v.tank_level, <<8600, 30>>)
    BY <1>1 DEF FirewaterHealthy
  <2> QED BY <2>1 DEF Around
<1>4. /\ ~(v.riser_bar <= 400) /\ ~(v.jockey_bar <= 550) /\ ~(v.header_lps > 120)
      /\ ~(v.room_c <= 400) /\ ~(v.diesel_pct <= 2000)
  <2>1. /\ Around(v.riser_bar, <<760, 4>>) /\ Around(v.jockey_bar, <<820, 4>>)
        /\ Around(v.header_lps, <<8, 2>>) /\ Around(v.room_c, <<2400, 15>>)
        /\ Around(v.diesel_pct, <<7800, 5>>)
    BY SMTT(30), <1>1 DEF FirewaterHealthy
  <2> QED BY <2>1 DEF Around
<1>5. /\ ~(v.leak_db >= 7500) /\ ~(v.cam_ai_fire >= 7000) /\ ~(v.cell_rsrp <= -12000)
      /\ ~(v.ups_soc <= 2000) /\ ~(v.lel_pct >= 2000) /\ ~(v.co_ppm >= 5000)
      /\ ~(v.pump_vib >= 1100)
  <2>1. /\ Around(v.leak_db, <<3800, 78>>) /\ Around(v.cam_ai_fire, <<400, 10>>)
        /\ Around(v.cell_rsrp, <<-8500, 168>>) /\ Around(v.ups_soc, <<9600, 194>>)
        /\ Around(v.lel_pct, <<40, 3>>) /\ Around(v.co_ppm, <<300, 8>>)
        /\ Around(v.pump_vib, <<210, 7>>)
    BY SMTT(30), <1>1 DEF FirewaterHealthy
  <2> QED BY <2>1 DEF Around
<1>6. /\ ~(v.valve_open < 2000) /\ ~(v.tamper >= 100) /\ ~(v.flood_mm >= 3000)
      /\ ~(v.mqtt_ok < 100) /\ ~(v.mains_ok < 100) /\ ~(v.plc_ok < 100) /\ ~(v.facp_ok < 100)
      /\ ~(v.nfc_lock < 100) /\ ~(v.door_secure < 100) /\ ~(v.k3s_ok < 100)
  <2>1. /\ Around(v.valve_open, <<10000, 0>>) /\ Around(v.tamper, <<0, 0>>)
        /\ Around(v.flood_mm, <<0, 0>>) /\ Around(v.mqtt_ok, <<100, 0>>)
        /\ Around(v.mains_ok, <<100, 0>>) /\ Around(v.plc_ok, <<100, 0>>)
        /\ Around(v.facp_ok, <<100, 0>>) /\ Around(v.nfc_lock, <<100, 0>>)
        /\ Around(v.door_secure, <<100, 0>>) /\ Around(v.k3s_ok, <<100, 0>>)
    BY SMTT(30), <1>1 DEF FirewaterHealthy, Exactly, Yes, No
  <2> QED BY <2>1 DEF Around
<1> QED BY <1>2, <1>3, <1>4, <1>5, <1>6 DEF FirewaterRows, When

--------------------------------------------------------------------------------
(* Plant: the events of fleet and remote edge *)

(* The fleet: what a scenario imposes brings its event about ... *)
LEMMA FleetHeard ==
    ASSUME NEW s \in DOMAIN FleetImposed, NEW v, InBands("fleet", s, v)
    PROVE  \E e \in FleetRows(v) : e.type = Documented["fleet"][s]
<1>0. /\ Documented["fleet"]["blackout"] = "fleet.power.island"
      /\ Documented["fleet"]["intrusion"] = "fleet.access.fault"
      /\ Documented["fleet"]["spill"] = "fleet.env.exceedance"
      /\ Documented["fleet"]["amr_lost"] = "fleet.robot.lost"
      /\ Documented["fleet"]["ot_storm"] = "fleet.ot.ids"
      /\ Documented["fleet"]["heatwave"] = "fleet.dc.thermal"
  BY DEF Documented
<1>1. CASE s = "blackout"
  <2>1. v.inverter_ok < 100
    BY <1>1 DEF InBands, Band, Imposed, FleetImposed, Healthy, FleetHealthy,
                  Around, Exactly, Yes, No
  <2>2. ev("fleet.power.island", "bess.discharge") \in FleetRows(v)
    BY <1>1, <2>1 DEF FleetRows, When
  <2> QED BY <1>0, <1>1, <2>2, Raises
<1>2. CASE s = "intrusion"
  <2>1. v.face_gate < 100
    BY <1>2 DEF InBands, Band, Imposed, FleetImposed, Healthy, FleetHealthy,
                  Around, Exactly, Yes, No
  <2>2. ev("fleet.access.fault", "security.lockdown") \in FleetRows(v)
    BY <1>2, <2>1 DEF FleetRows, When
  <2> QED BY <1>0, <1>2, <2>2, Raises
<1>3. CASE s = "spill"
  <2>1. v.cems_nox > 15000
    BY <1>3 DEF InBands, Band, Imposed, FleetImposed, Healthy, FleetHealthy,
                  Around, Exactly, Yes, No
  <2>2. ev("fleet.env.exceedance", "process.curtail") \in FleetRows(v)
    BY <1>3, <2>1 DEF FleetRows, When
  <2> QED BY <1>0, <1>3, <2>2, Raises
<1>4. CASE s = "amr_lost"
  <2>1. v.amr_pose < 100
    BY <1>4 DEF InBands, Band, Imposed, FleetImposed, Healthy, FleetHealthy,
                  Around, Exactly, Yes, No
  <2>2. ev("fleet.robot.lost", "amr.relocalize") \in FleetRows(v)
    BY <1>4, <2>1 DEF FleetRows, When
  <2> QED BY <1>0, <1>4, <2>2, Raises
<1>5. CASE s = "ot_storm"
  <2>1. v.ids_evt > 800
    BY <1>5 DEF InBands, Band, Imposed, FleetImposed, Healthy, FleetHealthy,
                  Around, Exactly, Yes, No
  <2>2. ev("fleet.ot.ids", "ot.segment") \in FleetRows(v)
    BY <1>5, <2>1 DEF FleetRows, When
  <2> QED BY <1>0, <1>5, <2>2, Raises
<1>6. CASE s = "heatwave"
  <2>1. v.crac_c > 2800
    BY <1>6 DEF InBands, Band, Imposed, FleetImposed, Healthy, FleetHealthy,
                  Around, Exactly, Yes, No
  <2>2. ev("fleet.dc.thermal", "workload.shed") \in FleetRows(v)
    BY <1>6, <2>1 DEF FleetRows, When
  <2> QED BY <1>0, <1>6, <2>2, Raises
<1> QED BY <1>1, <1>2, <1>3, <1>4, <1>5, <1>6
        DEF FleetImposed

(* ... and the healthy fleet raises nothing. *)
LEMMA FleetSilent ==
    ASSUME NEW s, s \notin DOMAIN FleetImposed, NEW v, InBands("fleet", s, v)
    PROVE  FleetRows(v) = {}
<1>1. \A m \in DOMAIN FleetHealthy : Around(v[m], FleetHealthy[m])
  BY DEF InBands, Band, Healthy, Imposed
<1>2. /\ ~(v.inverter_ok < 100 \/ v.rmu_ok < 100) /\ ~(v.amr_pose < 100) /\ ~(v.ids_evt > 800)
      /\ ~(v.cems_nox > 15000 \/ v.aqi_pm > 10000) /\ ~(v.crac_c > 2800) /\ ~(v.face_gate < 100)
  BY <1>1 DEF FleetHealthy, Around, Exactly, Yes, No
<1> QED BY <1>2 DEF FleetRows, When

(* The remote edge: what a scenario imposes brings its event about ... *)
LEMMA RemoteEdgeHeard ==
    ASSUME NEW s \in DOMAIN RemoteEdgeImposed, NEW v, InBands("remoteedge", s, v)
    PROVE  \E e \in RemoteEdgeRows(v) : e.type = Documented["remoteedge"][s]
<1>0. /\ Documented["remoteedge"]["sat_down"] = "remote-edge.link.starlink.degraded"
      /\ Documented["remoteedge"]["offline"] = "remote-edge.link.offline"
      /\ Documented["remoteedge"]["gpu_hot"] = "remote-edge.galleon.thermal"
      /\ Documented["remoteedge"]["drone_patrol"] = "remote-edge.uav.rtb"
      /\ Documented["remoteedge"]["intrusion"] = "remote-edge.vision.intrusion"
      /\ Documented["remoteedge"]["flood"] = "remote-edge.iot.flood"
  BY DEF Documented
<1>1. CASE s = "sat_down"
  <2>1. v.starlink_snr < 300
    BY <1>1 DEF InBands, Band, Imposed, RemoteEdgeImposed, Healthy, RemoteEdgeHealthy,
                  Around, Exactly, Yes, No
  <2>2. ev("remote-edge.link.starlink.degraded", "sdwan.failover") \in RemoteEdgeRows(v)
    BY <1>1, <2>1 DEF RemoteEdgeRows, LinkMode, When
  <2> QED BY <1>0, <1>1, <2>2, Raises
<1>2. CASE s = "offline"
  <2>1. v.starlink_snr < 200 /\ v.lte_rsrp <= -12000 /\ v.sdwan_ok < 100 /\ ~(v.lte_rsrp > -12000)
    BY <1>2 DEF InBands, Band, Imposed, RemoteEdgeImposed, Healthy, RemoteEdgeHealthy,
                  Around, Exactly, Yes, No
  <2>2. ev("remote-edge.link.offline", "store_and_forward") \in RemoteEdgeRows(v)
    BY <1>2, <2>1 DEF RemoteEdgeRows, LinkMode, When
  <2> QED BY <1>0, <1>2, <2>2, Raises
<1>3. CASE s = "gpu_hot"
  <2>1. v.cruiser_c > 4500
    BY <1>3 DEF InBands, Band, Imposed, RemoteEdgeImposed, Healthy, RemoteEdgeHealthy,
                  Around, Exactly, Yes, No
  <2>2. ev("remote-edge.galleon.thermal", "workload.shed") \in RemoteEdgeRows(v)
    BY <1>3, <2>1 DEF RemoteEdgeRows, LinkMode, When
  <2> QED BY <1>0, <1>3, <2>2, Raises
<1>4. CASE s = "drone_patrol"
  <2>1. v.drone_batt < 2000 /\ v.drone_alt > 500
    BY <1>4 DEF InBands, Band, Imposed, RemoteEdgeImposed, Healthy, RemoteEdgeHealthy,
                  Around, Exactly, Yes, No
  <2>2. ev("remote-edge.uav.rtb", "uav.rtl") \in RemoteEdgeRows(v)
    BY <1>4, <2>1 DEF RemoteEdgeRows, LinkMode, When
  <2> QED BY <1>0, <1>4, <2>2, Raises
<1>5. CASE s = "intrusion"
  <2>1. v.intrude >= 100
    BY <1>5 DEF InBands, Band, Imposed, RemoteEdgeImposed, Healthy, RemoteEdgeHealthy,
                  Around, Exactly, Yes, No
  <2>2. ev("remote-edge.vision.intrusion", "uav.launch") \in RemoteEdgeRows(v)
    BY <1>5, <2>1 DEF RemoteEdgeRows, LinkMode, When
  <2> QED BY <1>0, <1>5, <2>2, Raises
<1>6. CASE s = "flood"
  <2>1. v.flood_mm > 5000
    BY <1>6 DEF InBands, Band, Imposed, RemoteEdgeImposed, Healthy, RemoteEdgeHealthy,
                  Around, Exactly, Yes, No
  <2>2. ev("remote-edge.iot.flood", "site.evacuate_low") \in RemoteEdgeRows(v)
    BY <1>6, <2>1 DEF RemoteEdgeRows, LinkMode, When
  <2> QED BY <1>0, <1>6, <2>2, Raises
<1> QED BY <1>1, <1>2, <1>3, <1>4, <1>5, <1>6
        DEF RemoteEdgeImposed

(* ... and the healthy edge raises nothing. *)
LEMMA RemoteEdgeSilent ==
    ASSUME NEW s, s \notin DOMAIN RemoteEdgeImposed, NEW v, InBands("remoteedge", s, v)
    PROVE  RemoteEdgeRows(v) = {}
<1>1. \A m \in DOMAIN RemoteEdgeHealthy : Around(v[m], RemoteEdgeHealthy[m])
  BY DEF InBands, Band, Healthy, Imposed
<1>2. /\ ~(v.starlink_snr < 300) /\ ~(v.starlink_snr < 200)
      /\ ~(v.cruiser_c > 4500 \/ v.cruiser_gpu > 9200) /\ ~(v.intrude >= 100)
      /\ ~(v.flood_mm > 5000) /\ ~(v.drone_batt < 2000)
  BY <1>1 DEF RemoteEdgeHealthy, Around, Exactly, Yes, No
<1> QED BY <1>2 DEF RemoteEdgeRows, LinkMode, When

--------------------------------------------------------------------------------
(* Plant: the interlocks *)

(* What each scenario imposes. *)
LEMMA ImposedReadings ==
    /\ DOMAIN FirewaterImposed =
          {"fire", "lowtank", "lowpress", "pumpfail", "valve", "leak", "freeze", "hydrant",
           "comms", "vision", "power", "gas", "plc"}
    /\ DOMAIN FirewaterImposed["fire"] =
          {"tank_level", "jockey_bar", "main_bar", "riser_bar", "header_lps", "room_c",
           "pump_amps", "pump_vib", "cam_ai_fire"}
    /\ DOMAIN FirewaterImposed["lowtank"] =
          {"tank_level"}
    /\ DOMAIN FirewaterImposed["lowpress"] =
          {"jockey_bar", "riser_bar", "header_lps"}
    /\ DOMAIN FirewaterImposed["pumpfail"] =
          {"header_lps", "riser_bar", "main_bar", "pump_amps", "pump_vib", "diesel_ecu", "plc_ok"}
    /\ DOMAIN FirewaterImposed["valve"] =
          {"valve_open", "nfc_lock"}
    /\ DOMAIN FirewaterImposed["leak"] =
          {"header_lps", "jockey_bar", "tank_level", "leak_db"}
    /\ DOMAIN FirewaterImposed["freeze"] =
          {"room_c"}
    /\ DOMAIN FirewaterImposed["hydrant"] =
          {"tamper", "nfc_lock", "door_secure"}
    /\ DOMAIN FirewaterImposed["comms"] =
          {"mqtt_ok", "cell_rsrp", "k3s_ok"}
    /\ DOMAIN FirewaterImposed["vision"] =
          {"cam_ai_fire"}
    /\ DOMAIN FirewaterImposed["power"] =
          {"mains_ok", "ups_soc", "gen_run", "plc_ok"}
    /\ DOMAIN FirewaterImposed["gas"] =
          {"lel_pct", "co_ppm"}
    /\ DOMAIN FirewaterImposed["plc"] =
          {"plc_ok", "facp_ok"}
BY DEF FirewaterImposed

(* The bands of the readings that two tables look at. *)
LEMMA TightBands ==
    ASSUME NEW s
    PROVE  /\ Band("firewater", s, "tank_level")
                 \in {<<8600, 30>>, <<8565, 30>>, <<2200, 40>>, <<8592, 30>>}
           /\ Band("firewater", s, "riser_bar")
                 \in {<<760, 4>>, <<810, 6>>, <<360, 6>>, <<320, 10>>}
           /\ \/ Band("firewater", s, "ups_soc") = <<9600, 194>>
              \/ Band("firewater", s, "mains_ok") = <<0, 0>>
           /\ \/ Band("firewater", s, "co_ppm") = <<300, 8>>
              \/ Band("firewater", s, "lel_pct") = <<2400, 100>>
           /\ s = "pumpfail" => Band("firewater", s, "diesel_ecu") = <<0, 0>>
<1>1. \A m : ~(s \in DOMAIN FirewaterImposed /\ m \in DOMAIN FirewaterImposed[s])
              => Band("firewater", s, m) = FirewaterHealthy[m]
  BY DEF Band, Imposed, Healthy
<1>2. \A m : s \in DOMAIN FirewaterImposed /\ m \in DOMAIN FirewaterImposed[s]
              => Band("firewater", s, m) = FirewaterImposed[s][m]
  BY DEF Band, Imposed
<1>3. /\ FirewaterHealthy["tank_level"] = <<8600, 30>> /\ FirewaterHealthy["riser_bar"] = <<760, 4>>
      /\ FirewaterHealthy["ups_soc"] = <<9600, 194>> /\ FirewaterHealthy["co_ppm"] = <<300, 8>>
  BY DEF FirewaterHealthy
<1>4. Band("firewater", s, "tank_level") \in {<<8600, 30>>, <<8565, 30>>, <<2200, 40>>, <<8592, 30>>}
  <2>1. /\ FirewaterImposed["fire"]["tank_level"] = <<8565, 30>>
        /\ FirewaterImposed["lowtank"]["tank_level"] = <<2200, 40>>
        /\ FirewaterImposed["leak"]["tank_level"] = <<8592, 30>>
    BY DEF FirewaterImposed
  <2>2. s \in DOMAIN FirewaterImposed /\ "tank_level" \in DOMAIN FirewaterImposed[s]
           => s \in {"fire", "lowtank", "leak"}
    BY SMTT(20), ImposedReadings
  <2> QED BY <1>1, <1>2, <1>3, <2>1, <2>2
<1>5. Band("firewater", s, "riser_bar") \in {<<760, 4>>, <<810, 6>>, <<360, 6>>, <<320, 10>>}
  <2>1. /\ FirewaterImposed["fire"]["riser_bar"] = <<810, 6>>
        /\ FirewaterImposed["lowpress"]["riser_bar"] = <<360, 6>>
        /\ FirewaterImposed["pumpfail"]["riser_bar"] = <<320, 10>>
    BY DEF FirewaterImposed
  <2>2. s \in DOMAIN FirewaterImposed /\ "riser_bar" \in DOMAIN FirewaterImposed[s]
           => s \in {"fire", "lowpress", "pumpfail"}
    BY SMTT(20), ImposedReadings
  <2> QED BY <1>1, <1>2, <1>3, <2>1, <2>2
<1>6. \/ Band("firewater", s, "ups_soc") = <<9600, 194>>
      \/ Band("firewater", s, "mains_ok") = <<0, 0>>
  <2>1. FirewaterImposed["power"]["mains_ok"] = <<0, 0>>
    BY DEF FirewaterImposed, No, Exactly
  <2>2. s \in DOMAIN FirewaterImposed /\ "ups_soc" \in DOMAIN FirewaterImposed[s]
           => s \in {"power"}
    BY SMTT(20), ImposedReadings
  <2>3. "mains_ok" \in DOMAIN FirewaterImposed["power"] /\ "power" \in DOMAIN FirewaterImposed
    BY ImposedReadings
  <2> QED BY <1>1, <1>2, <1>3, <2>1, <2>2, <2>3
<1>7. \/ Band("firewater", s, "co_ppm") = <<300, 8>>
      \/ Band("firewater", s, "lel_pct") = <<2400, 100>>
  <2>1. FirewaterImposed["gas"]["lel_pct"] = <<2400, 100>>
    BY DEF FirewaterImposed
  <2>2. s \in DOMAIN FirewaterImposed /\ "co_ppm" \in DOMAIN FirewaterImposed[s]
           => s = "gas"
    BY SMTT(20), ImposedReadings
  <2>3. "lel_pct" \in DOMAIN FirewaterImposed["gas"] /\ "gas" \in DOMAIN FirewaterImposed
    BY ImposedReadings
  <2> QED BY <1>1, <1>2, <1>3, <2>1, <2>2, <2>3
<1>8. s = "pumpfail" => Band("firewater", s, "diesel_ecu") = <<0, 0>>
  <2>1. FirewaterImposed["pumpfail"]["diesel_ecu"] = <<0, 0>>
    BY DEF FirewaterImposed, No, Exactly
  <2> QED BY <1>2, <2>1, ImposedReadings
<1> QED BY <1>4, <1>5, <1>6, <1>7, <1>8

(* No band comes near a value that two tables judge differently.             *)
LEMMA BandsAvoid ==
    ASSUME NEW s, NEW v, InBands("firewater", s, v)
    PROVE  /\ v.tank_level \in Int /\ v.tank_level # 5000
           /\ v.valve_open \in Int
           /\ v.plc_ok \in Int /\ v.facp_ok \in Int
           /\ v.mains_ok \in Int /\ v.gen_run \in Int /\ v.nfc_lock \in Int
           /\ v.lel_pct \in Int
           /\ v.riser_bar <= 400 => v.riser_bar < 400
           /\ v.ups_soc <= 2000 => v.mains_ok < 100
           /\ v.co_ppm >= 5000 => v.lel_pct >= 2000
           /\ s = "pumpfail" => v.diesel_ecu < 100
<1>1. \A m \in DOMAIN FirewaterHealthy : Around(v[m], Band("firewater", s, m))
  BY DEF InBands, Healthy
<1>2. /\ Around(v.tank_level, Band("firewater", s, "tank_level"))
      /\ Around(v.riser_bar, Band("firewater", s, "riser_bar"))
      /\ Around(v.ups_soc, Band("firewater", s, "ups_soc"))
      /\ Around(v.mains_ok, Band("firewater", s, "mains_ok"))
      /\ Around(v.co_ppm, Band("firewater", s, "co_ppm"))
      /\ Around(v.lel_pct, Band("firewater", s, "lel_pct"))
      /\ Around(v.diesel_ecu, Band("firewater", s, "diesel_ecu"))
  BY <1>1 DEF FirewaterHealthy
<1>3. /\ v.valve_open \in Int /\ v.plc_ok \in Int /\ v.facp_ok \in Int
      /\ v.mains_ok \in Int /\ v.gen_run \in Int /\ v.nfc_lock \in Int /\ v.lel_pct \in Int
  BY <1>1 DEF FirewaterHealthy, Around
<1>4. v.tank_level \in Int /\ v.tank_level # 5000
  BY <1>2, TightBands DEF Around
<1>5. v.riser_bar <= 400 => v.riser_bar < 400
  BY <1>2, TightBands DEF Around
<1>6. v.ups_soc <= 2000 => v.mains_ok < 100
  BY <1>2, TightBands DEF Around
<1>7. v.co_ppm >= 5000 => v.lel_pct >= 2000
  BY <1>2, TightBands DEF Around
<1>8. s = "pumpfail" => v.diesel_ecu < 100
  BY <1>2, TightBands DEF Around
<1> QED BY <1>3, <1>4, <1>5, <1>6, <1>7, <1>8

(* Readiness is the absence of a reason against it. *)
LEMMA ReadyIsWhyNot ==
    ASSUME NEW v,
           v.tank_level \in Int, v.valve_open \in Int, v.plc_ok \in Int, v.facp_ok \in Int,
           v.mains_ok \in Int, v.gen_run \in Int, v.nfc_lock \in Int, v.lel_pct \in Int
    PROVE  SystemReady(v) <=> ReadyWhy(v) = {}
<1>1. CASE SystemReady(v)
  <2>1. /\ ~(v.tank_level < 5000) /\ ~(v.valve_open < 9000) /\ ~(v.plc_ok < 100)
        /\ ~(v.facp_ok < 100) /\ ~(v.mains_ok + v.gen_run < 100) /\ ~(v.nfc_lock < 100)
        /\ ~(v.lel_pct >= 1000)
    BY <1>1 DEF SystemReady
  <2>2. ReadyWhy(v) = {}
    BY <2>1 DEF ReadyWhy, When
  <2> QED BY <1>1, <2>2
<1>2. CASE ~SystemReady(v)
  <2>1. \E why \in {"tank", "valve", "PLC", "FACP", "no utility", "hydrant lock", "LEL"} :
           why \in ReadyWhy(v)
    BY <1>2 DEF SystemReady, ReadyWhy, When
  <2> QED BY <1>2, <2>1
<1> QED BY <1>1, <1>2

(* The tables agree on readings in their bands: readiness, its reasons, the *)
(* weekly test, the alarms and the matrix.                                   *)
LEMMA FirewaterAgrees ==
    ASSUME NEW s, NEW v, InBands("firewater", s, v)
    PROVE  /\ SystemReady(v) <=> ReadyWhy(v) = {}
           /\ SystemReady(v) => Allowed("pump.start", v) /\ ~WeeklyInhibited(v)
           /\ \A e \in FirewaterRows(s, v) :
                 /\ SystemReady(v) =>
                       e.type \notin {"firewater.tank.low", "firewater.valve.closed",
                                     "edge.gas.alarm", "edge.control.fault"}
                 /\ e.command \in Governed => HasAct(e.command, v)
<1>1. /\ v.tank_level \in Int /\ v.tank_level # 5000
      /\ v.valve_open \in Int
      /\ v.plc_ok \in Int /\ v.facp_ok \in Int
      /\ v.mains_ok \in Int /\ v.gen_run \in Int /\ v.nfc_lock \in Int
      /\ v.lel_pct \in Int
      /\ v.riser_bar <= 400 => v.riser_bar < 400
      /\ v.ups_soc <= 2000 => v.mains_ok < 100
      /\ v.co_ppm >= 5000 => v.lel_pct >= 2000
      /\ s = "pumpfail" => v.diesel_ecu < 100
  BY BandsAvoid
<1>2. SystemReady(v) <=> ReadyWhy(v) = {}
  BY <1>1, ReadyIsWhyNot
<1>3. ASSUME SystemReady(v) PROVE Allowed("pump.start", v) /\ ~WeeklyInhibited(v)
  <2>1. ~(v.tank_level < 2000) /\ ~(v.valve_open < 2000) /\ ~(v.plc_ok < 100) /\ ~(v.lel_pct >= 2000)
    BY <1>1, <1>3 DEF SystemReady
  <2> QED BY <2>1 DEF Allowed, WeeklyInhibited, Matrix, When, Rule
<1>4. ASSUME SystemReady(v), NEW e \in FirewaterRows(s, v)
      PROVE  e.type \notin {"firewater.tank.low", "firewater.valve.closed",
                             "edge.gas.alarm", "edge.control.fault"}
  <2>1. ~(v.tank_level <= 3000) /\ ~(v.tank_level <= 5000)
    BY <1>1, <1>4 DEF SystemReady
  <2>2. ~(v.valve_open < 2000) /\ ~(v.plc_ok < 100 \/ v.facp_ok < 100)
    BY <1>1, <1>4 DEF SystemReady
  <2>3. ~(v.lel_pct >= 2000)
    BY <1>1, <1>4 DEF SystemReady
  <2>4. ~(v.co_ppm >= 5000)
    BY <1>1, <2>3
  <2> QED BY <2>1, <2>2, <2>3, <2>4 DEF FirewaterRows, When, ev
<1>5. /\ v.riser_bar <= 400 => HasAct("pump.start", v)
      /\ s = "pumpfail" => HasAct("pump.start_backup", v)
      /\ v.valve_open < 2000 => HasAct("valve.open", v)
      /\ v.room_c <= 400 => HasAct("room.heat", v)
      /\ v.mains_ok < 100 \/ v.ups_soc <= 2000 => HasAct("genset.start", v)
      /\ v.lel_pct >= 2000 \/ v.co_ppm >= 5000 => HasAct("siren.on", v)
  BY <1>1 DEF HasAct, Matrix, When
<1>6. ASSUME NEW e \in FirewaterRows(s, v), e.command \in Governed
      PROVE  HasAct(e.command, v)
  BY <1>5, <1>6 DEF FirewaterRows, When, ev, Governed
<1> QED BY <1>2, <1>3, <1>4, <1>6

--------------------------------------------------------------------------------
(* Plant: the invariant *)

(* No scenario is called "none". *)
LEMMA NoneIsNoScenario ==
    ASSUME NEW any \in Simulators
    PROVE  "none" \notin DOMAIN Imposed[any] \cup Quiet[any] \cup {Unknown}
<1>1. "none" \notin DOMAIN FirewaterImposed
  BY DEF FirewaterImposed
<1>2. "none" \notin DOMAIN FleetImposed
  BY DEF FleetImposed
<1>3. "none" \notin DOMAIN RemoteEdgeImposed
  BY DEF RemoteEdgeImposed
<1>4. any \in {"firewater", "fleet", "remoteedge"}
  BY DEF Simulators, Healthy
<1>5. "none" \notin DOMAIN Imposed[any]
  BY <1>1, <1>2, <1>3, <1>4 DEF Imposed
<1>6. "none" \notin Quiet[any]
  BY <1>4 DEF Quiet
<1> QED BY <1>5, <1>6, PlantAssumption

(* The engines start from healthy readings. *)
LEMMA InitPlantInv == PlantInit => PlantInv
<1> SUFFICES ASSUME PlantInit PROVE PlantInv
  OBVIOUS
<1>1. sim \in Simulators /\ ticked = "none" /\ events = {} /\ scenario \in Scenarios
  BY DEF PlantInit, Scenarios
<1>2. "none" \notin DOMAIN Imposed[sim]
  BY <1>1, NoneIsNoScenario
<1>3. ASSUME NEW m \in DOMAIN Healthy[sim] PROVE Around(values[m], Band(sim, ticked, m))
  <2>1. Band(sim, ticked, m) = Healthy[sim][m]
    BY <1>1, <1>2 DEF Band
  <2>2. Healthy[sim][m] \in Int \X Nat
    BY <1>1, <2>1, BandsAreBands
  <2>3. values[m] = Healthy[sim][m][1]
    BY <1>3 DEF PlantInit, Metrics
  <2> QED BY <2>1, <2>2, <2>3 DEF Around
<1> QED BY <1>1, <1>3 DEF PlantInv, InBands

(* A tick puts every reading into the band of its scenario. *)
LEMMA TickKeeps ==
    ASSUME PlantInv, NEW noise \in Noises, Tick(noise)
    PROVE  PlantInv'
<1>1. /\ sim \in Simulators /\ scenario \in Scenarios
      /\ sim' = sim /\ scenario' = scenario /\ ticked' = scenario
      /\ values' = Stepped(noise) /\ events' = Derive(scenario, values')
  BY DEF PlantInv, Tick
<1>2. ASSUME NEW m \in DOMAIN Healthy[sim] PROVE Around(values'[m], Band(sim, scenario, m))
  <2>1. values'[m] = Within(Band(sim, scenario, m), noise[m])
    BY <1>1 DEF Stepped, Restored, Band, Metrics
  <2>2. noise[m] \in -100 .. 100
    <3>1. m \in AllMetrics
      BY <1>1 DEF AllMetrics
    <3> QED BY <3>1, PlantAssumption
  <2> QED BY <1>1, <2>1, <2>2, BandsAreBands, WithinIsAround
<1>3. InBands(sim, ticked, values)'
  BY <1>1, <1>2 DEF InBands
<1>4. scenario # "none"
  BY <1>1, NoneIsNoScenario DEF Scenarios
<1>5. events' = Derive(ticked, values)'
  BY <1>1 DEF Derive
<1> QED BY <1>1, <1>3, <1>4, <1>5 DEF PlantInv, Scenarios

(* A scenario that is set changes no reading before the next tick. *)
LEMMA NextPlantInv == PlantInv /\ [PlantNext]_plantVars => PlantInv'
<1> SUFFICES ASSUME PlantInv, [PlantNext]_plantVars PROVE PlantInv'
  OBVIOUS
<1>1. ASSUME NEW s \in Scenarios, SetScenario(s) PROVE PlantInv'
  BY <1>1 DEF SetScenario, PlantInv, Scenarios, InBands, Derive
<1>2. CASE UNCHANGED plantVars
  BY <1>2 DEF plantVars, PlantInv, Scenarios, InBands, Derive
<1> QED BY <1>1, <1>2, TickKeeps DEF PlantNext

(* The invariant implies the two properties. *)
LEMMA HeardFromInv == PlantInv => ScenarioIsHeard
<1> SUFFICES ASSUME PlantInv, ticked # "none"
             PROVE  IF ticked \in DOMAIN Documented[sim]
                    THEN Documented[sim][ticked] \in Raised ELSE Raised = {}
  BY DEF ScenarioIsHeard
<1>1. sim \in Simulators /\ InBands(sim, ticked, values) /\ events = Derive(ticked, values)
  BY DEF PlantInv
<1>2. DOMAIN Documented["firewater"] = DOMAIN FirewaterImposed
  BY DEF Documented, FirewaterImposed
<1>3. DOMAIN Documented["fleet"] = DOMAIN FleetImposed
  BY DEF Documented, FleetImposed
<1>4. DOMAIN Documented["remoteedge"] = DOMAIN RemoteEdgeImposed
  BY DEF Documented, RemoteEdgeImposed
<1>5. CASE sim = "firewater"
  <2>1. events = FirewaterRows(ticked, values)
    BY <1>1, <1>5 DEF Derive
  <2> QED BY <1>1, <1>2, <1>5, <2>1, FirewaterHeard, FirewaterSilent DEF Raised
<1>6. CASE sim = "fleet"
  <2>1. events = FleetRows(values)
    BY <1>1, <1>6 DEF Derive
  <2> QED BY <1>1, <1>3, <1>6, <2>1, FleetHeard, FleetSilent DEF Raised
<1>7. CASE sim = "remoteedge"
  <2>1. events = RemoteEdgeRows(values)
    BY <1>1, <1>7 DEF Derive
  <2> QED BY <1>1, <1>4, <1>7, <2>1, RemoteEdgeHeard, RemoteEdgeSilent DEF Raised
<1> QED BY <1>1, <1>5, <1>6, <1>7 DEF Simulators, Healthy

(* Fire-water is the only simulator with interlocks. *)
LEMMA AgreeFromInv == PlantInv => InterlocksAgree
<1> SUFFICES ASSUME PlantInv, sim = "firewater" PROVE InterlocksAgree
  BY DEF InterlocksAgree
<1>1. InBands("firewater", ticked, values)
  BY DEF PlantInv
<1>2. events \subseteq FirewaterRows(ticked, values)
  BY DEF PlantInv, Derive
<1>3. SystemReady(values) => Raised \cap {"firewater.tank.low", "firewater.valve.closed",
                                         "edge.gas.alarm", "edge.control.fault"} = {}
  BY <1>1, <1>2, FirewaterAgrees DEF Raised
<1> QED BY <1>1, <1>2, <1>3, FirewaterAgrees DEF InterlocksAgree

(* Readings are in the bands of the scenario last ticked, and events are     *)
(* what Derive makes of them, in every engine (step, Tick, SetScenario).     *)
THEOREM PlantInvariant == PlantSpec => []PlantInv
BY InitPlantInv, NextPlantInv, PTL DEF PlantSpec

(* A scenario yields the event documented for it, and one without an event   *)
(* yields none, wherever in their bands all readings are and whatever ran    *)
(* before (step, Derive, docs/SIMULATORS.md).                                *)
THEOREM ScenarioAlwaysHeard == PlantSpec => []ScenarioIsHeard
BY PlantInvariant, HeardFromInv, PTL

(* Readiness, its reasons, the interlocks, the alarms and the weekly test    *)
(* agree, for any noise (SystemReady, ReadyWhy, Evaluate, RunWeeklyTest).    *)
THEOREM InterlocksAlwaysAgree == PlantSpec => []InterlocksAgree
BY PlantInvariant, AgreeFromInv, PTL

--------------------------------------------------------------------------------
(* EventStream *)

(* A frame on its way is of a tick the plant has made, and one that carries  *)
(* events is no announcement; so are the ticks that have been broadcast.     *)
OfAMadeTick(dv, made) ==
    /\ dv.frame <= made
    /\ dv.pc \in {"append", "publish", "extra", "stamp"} => dv.frame # Announcement

TicksAreMade ==
    /\ \A d \in Deliverers : OfAMadeTick(delivery[d], plant)
    /\ sent \subseteq 1 .. plant

StreamInv == TypeOK /\ TicksAreMade /\ NothingMissed

(* What TypeOK says of the maps of events. *)
MapsTypeOK == copies \in BOOLEAN /\ shared \subseteq Deliverers /\ acted \subseteq Event

(* The constants, one by one. *)
LEMMA Caps ==
    /\ QueueCap \in Nat \ {0} /\ LogCap \in Nat \ {0} /\ MaxEvents \in Nat \ {0}
    /\ MaxTicks \in Nat
    /\ Free \notin Readers
BY EventStreamAssumption

(* A frame that finds room is the last in the channel, one that does not is  *)
(* not in it, and the channel never holds more than it can.                  *)
LEMMA TrySendKeeps ==
    ASSUME NEW q \in Seq(Frame), Len(q) <= QueueCap, NEW f \in Frame
    PROVE  /\ TrySend(q, f) \in Seq(Frame)
           /\ Len(TrySend(q, f)) <= QueueCap
           /\ \A i \in DOMAIN q : \E j \in DOMAIN TrySend(q, f) : TrySend(q, f)[j] = q[i]
           /\ Len(q) = QueueCap \/ \E j \in DOMAIN TrySend(q, f) : TrySend(q, f)[j] = f
<1>1. Len(q) \in Nat /\ DOMAIN q = 1 .. Len(q)
  BY LenProperties
<1>2. CASE Len(q) < QueueCap
  <2> DEFINE longer == Append(q, f)
  <2>1. TrySend(q, f) = longer
    BY <1>2 DEF TrySend
  <2>2. /\ longer \in Seq(Frame) /\ Len(longer) = Len(q) + 1
        /\ \A i \in 1 .. Len(q) : longer[i] = q[i]
        /\ longer[Len(q) + 1] = f
    BY AppendProperties
  <2>3. DOMAIN longer = 1 .. Len(q) + 1
    BY <2>2, LenProperties
  <2> HIDE DEF longer
  <2>4. Len(longer) <= QueueCap
    BY <1>1, <1>2, <2>2, Caps
  <2>5. \A i \in DOMAIN q : i \in DOMAIN longer /\ longer[i] = q[i]
    BY <1>1, <2>2, <2>3
  <2>6. Len(q) + 1 \in DOMAIN longer
    BY <1>1, <2>3
  <2> QED BY <2>1, <2>2, <2>4, <2>5, <2>6, Zenon
<1>3. CASE ~(Len(q) < QueueCap)
  <2>1. TrySend(q, f) = q
    BY <1>3 DEF TrySend
  <2>2. Len(q) = QueueCap
    <3>1. Len(q) \in Nat /\ QueueCap \in Nat /\ Len(q) <= QueueCap /\ ~(Len(q) < QueueCap)
      BY <1>1, <1>3, Caps
    <3> QED BY <3>1
  <2> QED BY <2>1, <2>2
<1> QED BY <1>2, <1>3

(* The log keeps the newest LogCap events. *)
LEMMA LogKeeps ==
    ASSUME NEW lg \in Seq(Event), NEW e \in Event
    PROVE  LET longer == <<e>> \o lg
               kept == IF Len(longer) > LogCap THEN SubSeq(longer, 1, LogCap) ELSE longer
           IN  kept \in Seq(Event) /\ Len(kept) <= LogCap
<1> DEFINE longer == <<e>> \o lg
<1>1. <<e>> \in Seq(Event) /\ Len(<<e>>) = 1
  OBVIOUS
<1>2. longer \in Seq(Event) /\ Len(longer) \in Nat
  BY <1>1, ConcatProperties, LenProperties
<1> HIDE DEF longer
<1>3. CASE Len(longer) > LogCap
  <2>1. \A i \in 1 .. LogCap : longer[i] \in Event
    BY <1>2, <1>3, Caps, ElementOfSeq
  <2>2. SubSeq(longer, 1, LogCap) \in Seq(Event) /\ Len(SubSeq(longer, 1, LogCap)) = LogCap
    <3>1. LogCap \in Int /\ 1 \in Int /\ 1 <= LogCap
      BY Caps
    <3>2. /\ SubSeq(longer, 1, LogCap) \in Seq(Event)
          /\ Len(SubSeq(longer, 1, LogCap)) = IF 1 <= LogCap THEN LogCap - 1 + 1 ELSE 0
      BY <2>1, <3>1, SubSeqProperties
    <3> QED BY <3>1, <3>2
  <2>3. LogCap <= LogCap
    BY Caps
  <2> QED BY <1>3, <2>2, <2>3 DEF longer
<1>4. CASE ~(Len(longer) > LogCap)
  <2>1. Len(longer) <= LogCap
    BY <1>2, <1>4, Caps
  <2> QED BY <1>2, <1>4, <2>1 DEF longer
<1> QED BY <1>3, <1>4

(* After an event comes the next of those there are, or the broadcast. *)
LEMMA AfterKeeps ==
    ASSUME NEW dv \in Delivery
    PROVE  After(dv) \in Delivery /\ After(dv).frame = dv.frame
<1>1. CASE dv.place < dv.count
  <2>1. dv.place + 1 \in 1 .. MaxEvents
    BY <1>1, Caps DEF Delivery
  <2>2. PICK n \in 1 .. MaxEvents : n = dv.place + 1
    BY <2>1
  <2>3. After(dv) = [dv EXCEPT !.pc = "append", !.place = n]
    BY <1>1, <2>2 DEF After
  <2> QED BY <2>3 DEF Delivery, DeliveryPC
<1>2. CASE ~(dv.place < dv.count)
  BY <1>2 DEF After, Delivery, DeliveryPC
<1> QED BY <1>1, <1>2

(* A thread outside processFleetTick carries no tick. *)
LEMMA IdleIsDelivery == Idle \in Delivery /\ Idle.frame = 0 /\ Idle.pc = "idle"
BY Caps DEF Idle, Delivery, DeliveryPC, Frame, Announcement

(* At the start nothing is under way. *)
LEMMA InitStreamInv == StreamInit => StreamInv
<1> SUFFICES ASSUME StreamInit PROVE StreamInv
  OBVIOUS
<1>1. Idle \in Delivery /\ Idle.frame = 0 /\ Idle.pc = "idle"
  BY IdleIsDelivery
<1>2. TypeOK
  <2>1. << >> \in Seq(Event) /\ << >> \in Seq(Frame) /\ Len(<< >>) = 0
    BY EmptySeq
  <2>2. log \in Seq(Event) /\ Len(log) <= LogCap /\ queue \in [Subscribers -> Seq(Frame)]
        /\ \A s \in Subscribers : Len(queue[s]) <= QueueCap
    BY <2>1, Caps DEF StreamInit
  <2>3. plant \in 0 .. MaxTicks /\ base \in [Subscribers -> 0 .. MaxTicks]
    BY Caps DEF StreamInit
  <2> QED BY <1>1, <2>2, <2>3 DEF StreamInit, TypeOK, SubPC
<1>3. TicksAreMade
  BY <1>1 DEF StreamInit, TicksAreMade, OfAMadeTick
<1>4. NothingMissed
  BY DEF StreamInit, NothingMissed
<1> QED BY <1>2, <1>3, <1>4 DEF StreamInv

(* A step of a delivery before its broadcast. *)
LEMMA DeliveryKeeps ==
    ASSUME StreamInv, NEW d \in Deliverers,
           PlantTicks(d) \/ Announces(d) \/ appendFleetEvent(d) \/ ChecksPublish(d)
           \/ TakesExtra(d) \/ publishSimEvent(d)
    PROVE  StreamInv'
<1>1. TypeOK /\ TicksAreMade /\ NothingMissed
  BY DEF StreamInv
<1>2. delivery \in [Deliverers -> Delivery] /\ delivery[d] \in Delivery /\ plant \in 0 .. MaxTicks
  BY <1>1 DEF TypeOK
<1>3. UNCHANGED <<publishing, mu, streams, sent>>
  BY DEF PlantTicks, Announces, appendFleetEvent, ChecksPublish, TakesExtra, publishSimEvent
<1>4. \E dv \in Delivery : delivery' = [delivery EXCEPT ![d] = dv] /\ OfAMadeTick(dv, plant')
  <2>1. CASE PlantTicks(d)
    <3>1. PICK count \in 0 .. MaxEvents :
             delivery' = [delivery EXCEPT ![d] =
              [pc |-> IF count = 0 THEN "broadcast" ELSE "append",
               frame |-> plant + 1, count |-> count, place |-> 1]]
      BY <2>1 DEF PlantTicks
    <3> DEFINE dv == [pc |-> IF count = 0 THEN "broadcast" ELSE "append",
                      frame |-> plant + 1, count |-> count, place |-> 1]
    <3>2. plant' = plant + 1 /\ plant + 1 \in 1 .. MaxTicks
      BY <1>2, <2>1, Caps DEF PlantTicks
    <3>3. plant + 1 \in Frame /\ plant + 1 # Announcement
      BY <3>2 DEF Frame, Ticks, Announcement
    <3>4. dv \in Delivery
      BY <3>3, Caps DEF Delivery, DeliveryPC
    <3>5. dv.frame = plant'
      BY <3>2
    <3> HIDE DEF dv
    <3>6. delivery' = [delivery EXCEPT ![d] = dv]
      BY <3>1 DEF dv
    <3>7. OfAMadeTick(dv, plant')
      BY <3>2, <3>3, <3>5 DEF OfAMadeTick
    <3> QED BY <3>4, <3>6, <3>7
  <2>2. OfAMadeTick(delivery[d], plant)
    BY <1>1 DEF TicksAreMade
  <2>3. ASSUME NEW l \in DeliveryPC, delivery' = [delivery EXCEPT ![d].pc = l], plant' = plant,
               delivery[d].pc \in {"append", "publish", "extra", "stamp"} \/ l = "broadcast"
        PROVE  \E dv \in Delivery : delivery' = [delivery EXCEPT ![d] = dv] /\ OfAMadeTick(dv, plant')
    <3> DEFINE dv == [delivery[d] EXCEPT !.pc = l]
    <3>1. dv \in Delivery /\ dv.frame = delivery[d].frame /\ dv.pc = l
      BY <1>2 DEF Delivery
    <3>2. delivery' = [delivery EXCEPT ![d] = dv]
      BY <2>3
    <3> HIDE DEF dv
    <3>3. OfAMadeTick(dv, plant')
      BY <2>2, <2>3, <3>1 DEF OfAMadeTick
    <3> QED BY <3>1, <3>2, <3>3
  <2>4. ASSUME delivery' = [delivery EXCEPT ![d] = After(@)], plant' = plant,
               delivery[d].pc \in {"append", "publish", "extra", "stamp"}
        PROVE  \E dv \in Delivery : delivery' = [delivery EXCEPT ![d] = dv] /\ OfAMadeTick(dv, plant')
    <3>1. After(delivery[d]) \in Delivery /\ After(delivery[d]).frame = delivery[d].frame
      BY <1>2, AfterKeeps
    <3>2. OfAMadeTick(After(delivery[d]), plant')
      BY <2>2, <2>4, <3>1 DEF OfAMadeTick
    <3>3. delivery' = [delivery EXCEPT ![d] = After(delivery[d])]
      BY <2>4
    <3> QED BY <3>1, <3>2, <3>3
  <2>5. CASE Announces(d) \/ appendFleetEvent(d)
    BY <2>3, <2>5 DEF Announces, appendFleetEvent, DeliveryPC
  <2>6. CASE ChecksPublish(d) \/ TakesExtra(d) \/ publishSimEvent(d)
    BY <2>3, <2>4, <2>6 DEF ChecksPublish, TakesExtra, publishSimEvent, DeliveryPC
  <2> QED BY <2>1, <2>5, <2>6
<1>5. PICK dv \in Delivery : delivery' = [delivery EXCEPT ![d] = dv] /\ OfAMadeTick(dv, plant')
  BY <1>4
<1>6. plant' \in plant .. MaxTicks
  BY <1>2, Caps
     DEF PlantTicks, Announces, appendFleetEvent, ChecksPublish, TakesExtra, publishSimEvent
<1>7. log' \in Seq(Event) /\ Len(log') <= LogCap
  <2>1. CASE appendFleetEvent(d)
    <3>1. delivery[d].frame # Announcement
      BY <1>1, <2>1 DEF TicksAreMade, OfAMadeTick, appendFleetEvent
    <3>2. Current(d) \in Event
      BY <1>2, <3>1 DEF Current, Event, Delivery, Frame
    <3> QED BY <1>1, <2>1, <3>2, LogKeeps DEF appendFleetEvent, TypeOK
  <2>2. CASE log' = log
    BY <1>1, <2>2 DEF TypeOK
  <2> QED BY <2>1, <2>2 DEF PlantTicks, Announces, ChecksPublish, TakesExtra, publishSimEvent
<1>7a. MapsTypeOK'
  <2>1. MapsTypeOK
    BY <1>1 DEF TypeOK, MapsTypeOK
  <2>2. CASE UNCHANGED maps
    BY <2>1, <2>2 DEF MapsTypeOK, maps
  <2>3. CASE TakesExtra(d)
    BY <2>1, <2>3 DEF MapsTypeOK, TakesExtra
  <2>4. CASE publishSimEvent(d)
    <3>1. delivery[d].frame # Announcement
      BY <1>1, <2>4 DEF TicksAreMade, OfAMadeTick, publishSimEvent
    <3>2. Current(d) \in Event
      BY <1>2, <3>1 DEF Current, Event, Delivery, Frame
    <3> QED BY <2>1, <2>4, <3>2 DEF MapsTypeOK, publishSimEvent
  <2> QED BY <2>2, <2>3, <2>4 DEF PlantTicks, Announces, appendFleetEvent, ChecksPublish
<1>8. TypeOK'
  <2>1. delivery' \in [Deliverers -> Delivery] /\ plant' \in 0 .. MaxTicks
    BY <1>2, <1>5, <1>6
  <2> QED BY <1>1, <1>3, <1>7, <1>7a, <2>1 DEF TypeOK, MapsTypeOK, streams
<1>9. TicksAreMade'
  <2>1. ASSUME NEW e \in Deliverers PROVE OfAMadeTick(delivery'[e], plant')
    <3>1. CASE e = d
      BY <1>2, <1>5, <3>1
    <3>2. CASE e # d
      <4>1. delivery'[e] = delivery[e] /\ delivery[e].frame \in Nat
        BY <1>2, <1>5, <3>2 DEF Delivery, Frame, Ticks, Announcement
      <4> QED BY <1>1, <1>2, <1>6, <4>1 DEF TicksAreMade, OfAMadeTick
    <3> QED BY <3>1, <3>2
  <2>2. sent' \subseteq 1 .. plant'
    BY <1>1, <1>2, <1>3, <1>6 DEF TicksAreMade
  <2> QED BY <2>1, <2>2 DEF TicksAreMade
<1>10. NothingMissed'
  BY <1>1, <1>3 DEF NothingMissed, Queued, streams
<1> QED BY <1>8, <1>9, <1>10 DEF StreamInv

(* A broadcast reaches every channel that is registered, or is noted as      *)
(* having found it full; what was in a channel stays in it.                  *)
LEMMA BroadcastKeeps ==
    ASSUME StreamInv, NEW d \in Deliverers, broadcastFleet(d)
    PROVE  StreamInv'
<1> DEFINE frame == delivery[d].frame
           tick == {frame} \ {Announcement}
<1>1. TypeOK /\ TicksAreMade /\ NothingMissed
  BY DEF StreamInv
<1>2. delivery[d] \in Delivery /\ frame \in Frame /\ tick \subseteq Ticks /\ frame <= plant
  BY <1>1 DEF TypeOK, Delivery, Frame, TicksAreMade, OfAMadeTick
<1> HIDE DEF frame
<1>3. /\ queue' = [s \in Subscribers |->
                      IF s \in Registered THEN TrySend(queue[s], frame) ELSE queue[s]]
      /\ dropped' = [s \in Subscribers |->
                        IF s \in Registered /\ Len(queue[s]) = QueueCap
                        THEN dropped[s] \cup tick ELSE dropped[s]]
      /\ sent' = sent \cup tick
      /\ delivery' = [delivery EXCEPT ![d] = Idle]
      /\ UNCHANGED <<plant, publishing, log, copies, shared, acted, mu, sub, gone, base, seen>>
  BY DEF broadcastFleet, frame, maps
<1> HIDE DEF tick
<1>4. Idle \in Delivery /\ Idle.frame = 0 /\ Idle.pc = "idle"
  BY IdleIsDelivery
<1>5. ASSUME NEW s \in Subscribers
      PROVE  /\ queue'[s] \in Seq(Frame) /\ Len(queue'[s]) <= QueueCap
             /\ dropped'[s] \subseteq Ticks
             /\ Queued(s) \subseteq Queued(s)' /\ dropped[s] \subseteq dropped'[s]
             /\ s \in Registered => tick \subseteq Queued(s)' \cup dropped'[s]
  <2>1. queue[s] \in Seq(Frame) /\ Len(queue[s]) <= QueueCap /\ dropped[s] \subseteq Ticks
    BY <1>1 DEF TypeOK
  <2>2. CASE s \in Registered
    <3>1. queue'[s] = TrySend(queue[s], frame)
      BY <1>3, <2>2
    <3>2. dropped'[s] = IF Len(queue[s]) = QueueCap THEN dropped[s] \cup tick ELSE dropped[s]
      BY <1>3, <2>2
    <3>3. /\ TrySend(queue[s], frame) \in Seq(Frame)
          /\ Len(TrySend(queue[s], frame)) <= QueueCap
          /\ \A i \in DOMAIN queue[s] : \E j \in DOMAIN TrySend(queue[s], frame) :
                TrySend(queue[s], frame)[j] = queue[s][i]
          /\ Len(queue[s]) = QueueCap \/ \E j \in DOMAIN TrySend(queue[s], frame) :
                TrySend(queue[s], frame)[j] = frame
      BY <1>2, <2>1, TrySendKeeps
    <3>4. Queued(s) \subseteq Queued(s)'
      BY <3>1, <3>3 DEF Queued
    <3>5. Len(queue[s]) = QueueCap \/ frame \in Queued(s)'
      BY <3>1, <3>3 DEF Queued
    <3>6. tick \subseteq {frame}
      BY DEF tick
    <3> QED BY <1>2, <2>1, <3>1, <3>2, <3>3, <3>4, <3>5, <3>6
  <2>3. CASE s \notin Registered
    <3>1. queue'[s] = queue[s] /\ dropped'[s] = dropped[s]
      BY <1>3, <2>3
    <3> QED BY <2>1, <2>3, <3>1 DEF Queued
  <2> QED BY <2>2, <2>3
<1>6. TypeOK'
  <2>1. delivery' \in [Deliverers -> Delivery] /\ sent' \subseteq Ticks
    BY <1>1, <1>2, <1>3, <1>4 DEF TypeOK
  <2>2. queue' \in [Subscribers -> Seq(Frame)] /\ dropped' \in [Subscribers -> SUBSET Ticks]
    BY <1>3, <1>5
  <2>3. \A s \in Subscribers : Len(queue'[s]) <= QueueCap
    BY <1>5
  <2> QED BY <1>1, <1>3, <2>1, <2>2, <2>3 DEF TypeOK
<1>7. TicksAreMade'
  <2>1. tick \subseteq 1 .. plant
    BY <1>1, <1>2 DEF tick, Frame, Ticks, Announcement, TypeOK
  <2>2. sent' \subseteq 1 .. plant'
    BY <1>1, <1>3, <2>1 DEF TicksAreMade
  <2>3. ASSUME NEW e \in Deliverers PROVE OfAMadeTick(delivery'[e], plant')
    <3>1. CASE e = d
      BY <1>1, <1>3, <1>4, <3>1 DEF TypeOK, OfAMadeTick
    <3>2. CASE e # d
      BY <1>1, <1>3, <3>2 DEF TypeOK, TicksAreMade
    <3> QED BY <3>1, <3>2
  <2> QED BY <2>2, <2>3 DEF TicksAreMade
<1>8. NothingMissed'
  <2> SUFFICES ASSUME NEW s \in Subscribers, sub[s] \notin {"away", "registered"},
                      NEW n \in sent', n > base[s]
               PROVE  n \in seen[s] \cup Queued(s)' \cup dropped'[s]
    BY <1>3 DEF NothingMissed
  <2>1. s \in Registered
    BY DEF Registered
  <2>2. CASE n \in tick
    BY <1>5, <2>1, <2>2
  <2>3. CASE n \in sent
    BY <1>1, <1>5, <2>3 DEF NothingMissed
  <2> QED BY <1>3, <2>2, <2>3
<1> QED BY <1>6, <1>7, <1>8 DEF StreamInv

(* A stream's handler takes its first snapshot after its channel is          *)
(* registered: no tick broadcast until then is later than the snapshot.      *)
LEMMA HandlerKeeps ==
    ASSUME StreamInv, NEW s \in Subscribers,
           Registers(s) \/ TakesSnapshot(s) \/ Written(s) \/ Receives(s)
           \/ HangsUp(s) \/ TakesDone(s) \/ Leaves(s)
    PROVE  StreamInv'
<1>1. TypeOK /\ TicksAreMade /\ NothingMissed
  BY DEF StreamInv
<1>2. UNCHANGED <<plant, publishing, delivery, log, copies, shared, acted, mu, sent>>
  BY DEF Registers, TakesSnapshot, Written, Receives, HangsUp, TakesDone, Leaves, maps
<1>3. TicksAreMade'
  BY <1>1, <1>2 DEF TicksAreMade
<1>4. /\ plant \in 0 .. MaxTicks /\ queue \in [Subscribers -> Seq(Frame)]
      /\ Len(queue[s]) <= QueueCap
      /\ sub \in [Subscribers -> SubPC] /\ gone \subseteq Subscribers
      /\ base \in [Subscribers -> 0 .. MaxTicks]
      /\ seen \in [Subscribers -> SUBSET Ticks] /\ dropped \in [Subscribers -> SUBSET Ticks]
  BY <1>1 DEF TypeOK
<1>5. CASE Registers(s)
  <2>1. TypeOK'
    BY <1>1, <1>2, <1>4, <1>5 DEF Registers, TypeOK, SubPC
  <2>2. NothingMissed'
    BY <1>1, <1>4, <1>5 DEF Registers, NothingMissed, Queued
  <2> QED BY <1>3, <2>1, <2>2 DEF StreamInv
<1>6. CASE TakesSnapshot(s)
  <2>1. TypeOK'
    BY <1>1, <1>2, <1>4, <1>6 DEF TakesSnapshot, TypeOK, SubPC
  <2>2. base'[s] = plant /\ \A n \in sent : n <= plant
    BY <1>1, <1>4, <1>6 DEF TakesSnapshot, TicksAreMade
  <2>3. ASSUME NEW n \in sent' PROVE ~(n > base'[s])
    BY <1>1, <1>2, <1>4, <2>2 DEF TypeOK, Ticks
  <2>4. \A t \in Subscribers \ {s} : sub'[t] = sub[t] /\ base'[t] = base[t]
    BY <1>4, <1>6 DEF TakesSnapshot
  <2>5. NothingMissed'
    BY <1>1, <1>6, <2>3, <2>4 DEF TakesSnapshot, NothingMissed, Queued
  <2> QED BY <1>3, <2>1, <2>5 DEF StreamInv
<1>7. CASE Written(s)
  <2>1. TypeOK'
    BY <1>1, <1>2, <1>4, <1>7 DEF Written, TypeOK, SubPC
  <2>2. NothingMissed'
    BY <1>1, <1>4, <1>7 DEF Written, NothingMissed, Queued
  <2> QED BY <1>3, <2>1, <2>2 DEF StreamInv
<1>8. CASE Receives(s)
  <2>1. /\ Head(queue[s]) \in Frame /\ Tail(queue[s]) \in Seq(Frame)
        /\ Len(Tail(queue[s])) = Len(queue[s]) - 1
        /\ \A i \in 1 .. Len(Tail(queue[s])) : Tail(queue[s])[i] = queue[s][i + 1]
    BY <1>4, <1>8, HeadTailProperties DEF Receives
  <2>2. /\ seen' = [seen EXCEPT ![s] = @ \cup ({Head(queue[s])} \ {Announcement})]
        /\ queue' = [queue EXCEPT ![s] = Tail(@)]
        /\ sub' = [sub EXCEPT ![s] = "write"] /\ sub[s] = "select"
        /\ UNCHANGED <<gone, base, dropped>>
    BY <1>8 DEF Receives
  <2>3. Len(queue[s]) \in Nat /\ DOMAIN queue[s] = 1 .. Len(queue[s])
        /\ DOMAIN Tail(queue[s]) = 1 .. Len(Tail(queue[s]))
    BY <1>4, <2>1, LenProperties
  <2>4. Len(Tail(queue[s])) <= QueueCap
    BY <1>4, <2>1, <2>3, Caps
  <2>5. {Head(queue[s])} \ {Announcement} \subseteq Ticks
    BY <2>1 DEF Frame
  <2>6. TypeOK'
    BY <1>1, <1>2, <1>4, <2>1, <2>2, <2>4, <2>5 DEF TypeOK, SubPC
  <2>7. Head(queue[s]) = queue[s][1]
    OBVIOUS
  <2>8. Queued(s) \subseteq {Head(queue[s])} \cup Queued(s)'
    <3> SUFFICES ASSUME NEW i \in DOMAIN queue[s], i # 1
                 PROVE  queue[s][i] \in Queued(s)'
      BY <2>7 DEF Queued
    <3>1. i - 1 \in DOMAIN Tail(queue[s]) /\ Tail(queue[s])[i - 1] = queue[s][i]
      BY <2>1, <2>3
    <3>2. queue'[s] = Tail(queue[s])
      BY <1>4, <2>2
    <3> QED BY <3>1, <3>2 DEF Queued
  <2>9. \A t \in Subscribers \ {s} : queue'[t] = queue[t] /\ seen'[t] = seen[t] /\ sub'[t] = sub[t]
    BY <1>4, <2>2
  <2>10. \A t \in Subscribers \ {s} : Queued(t)' = Queued(t)
    BY <2>9 DEF Queued
  <2>11. seen'[s] = seen[s] \cup ({Head(queue[s])} \ {Announcement})
    BY <1>4, <2>2
  <2>12. \A n \in sent : n # Announcement
    BY <1>1 DEF TypeOK, Ticks, Announcement
  <2>13. ASSUME NEW t \in Subscribers, sub'[t] \notin {"away", "registered"},
                NEW n \in sent, n > base[t]
         PROVE  n \in seen'[t] \cup Queued(t)' \cup dropped[t]
    <3>1. CASE t = s
      <4>1. n \in seen[s] \cup Queued(s) \cup dropped[s]
        BY <1>1, <2>2, <2>13, <3>1 DEF NothingMissed
      <4> QED BY <2>8, <2>11, <2>12, <3>1, <4>1
    <3>2. CASE t # s
      BY <1>1, <2>9, <2>10, <2>13, <3>2 DEF NothingMissed
    <3> QED BY <3>1, <3>2
  <2>14. NothingMissed'
    BY <1>2, <2>2, <2>13 DEF NothingMissed
  <2> QED BY <1>3, <2>6, <2>14 DEF StreamInv
<1>9. CASE HangsUp(s)
  <2>1. TypeOK'
    BY <1>1, <1>2, <1>4, <1>9 DEF HangsUp, TypeOK
  <2>2. NothingMissed'
    BY <1>1, <1>9 DEF HangsUp, NothingMissed, Queued
  <2> QED BY <1>3, <2>1, <2>2 DEF StreamInv
<1>10. CASE TakesDone(s)
  <2>1. TypeOK'
    BY <1>1, <1>2, <1>4, <1>10 DEF TakesDone, TypeOK, SubPC
  <2>2. NothingMissed'
    BY <1>1, <1>4, <1>10 DEF TakesDone, NothingMissed, Queued
  <2> QED BY <1>3, <2>1, <2>2 DEF StreamInv
<1>11. CASE Leaves(s)
  <2>1. << >> \in Seq(Frame) /\ Len(<< >>) <= QueueCap
    BY EmptySeq, Caps
  <2>2. TypeOK'
    BY <1>1, <1>2, <1>4, <1>11, <2>1, Caps DEF Leaves, TypeOK, SubPC
  <2>3. sub'[s] = "away" /\ \A t \in Subscribers \ {s} :
           /\ sub'[t] = sub[t] /\ queue'[t] = queue[t] /\ seen'[t] = seen[t]
           /\ base'[t] = base[t] /\ dropped'[t] = dropped[t]
    BY <1>4, <1>11 DEF Leaves
  <2>4. NothingMissed'
    BY <1>1, <1>2, <2>3 DEF NothingMissed, Queued
  <2> QED BY <1>3, <2>2, <2>4 DEF StreamInv
<1> QED BY <1>5, <1>6, <1>7, <1>8, <1>9, <1>10, <1>11

(* The publish switch and a reader of the log touch no stream. *)
LEMMA OthersKeep ==
    ASSUME StreamInv,
           \/ \E on \in BOOLEAN : fleetConfig(on)
           \/ \E r \in Readers : fleetEvents(r) \/ fleetEventsSent(r)
           \/ UNCHANGED streamVars
    PROVE  StreamInv'
<1>1. UNCHANGED <<plant, delivery, log, copies, shared, acted, streams, sent>>
      /\ publishing' \in BOOLEAN /\ mu' \in Readers \cup {Free}
  BY DEF StreamInv, TypeOK, fleetConfig, fleetEvents, fleetEventsSent, streamVars, maps
<1>2. UNCHANGED <<sub, queue, gone, base, seen, dropped>>
  BY <1>1 DEF streams
<1> QED BY <1>1, <1>2 DEF StreamInv, TypeOK, TicksAreMade, NothingMissed, Queued

(* Every step keeps the invariant. *)
LEMMA NextStreamInv == StreamInv /\ [StreamNext]_streamVars => StreamInv'
BY DeliveryKeeps, BroadcastKeeps, HandlerKeeps, OthersKeep DEF StreamNext

(* The invariant of the streams: types, ticks on their way and broadcast are *)
(* ticks made, and nobody misses one (processFleetTick, the stream handler). *)
THEOREM StreamInvariant == StreamSpec => []StreamInv
BY InitStreamInv, NextStreamInv, PTL DEF StreamSpec

(* Logs and channels keep their bounds, and handlers, threads and frames     *)
(* their kinds, for any number of each (appendFleetEvent, broadcastFleet).   *)
THEOREM StreamTypeCorrect == StreamSpec => []TypeOK
<1>1. StreamInv => TypeOK
  BY DEF StreamInv
<1> QED BY StreamInvariant, <1>1, PTL

(* A tick made after the snapshot a browser was sent is written to it, waits *)
(* in its channel, or found the channel full: no interleaving of snapshot,   *)
(* registration and broadcasts loses one (fleetStream, broadcastFleet).      *)
THEOREM NothingIsMissed == StreamSpec => []NothingMissed
<1>1. StreamInv => NothingMissed
  BY DEF StreamInv
<1> QED BY StreamInvariant, <1>1, PTL

--------------------------------------------------------------------------------
(* EventStream: nothing is told twice *)

(* Two threads never carry the same step, nor one that has been broadcast.   *)
FramesApart ==
    \A d \in Deliverers :
        /\ delivery[d].frame \notin sent
        /\ \A e \in Deliverers \ {d} :
              delivery[d].frame = delivery[e].frame => delivery[d].frame = Announcement

(* Nothing is told but what was broadcast. *)
ToldIsSent ==
    \A s \in Subscribers : Queued(s) \cup seen[s] \cup dropped[s] \subseteq sent \cup {Announcement}

(* The log has no event of a step still to come, and of one a thread carries *)
(* only the events before the one it is about to append.                     *)
Logged(e, dv) ==
    e.tick = dv.frame => e.place <= dv.place /\ (dv.pc = "append" => e.place < dv.place)

InLog == {log[i] : i \in DOMAIN log}

LogRunsBehind ==
    \A e \in InLog : e.tick <= plant /\ \A d \in Deliverers : Logged(e, delivery[d])

OnceInv == FramesApart /\ ToldIsSent /\ LogRunsBehind /\ ToldOnce

(* A log after an event was put before it and what is too much cut off:      *)
(* each entry is the new event, or the one before in the old log.            *)
Cut(lg, e) ==
    LET longer == <<e>> \o lg
    IN  IF Len(longer) > LogCap THEN SubSeq(longer, 1, LogCap) ELSE longer

LEMMA LogCut ==
    ASSUME NEW lg \in Seq(Event), NEW e \in Event
    PROVE  \A i \in DOMAIN Cut(lg, e) :
              /\ i \in Nat \ {0}
              /\ i = 1 => Cut(lg, e)[i] = e
              /\ i # 1 => i - 1 \in DOMAIN lg /\ Cut(lg, e)[i] = lg[i - 1]
<1> DEFINE unit == <<e>>
           longer == unit \o lg
           kept == Cut(lg, e)
<1>1. unit \in Seq(Event) /\ Len(unit) = 1 /\ unit[1] = e
  OBVIOUS
<1>2. kept = IF Len(longer) > LogCap THEN SubSeq(longer, 1, LogCap) ELSE longer
  BY DEF Cut
<1> HIDE DEF unit, kept
<1>3. /\ longer \in Seq(Event) /\ Len(longer) = 1 + Len(lg)
      /\ \A j \in 1 .. 1 + Len(lg) : longer[j] = IF j <= 1 THEN unit[j] ELSE lg[j - 1]
  <2>1. /\ unit \o lg \in Seq(Event) /\ Len(unit \o lg) = Len(unit) + Len(lg)
        /\ \A j \in 1 .. Len(unit) + Len(lg) :
              (unit \o lg)[j] = IF j <= Len(unit) THEN unit[j] ELSE lg[j - Len(unit)]
    BY <1>1, ConcatProperties, Zenon
  <2> QED BY <1>1, <2>1, Zenon
<1>4. Len(lg) \in Nat /\ DOMAIN lg = 1 .. Len(lg) /\ DOMAIN longer = 1 .. 1 + Len(lg)
  BY <1>3, LenProperties
<1> HIDE DEF longer
<1>5. ASSUME NEW i \in DOMAIN kept PROVE i \in 1 .. 1 + Len(lg) /\ kept[i] = longer[i]
  <2>1. CASE Len(longer) > LogCap
    <3>1. LogCap \in Nat /\ 1 <= LogCap /\ LogCap < 1 + Len(lg)
      BY <1>3, <1>4, <2>1, Caps
    <3>2. \A j \in 1 .. LogCap : longer[j] \in Event
      BY <1>3, <1>4, <3>1, ElementOfSeq
    <3>3. /\ SubSeq(longer, 1, LogCap) \in Seq(Event)
          /\ Len(SubSeq(longer, 1, LogCap)) = LogCap - 1 + 1
          /\ \A j \in 1 .. LogCap - 1 + 1 : SubSeq(longer, 1, LogCap)[j] = longer[1 + j - 1]
      BY <3>1, <3>2, SubSeqProperties
    <3>4. DOMAIN SubSeq(longer, 1, LogCap) = 1 .. LogCap
      BY <3>1, <3>3, LenProperties
    <3>5. i \in 1 .. LogCap /\ kept = SubSeq(longer, 1, LogCap)
      BY <1>2, <1>5, <2>1, <3>4
    <3> QED BY <1>4, <3>1, <3>3, <3>5
  <2>2. CASE ~(Len(longer) > LogCap)
    BY <1>2, <1>4, <1>5, <2>2
  <2> QED BY <2>1, <2>2
<1>6. ASSUME NEW i \in DOMAIN kept
      PROVE  /\ i \in Nat \ {0}
             /\ i = 1 => kept[i] = e
             /\ i # 1 => i - 1 \in DOMAIN lg /\ kept[i] = lg[i - 1]
  <2>1. i \in 1 .. 1 + Len(lg) /\ kept[i] = longer[i]
    BY <1>5
  <2>2. longer[i] = IF i <= 1 THEN unit[i] ELSE lg[i - 1]
    BY <1>3, <2>1
  <2>3. i \in Nat \ {0}
    BY <1>4, <2>1
  <2> QED BY <1>1, <1>4, <2>1, <2>2, <2>3
<1> QED BY <1>6 DEF kept

(* A thread that goes on stays with its step, and goes to an event after it. *)
LEMMA Advances ==
    ASSUME StreamInv, NEW d \in Deliverers,
           Announces(d) \/ ChecksPublish(d) \/ TakesExtra(d) \/ publishSimEvent(d)
    PROVE  \E dv \in Delivery :
              /\ delivery' = [delivery EXCEPT ![d] = dv]
              /\ dv.frame = delivery[d].frame
              /\ \A e \in Event : Logged(e, delivery[d]) => Logged(e, dv)
<1>1. delivery[d] \in Delivery
  BY DEF StreamInv, TypeOK
<1>2. ASSUME NEW l \in {"extra", "stamp", "broadcast"}, delivery' = [delivery EXCEPT ![d].pc = l]
      PROVE  \E dv \in Delivery :
              /\ delivery' = [delivery EXCEPT ![d] = dv]
              /\ dv.frame = delivery[d].frame
              /\ \A e \in Event : Logged(e, delivery[d]) => Logged(e, dv)
  <2> DEFINE dv == [delivery[d] EXCEPT !.pc = l]
  <2>1. dv \in Delivery /\ dv.frame = delivery[d].frame /\ dv.place = delivery[d].place
        /\ dv.pc # "append"
    BY <1>1 DEF Delivery, DeliveryPC
  <2>2. delivery' = [delivery EXCEPT ![d] = dv]
    BY <1>2
  <2> HIDE DEF dv
  <2>3. \A e \in Event : Logged(e, delivery[d]) => Logged(e, dv)
    BY <2>1 DEF Logged
  <2> QED BY <2>1, <2>2, <2>3
<1>3. ASSUME delivery' = [delivery EXCEPT ![d] = After(@)]
      PROVE  \E dv \in Delivery :
              /\ delivery' = [delivery EXCEPT ![d] = dv]
              /\ dv.frame = delivery[d].frame
              /\ \A e \in Event : Logged(e, delivery[d]) => Logged(e, dv)
  <2> DEFINE dv == After(delivery[d])
  <2>1. dv \in Delivery /\ dv.frame = delivery[d].frame
    BY <1>1, AfterKeeps
  <2>2. \/ dv.place = delivery[d].place + 1
        \/ dv.place = delivery[d].place /\ dv.pc # "append"
    BY <1>1 DEF After, Delivery
  <2>3. delivery' = [delivery EXCEPT ![d] = dv]
    BY <1>3
  <2>4. delivery[d].place \in Nat
    BY <1>1, Caps DEF Delivery
  <2> HIDE DEF dv
  <2>5. ASSUME NEW e \in Event, Logged(e, delivery[d]) PROVE Logged(e, dv)
    <3>1. e.place \in Nat
      BY Caps DEF Event
    <3> QED BY <2>1, <2>2, <2>4, <2>5, <3>1 DEF Logged
  <2> QED BY <2>1, <2>3, <2>5
<1> QED BY <1>2, <1>3 DEF Announces, ChecksPublish, TakesExtra, publishSimEvent

(* A step that leaves a thread with the step of the plant it has, and logs   *)
(* and tells nothing.                                                        *)
LEMMA AdvancesOnce ==
    ASSUME StreamInv, OnceInv, NEW d \in Deliverers,
           Announces(d) \/ ChecksPublish(d) \/ TakesExtra(d) \/ publishSimEvent(d)
    PROVE  OnceInv'
<1>1. UNCHANGED <<plant, log, streams, sent>>
  BY DEF Announces, ChecksPublish, TakesExtra, publishSimEvent
<1>2. PICK dv \in Delivery :
              /\ delivery' = [delivery EXCEPT ![d] = dv]
              /\ dv.frame = delivery[d].frame
              /\ \A e \in Event : Logged(e, delivery[d]) => Logged(e, dv)
  BY Advances
<1>3. delivery \in [Deliverers -> Delivery] /\ log \in Seq(Event)
  BY DEF StreamInv, TypeOK
<1>4. \A c \in Deliverers : delivery'[c] = IF c = d THEN dv ELSE delivery[c]
  BY <1>2, <1>3
<1>5. FramesApart'
  BY <1>1, <1>2, <1>4 DEF OnceInv, FramesApart
<1>6. LogRunsBehind'
  <2>1. InLog' = InLog /\ InLog \subseteq Event
    BY <1>1, <1>3, ElementOfSeq, LenProperties DEF InLog
  <2> QED BY <1>1, <1>2, <1>4, <2>1 DEF OnceInv, LogRunsBehind
<1>7. ToldIsSent' /\ ToldOnce'
  BY <1>1 DEF OnceInv, ToldIsSent, ToldOnce, Queued, streams
<1> QED BY <1>5, <1>6, <1>7 DEF OnceInv

(* A step the plant has just made is nobody else's, and nowhere yet.         *)
LEMMA TicksOnce ==
    ASSUME StreamInv, OnceInv, NEW d \in Deliverers, PlantTicks(d)
    PROVE  OnceInv'
<1>1. UNCHANGED <<log, streams, sent>> /\ plant' = plant + 1
  BY DEF PlantTicks
<1>2. /\ plant \in Nat /\ delivery \in [Deliverers -> Delivery] /\ log \in Seq(Event)
      /\ sent \subseteq 1 .. plant /\ \A c \in Deliverers : delivery[c].frame <= plant
  BY Caps DEF StreamInv, TypeOK, TicksAreMade, OfAMadeTick
<1>3. PICK dv : dv.frame = plant + 1 /\ delivery' = [delivery EXCEPT ![d] = dv]
  BY DEF PlantTicks
<1>4. \A c \in Deliverers : delivery'[c] = IF c = d THEN dv ELSE delivery[c]
  BY <1>2, <1>3
<1>5. \A c \in Deliverers : delivery[c].frame \in Nat
  BY <1>2 DEF Delivery, Frame, Ticks, Announcement
<1>6. FramesApart'
  <2>1. plant + 1 \notin sent /\ \A c \in Deliverers : delivery[c].frame # plant + 1
    BY <1>2, <1>5
  <2> QED BY <1>1, <1>3, <1>4, <2>1 DEF OnceInv, FramesApart
<1>7. LogRunsBehind'
  <2>1. InLog' = InLog /\ InLog \subseteq Event
    BY <1>1, <1>2, ElementOfSeq, LenProperties DEF InLog
  <2>2. ASSUME NEW e \in InLog
        PROVE  e.tick <= plant + 1 /\ \A c \in Deliverers : Logged(e, delivery'[c])
    <3>1. e.tick \in Nat /\ e.tick <= plant
      BY <2>1 DEF OnceInv, LogRunsBehind, Event, Ticks
    <3>2. e.tick # plant + 1 /\ e.tick <= plant + 1
      BY <1>2, <3>1
    <3>3. Logged(e, dv)
      BY <1>3, <3>2 DEF Logged
    <3>4. \A c \in Deliverers : Logged(e, delivery[c])
      BY DEF OnceInv, LogRunsBehind
    <3> QED BY <1>4, <3>2, <3>3, <3>4
  <2> QED BY <1>1, <2>1, <2>2 DEF LogRunsBehind
<1>8. ToldIsSent' /\ ToldOnce'
  BY <1>1 DEF OnceInv, ToldIsSent, ToldOnce, Queued, streams
<1> QED BY <1>6, <1>7, <1>8 DEF OnceInv

(* The event a thread appends comes after those of its step in the log.      *)
LEMMA AppendsOnce ==
    ASSUME StreamInv, OnceInv, NEW d \in Deliverers, appendFleetEvent(d)
    PROVE  OnceInv'
<1> DEFINE new == Current(d)
           dv == [delivery[d] EXCEPT !.pc = "publish"]
<1>1. UNCHANGED <<plant, streams, sent>> /\ delivery[d].pc = "append"
      /\ delivery' = [delivery EXCEPT ![d].pc = "publish"]
  BY DEF appendFleetEvent
<1>2. /\ plant \in Nat /\ delivery \in [Deliverers -> Delivery] /\ log \in Seq(Event)
      /\ delivery[d].frame <= plant /\ delivery[d].frame # Announcement
  BY <1>1, Caps DEF StreamInv, TypeOK, TicksAreMade, OfAMadeTick
<1>3. new \in Event /\ new.tick = delivery[d].frame /\ new.place = delivery[d].place
  BY <1>2 DEF Current, Event, Delivery, Frame
<1>4. dv.frame = delivery[d].frame /\ dv.place = delivery[d].place /\ dv.pc = "publish"
  BY <1>2 DEF Delivery
<1>5. \A c \in Deliverers : delivery'[c] = IF c = d THEN dv ELSE delivery[c]
  BY <1>1, <1>2
<1>6. new.place \in Nat
  BY <1>3, Caps DEF Event
<1>7. \A i \in DOMAIN log' :
         /\ i \in Nat \ {0}
         /\ i = 1 => log'[i] = new
         /\ i # 1 => i - 1 \in DOMAIN log /\ log'[i] = log[i - 1]
  <2>1. log' = Cut(log, new)
    BY DEF appendFleetEvent, Cut
  <2> HIDE DEF new
  <2> QED BY <1>2, <1>3, <2>1, LogCut
<1> HIDE DEF new, dv
<1>8. InLog \subseteq Event /\ \A i \in DOMAIN log : log[i] \in InLog
  BY <1>2, ElementOfSeq, LenProperties DEF InLog
<1>9. InLog' \subseteq InLog \cup {new}
  BY <1>7, <1>8 DEF InLog
<1>10. new \notin InLog
  <2> SUFFICES ASSUME new \in InLog PROVE FALSE
    OBVIOUS
  <2>1. Logged(new, delivery[d])
    BY DEF OnceInv, LogRunsBehind
  <2>2. new.place < delivery[d].place
    BY <1>1, <1>3, <2>1 DEF Logged
  <2> QED BY <1>3, <1>6, <2>2
<1>11. FramesApart'
  BY <1>1, <1>4, <1>5 DEF OnceInv, FramesApart
<1>12. LogRunsBehind'
  <2>1. ASSUME NEW e \in InLog \cup {new}
        PROVE  e.tick <= plant /\ \A c \in Deliverers : Logged(e, delivery'[c])
    <3>1. CASE e \in InLog
      <4>1. e.tick <= plant /\ \A c \in Deliverers : Logged(e, delivery[c])
        BY <3>1 DEF OnceInv, LogRunsBehind
      <4>2. Logged(e, dv)
        BY <1>4, <4>1 DEF Logged
      <4> QED BY <1>5, <4>1, <4>2
    <3>2. CASE e = new
      <4>1. e.tick <= plant
        BY <1>2, <1>3, <3>2
      <4>2. Logged(e, dv)
        BY <1>3, <1>4, <1>6, <3>2 DEF Logged
      <4>3. ASSUME NEW c \in Deliverers \ {d} PROVE Logged(e, delivery[c])
        <5>1. delivery[c].frame # e.tick
          BY <1>2, <1>3, <3>2 DEF OnceInv, FramesApart
        <5> QED BY <5>1 DEF Logged
      <4> QED BY <1>5, <4>1, <4>2, <4>3
    <3> QED BY <3>1, <3>2
  <2> QED BY <1>1, <1>9, <2>1 DEF LogRunsBehind
<1>13. ASSUME NEW i \in DOMAIN log', NEW j \in DOMAIN log', log'[i] = log'[j] PROVE i = j
  <2>1. \A a, b \in DOMAIN log : log[a] = log[b] => a = b
    BY DEF OnceInv, ToldOnce
  <2>2. CASE i = 1 \/ j = 1
    BY <1>7, <1>8, <1>10, <1>13, <2>2
  <2>3. CASE i # 1 /\ j # 1
    <3>1. i - 1 = j - 1 /\ i \in Nat /\ j \in Nat
      BY <1>7, <1>13, <2>1, <2>3
    <3> QED BY <3>1
  <2> QED BY <2>2, <2>3
<1>14. ToldIsSent' /\ ToldOnce'
  BY <1>1, <1>13 DEF OnceInv, ToldIsSent, ToldOnce, Queued, streams
<1> QED BY <1>11, <1>12, <1>14 DEF OnceInv

(* A frame that finds room is put behind the others; one that does not       *)
(* leaves the channel as it is.                                              *)
LEMMA TrySendAppends ==
    ASSUME NEW q \in Seq(Frame), Len(q) <= QueueCap, NEW f \in Frame
    PROVE  /\ Len(q) = QueueCap => TrySend(q, f) = q
           /\ \A i \in DOMAIN TrySend(q, f) :
                 \/ i \in DOMAIN q /\ TrySend(q, f)[i] = q[i]
                 \/ Len(q) < QueueCap /\ i = Len(q) + 1 /\ TrySend(q, f)[i] = f
<1>1. Len(q) \in Nat /\ DOMAIN q = 1 .. Len(q) /\ QueueCap \in Nat
  BY LenProperties, Caps
<1>2. CASE Len(q) < QueueCap
  <2> DEFINE longer == Append(q, f)
  <2>1. /\ longer \in Seq(Frame) /\ Len(longer) = Len(q) + 1
        /\ \A i \in 1 .. Len(q) : longer[i] = q[i]
        /\ longer[Len(q) + 1] = f
    BY AppendProperties
  <2>2. DOMAIN longer = 1 .. Len(q) + 1
    BY <2>1, LenProperties
  <2>3. TrySend(q, f) = longer
    BY <1>2 DEF TrySend
  <2> HIDE DEF longer
  <2>4. ASSUME NEW i \in DOMAIN longer
        PROVE  \/ i \in DOMAIN q /\ longer[i] = q[i]
               \/ i = Len(q) + 1 /\ longer[i] = f
    BY <1>1, <2>1, <2>2
  <2>5. ASSUME NEW i \in DOMAIN TrySend(q, f)
        PROVE  \/ i \in DOMAIN q /\ TrySend(q, f)[i] = q[i]
               \/ Len(q) < QueueCap /\ i = Len(q) + 1 /\ TrySend(q, f)[i] = f
    <3>1. i \in DOMAIN longer
      BY <2>3, Zenon
    <3>2. \/ i \in DOMAIN q /\ longer[i] = q[i]
          \/ i = Len(q) + 1 /\ longer[i] = f
      BY <2>4, <3>1, Zenon
    <3> QED BY <1>2, <2>3, <3>2, Zenon
  <2>6. Len(q) # QueueCap
    <3>1. Len(q) \in Nat /\ QueueCap \in Nat
      BY <1>1, Zenon
    <3>2. \A m, n \in Nat : m < n => m # n
      OBVIOUS
    <3> QED BY <1>2, <3>1, <3>2, Zenon
  <2> QED BY <2>5, <2>6, Zenon
<1>3. CASE ~(Len(q) < QueueCap)
  <2>1. TrySend(q, f) = q
    BY <1>3 DEF TrySend
  <2> QED BY <2>1
<1> QED BY <1>2, <1>3

(* A step is told when no browser has been told of it, and then it has been. *)
LEMMA BroadcastsOnce ==
    ASSUME StreamInv, OnceInv, NEW d \in Deliverers, broadcastFleet(d)
    PROVE  OnceInv'
<1> DEFINE frame == delivery[d].frame
           tick == {frame} \ {Announcement}
<1>1. /\ queue' = [s \in Subscribers |->
                      IF s \in Registered THEN TrySend(queue[s], frame) ELSE queue[s]]
      /\ dropped' = [s \in Subscribers |->
                        IF s \in Registered /\ Len(queue[s]) = QueueCap
                        THEN dropped[s] \cup tick ELSE dropped[s]]
      /\ sent' = sent \cup tick
      /\ delivery' = [delivery EXCEPT ![d] = Idle]
      /\ UNCHANGED <<plant, log, seen>>
  BY DEF broadcastFleet
<1>2. /\ delivery \in [Deliverers -> Delivery] /\ sent \subseteq Ticks /\ log \in Seq(Event)
      /\ frame \in Frame /\ frame \notin sent
      /\ \A c \in Deliverers : delivery[c].frame \in Frame
  BY DEF StreamInv, TypeOK, Delivery, OnceInv, FramesApart
<1>3. tick \subseteq {frame} /\ Announcement \notin tick /\ (frame = Announcement \/ tick = {frame})
  OBVIOUS
<1>4. FramesApart'
  <2>1. \A c \in Deliverers : delivery'[c] = IF c = d THEN Idle ELSE delivery[c]
    BY <1>1, <1>2
  <2>2. Idle.frame = Announcement /\ Announcement \notin sent'
    BY <1>1, <1>2 DEF Idle, Announcement, Ticks
  <2>3. ASSUME NEW c \in Deliverers \ {d} PROVE delivery[c].frame \notin sent'
    BY <1>1 DEF OnceInv, FramesApart
  <2> QED BY <2>1, <2>2, <2>3 DEF OnceInv, FramesApart
<1>5. LogRunsBehind'
  <2>1. InLog' = InLog /\ InLog \subseteq Event
    BY <1>1, <1>2, ElementOfSeq, LenProperties DEF InLog
  <2>2. \A c \in Deliverers : delivery'[c] = IF c = d THEN Idle ELSE delivery[c]
    BY <1>1, <1>2
  <2>3. \A e \in Event : Logged(e, Idle)
    BY DEF Logged, Idle, Event, Ticks, Announcement
  <2> QED BY <1>1, <2>1, <2>2, <2>3 DEF OnceInv, LogRunsBehind
<1> HIDE DEF frame, tick
<1>6. ASSUME NEW s \in Subscribers
      PROVE  /\ Queued(s)' \cup seen[s] \cup dropped'[s] \subseteq sent' \cup {Announcement}
             /\ \A i, j \in DOMAIN queue'[s] :
                   queue'[s][i] = queue'[s][j] => i = j \/ queue'[s][i] = Announcement
             /\ seen[s] \cap Queued(s)' = {}
             /\ dropped'[s] \cap (seen[s] \cup Queued(s)') = {}
  <2>1. /\ queue[s] \in Seq(Frame) /\ Len(queue[s]) <= QueueCap
        /\ seen[s] \subseteq Ticks /\ dropped[s] \subseteq Ticks
    BY DEF StreamInv, TypeOK
  <2>2. /\ Queued(s) \cup seen[s] \cup dropped[s] \subseteq sent \cup {Announcement}
        /\ \A i, j \in DOMAIN queue[s] :
              queue[s][i] = queue[s][j] => i = j \/ queue[s][i] = Announcement
        /\ seen[s] \cap Queued(s) = {}
        /\ dropped[s] \cap (seen[s] \cup Queued(s)) = {}
    BY DEF OnceInv, ToldIsSent, ToldOnce
  <2>3. CASE s \notin Registered
    <3>1. queue'[s] = queue[s] /\ dropped'[s] = dropped[s]
      BY <1>1, <2>3
    <3>2. Queued(s)' = Queued(s)
      BY <3>1 DEF Queued
    <3> QED BY <1>1, <2>2, <3>1, <3>2
  <2>4. CASE s \in Registered /\ Len(queue[s]) = QueueCap
    <3>1. queue'[s] = queue[s] /\ dropped'[s] = dropped[s] \cup tick
      <4>1. TrySend(queue[s], frame) = queue[s]
        BY <1>2, <2>1, <2>4, TrySendAppends
      <4> QED BY <1>1, <2>4, <4>1
    <3>2. Queued(s)' = Queued(s)
      BY <3>1 DEF Queued
    <3>3. tick \cap (seen[s] \cup Queued(s)) = {}
      BY <1>2, <1>3, <2>2
    <3> QED BY <1>1, <2>2, <3>1, <3>2, <3>3
  <2>5. CASE s \in Registered /\ Len(queue[s]) # QueueCap
    <3>1. queue'[s] = TrySend(queue[s], frame) /\ dropped'[s] = dropped[s]
      BY <1>1, <2>5
    <3>2. \A i \in DOMAIN queue'[s] :
             \/ i \in DOMAIN queue[s] /\ queue'[s][i] = queue[s][i]
             \/ i = Len(queue[s]) + 1 /\ queue'[s][i] = frame
      BY <1>2, <2>1, <3>1, TrySendAppends
    <3>3. Queued(s)' \subseteq Queued(s) \cup {frame}
      BY <3>2 DEF Queued
    <3>4. frame = Announcement \/ frame \notin Queued(s) \cup seen[s] \cup dropped[s]
      BY <1>2, <2>2
    <3>5. Announcement \notin seen[s] \cup dropped[s]
      BY <2>1 DEF Ticks, Announcement
    <3>6. ASSUME NEW i \in DOMAIN queue'[s], NEW j \in DOMAIN queue'[s],
                 queue'[s][i] = queue'[s][j]
          PROVE  i = j \/ queue'[s][i] = Announcement
      <4>1. \A k \in DOMAIN queue[s] : queue[s][k] \in Queued(s)
        BY DEF Queued
      <4> QED BY <2>2, <3>2, <3>4, <3>6, <4>1
    <3>7. {frame} \subseteq sent' \cup {Announcement}
      BY <1>1, <1>3
    <3> QED BY <1>1, <2>2, <3>1, <3>3, <3>4, <3>5, <3>6, <3>7
  <2> QED BY <2>3, <2>4, <2>5
<1>7. ToldIsSent'
  BY <1>1, <1>6 DEF ToldIsSent
<1>8. ToldOnce'
  <2>1. \A i, j \in DOMAIN log' : log'[i] = log'[j] => i = j
    BY <1>1 DEF OnceInv, ToldOnce
  <2> QED BY <1>1, <1>6, <2>1 DEF ToldOnce
<1> QED BY <1>4, <1>5, <1>7, <1>8 DEF OnceInv

(* What a handler takes from its channel is then seen, and no longer there.  *)
LEMMA ReceivesOnce ==
    ASSUME StreamInv, OnceInv, NEW s \in Subscribers, Receives(s)
    PROVE  ToldIsSent' /\ ToldOnce'
<1> DEFINE head == Head(queue[s])
           told == {head} \ {Announcement}
<1>1. /\ seen' = [seen EXCEPT ![s] = @ \cup told]
      /\ queue' = [queue EXCEPT ![s] = Tail(@)]
      /\ UNCHANGED <<log, dropped, sent>> /\ queue[s] # << >>
  BY DEF Receives
<1>2. /\ queue \in [Subscribers -> Seq(Frame)] /\ seen \in [Subscribers -> SUBSET Ticks]
      /\ queue[s] \in Seq(Frame) /\ dropped[s] \subseteq Ticks
  BY DEF StreamInv, TypeOK
<1>3. /\ Tail(queue[s]) \in Seq(Frame) /\ Len(Tail(queue[s])) = Len(queue[s]) - 1
      /\ \A i \in 1 .. Len(Tail(queue[s])) : Tail(queue[s])[i] = queue[s][i + 1]
  BY <1>1, <1>2, HeadTailProperties
<1>4. head = queue[s][1]
  OBVIOUS
<1> HIDE DEF head
<1>5. queue'[s] = Tail(queue[s]) /\ seen'[s] = seen[s] \cup told
  BY <1>1, <1>2
<1>6. \A t \in Subscribers \ {s} : queue'[t] = queue[t] /\ seen'[t] = seen[t]
  BY <1>1, <1>2
<1>7. /\ Len(queue[s]) \in Nat /\ Len(queue[s]) # 0 /\ DOMAIN queue[s] = 1 .. Len(queue[s])
      /\ DOMAIN queue'[s] = 1 .. Len(queue[s]) - 1
  BY <1>1, <1>2, <1>3, <1>5, LenProperties, EmptySeq
<1>8. \A i \in DOMAIN queue'[s] : /\ i \in Nat /\ i + 1 \in DOMAIN queue[s] /\ i + 1 # 1
                                  /\ queue'[s][i] = queue[s][i + 1]
  BY <1>3, <1>5, <1>7
<1>9. 1 \in DOMAIN queue[s]
  BY <1>7
<1>10. \A i, j \in DOMAIN queue[s] :
          queue[s][i] = queue[s][j] => i = j \/ queue[s][i] = Announcement
  BY DEF OnceInv, ToldOnce
<1>11. Queued(s)' \subseteq Queued(s) /\ head \in Queued(s)
  BY <1>4, <1>8, <1>9 DEF Queued
<1>12. told \cap Queued(s)' = {}
  <2> SUFFICES ASSUME NEW i \in DOMAIN queue'[s], queue'[s][i] = head, head # Announcement
               PROVE  FALSE
    BY DEF Queued, told
  <2> QED BY <1>4, <1>8, <1>9, <1>10
<1>13. told \subseteq Queued(s)
  BY <1>11 DEF told
<1> HIDE DEF told
<1>14. ASSUME NEW i \in DOMAIN queue'[s], NEW j \in DOMAIN queue'[s], queue'[s][i] = queue'[s][j]
       PROVE  i = j \/ queue'[s][i] = Announcement
  <2>1. i + 1 = j + 1 \/ queue[s][i + 1] = Announcement
    BY <1>8, <1>10, <1>14
  <2>2. i \in Nat /\ j \in Nat /\ queue'[s][i] = queue[s][i + 1]
    BY <1>8
  <2> QED BY <2>1, <2>2
<1>15. /\ Queued(s) \cup seen[s] \cup dropped[s] \subseteq sent \cup {Announcement}
       /\ seen[s] \cap Queued(s) = {}
       /\ dropped[s] \cap (seen[s] \cup Queued(s)) = {}
  BY DEF OnceInv, ToldIsSent, ToldOnce
<1>16. /\ Queued(s)' \cup seen'[s] \cup dropped'[s] \subseteq sent' \cup {Announcement}
       /\ seen'[s] \cap Queued(s)' = {}
       /\ dropped'[s] \cap (seen'[s] \cup Queued(s)') = {}
  BY <1>1, <1>5, <1>11, <1>12, <1>13, <1>15
<1>17. \A t \in Subscribers \ {s} : Queued(t)' = Queued(t)
  BY <1>6 DEF Queued
<1>18. ToldIsSent'
  <2>1. ASSUME NEW t \in Subscribers \ {s}
        PROVE  Queued(t)' \cup seen'[t] \cup dropped'[t] \subseteq sent' \cup {Announcement}
    BY <1>1, <1>6, <1>17 DEF OnceInv, ToldIsSent
  <2> QED BY <1>16, <2>1 DEF ToldIsSent
<1>19. ToldOnce'
  <2>1. \A i, j \in DOMAIN log' : log'[i] = log'[j] => i = j
    BY <1>1 DEF OnceInv, ToldOnce
  <2>2. ASSUME NEW t \in Subscribers \ {s}
        PROVE  /\ \A i, j \in DOMAIN queue'[t] :
                     queue'[t][i] = queue'[t][j] => i = j \/ queue'[t][i] = Announcement
               /\ seen'[t] \cap Queued(t)' = {}
               /\ dropped'[t] \cap (seen'[t] \cup Queued(t)') = {}
    BY <1>1, <1>6, <1>17 DEF OnceInv, ToldOnce
  <2> QED BY <1>14, <1>16, <2>1, <2>2 DEF ToldOnce
<1> QED BY <1>18, <1>19

(* Every other step of a handler tells nothing, or forgets all. *)
LEMMA HandlesOnce ==
    ASSUME StreamInv, OnceInv, NEW s \in Subscribers,
           Registers(s) \/ TakesSnapshot(s) \/ Written(s) \/ Receives(s)
           \/ HangsUp(s) \/ TakesDone(s) \/ Leaves(s)
    PROVE  OnceInv'
<1>1. UNCHANGED <<plant, delivery, log, sent>>
  BY DEF Registers, TakesSnapshot, Written, Receives, HangsUp, TakesDone, Leaves
<1>2. FramesApart' /\ LogRunsBehind'
  BY <1>1 DEF OnceInv, FramesApart, LogRunsBehind, InLog
<1>3. CASE Receives(s)
  BY <1>2, <1>3, ReceivesOnce DEF OnceInv
<1>4. CASE Leaves(s)
  <2>1. /\ queue'[s] = << >> /\ seen'[s] = {} /\ dropped'[s] = {}
        /\ \A t \in Subscribers \ {s} :
              queue'[t] = queue[t] /\ seen'[t] = seen[t] /\ dropped'[t] = dropped[t]
    BY <1>4 DEF Leaves, StreamInv, TypeOK
  <2>2. Queued(s)' = {} /\ DOMAIN queue'[s] = {}
    BY <2>1 DEF Queued
  <2>3. \A t \in Subscribers \ {s} : Queued(t)' = Queued(t)
    BY <2>1 DEF Queued
  <2>4. ToldIsSent'
    BY <1>1, <2>1, <2>2, <2>3 DEF OnceInv, ToldIsSent
  <2>5. ToldOnce'
    BY <1>1, <2>1, <2>2, <2>3 DEF OnceInv, ToldOnce
  <2> QED BY <1>2, <2>4, <2>5 DEF OnceInv
<1>5. CASE Registers(s) \/ TakesSnapshot(s) \/ Written(s) \/ HangsUp(s) \/ TakesDone(s)
  <2>1. UNCHANGED <<queue, seen, dropped>>
    BY <1>5 DEF Registers, TakesSnapshot, Written, HangsUp, TakesDone
  <2> QED BY <1>1, <1>2, <2>1 DEF OnceInv, ToldIsSent, ToldOnce, Queued
<1> QED BY <1>3, <1>4, <1>5

(* The publish switch and the readers of the log tell nothing. *)
LEMMA OthersOnce ==
    ASSUME OnceInv,
           \/ \E on \in BOOLEAN : fleetConfig(on)
           \/ \E r \in Readers : fleetEvents(r) \/ fleetEventsSent(r)
           \/ UNCHANGED streamVars
    PROVE  OnceInv'
<1>1. UNCHANGED <<plant, delivery, log, streams, sent>>
  BY DEF fleetConfig, fleetEvents, fleetEventsSent, streamVars
<1>2. UNCHANGED <<queue, seen, dropped>>
  BY <1>1 DEF streams
<1> QED BY <1>1, <1>2
        DEF OnceInv, FramesApart, ToldIsSent, LogRunsBehind, InLog, ToldOnce, Queued

(* Nothing has been told at the start. *)
LEMMA InitOnceInv == StreamInit => OnceInv
<1> SUFFICES ASSUME StreamInit PROVE OnceInv
  OBVIOUS
<1>1. \A d \in Deliverers : delivery[d].frame = Announcement
  BY DEF StreamInit, Idle
<1>2. InLog = {} /\ DOMAIN log = {}
  BY DEF StreamInit, InLog
<1>3. \A s \in Subscribers : Queued(s) = {} /\ DOMAIN queue[s] = {}
  BY DEF StreamInit, Queued
<1> QED BY <1>1, <1>2, <1>3
        DEF StreamInit, OnceInv, FramesApart, ToldIsSent, LogRunsBehind, ToldOnce

(* Every step keeps the invariant. *)
LEMMA NextOnceInv == StreamInv /\ OnceInv /\ [StreamNext]_streamVars => OnceInv'
BY TicksOnce, AppendsOnce, AdvancesOnce, BroadcastsOnce, HandlesOnce, OthersOnce DEF StreamNext

(* OnceInv holds throughout. *)
LEMMA OnceInvariant == StreamSpec => []OnceInv
BY InitOnceInv, NextOnceInv, StreamInvariant, PTL DEF StreamSpec

(* No event is in the log twice, and no browser is told of a step twice,     *)
(* whatever deliveries overlap (processFleetTick: one append per event and   *)
(* one broadcast per tick; start and stop broadcast no step).                *)
THEOREM NothingIsToldTwice == StreamSpec => []ToldOnce
<1>1. OnceInv => ToldOnce
  BY DEF OnceInv
<1> QED BY OnceInvariant, <1>1, PTL

--------------------------------------------------------------------------------
(* EventStream: what is stored is written to only before it is told *)

(* Only a simulator that does not copy publishes the map that is in the log. *)
SharedIsUncopied == \A d \in shared : ~copies

(* The only step that adds to a map in the log is publishSimEvent, of a      *)
(* thread that shares it.                                                    *)
LEMMA OnlyPublishActs ==
    ASSUME [StreamNext]_streamVars, NEW e \in acted' \ acted
    PROVE  \E d \in shared : d \in Deliverers /\ e = Current(d)
<1>1. ASSUME NEW d \in Deliverers, publishSimEvent(d)
      PROVE  \E c \in shared : c \in Deliverers /\ e = Current(c)
  BY <1>1 DEF publishSimEvent
<1>2. ASSUME acted' = acted PROVE FALSE
  BY <1>2
<1>3. ASSUME NEW d \in Deliverers,
             \/ PlantTicks(d) \/ Announces(d) \/ appendFleetEvent(d) \/ ChecksPublish(d)
             \/ TakesExtra(d) \/ broadcastFleet(d)
      PROVE  acted' = acted
  BY <1>3 DEF PlantTicks, Announces, appendFleetEvent, ChecksPublish, TakesExtra,
              broadcastFleet, maps
<1>4. ASSUME NEW s \in Subscribers,
             \/ Registers(s) \/ TakesSnapshot(s) \/ Written(s) \/ Receives(s)
             \/ HangsUp(s) \/ TakesDone(s) \/ Leaves(s)
      PROVE  acted' = acted
  BY <1>4 DEF Registers, TakesSnapshot, Written, Receives, HangsUp, TakesDone, Leaves, maps
<1>5. ASSUME \/ \E on \in BOOLEAN : fleetConfig(on)
             \/ \E r \in Readers : fleetEvents(r) \/ fleetEventsSent(r)
             \/ UNCHANGED streamVars
      PROVE  acted' = acted
  BY <1>5 DEF fleetConfig, fleetEvents, fleetEventsSent, streamVars, maps
<1> QED BY <1>1, <1>2, <1>3, <1>4, <1>5 DEF StreamNext

(* A thread shares the map of its event in TakesExtra alone, and only where  *)
(* the code makes no copy.                                                   *)
LEMMA NextUncopied == SharedIsUncopied /\ [StreamNext]_streamVars => SharedIsUncopied'
<1> SUFFICES ASSUME SharedIsUncopied, [StreamNext]_streamVars PROVE SharedIsUncopied'
  OBVIOUS
<1>1. ASSUME copies' = copies, shared' \subseteq shared PROVE SharedIsUncopied'
  BY <1>1 DEF SharedIsUncopied
<1>2. ASSUME NEW d \in Deliverers, TakesExtra(d) PROVE SharedIsUncopied'
  BY <1>2 DEF TakesExtra, SharedIsUncopied
<1>3. ASSUME NEW d \in Deliverers,
             \/ PlantTicks(d) \/ Announces(d) \/ appendFleetEvent(d) \/ ChecksPublish(d)
             \/ publishSimEvent(d) \/ broadcastFleet(d)
      PROVE  copies' = copies /\ shared' \subseteq shared
  BY <1>3 DEF PlantTicks, Announces, appendFleetEvent, ChecksPublish, publishSimEvent,
              broadcastFleet, maps
<1>4. ASSUME NEW s \in Subscribers,
             \/ Registers(s) \/ TakesSnapshot(s) \/ Written(s) \/ Receives(s)
             \/ HangsUp(s) \/ TakesDone(s) \/ Leaves(s)
      PROVE  copies' = copies /\ shared' \subseteq shared
  BY <1>4 DEF Registers, TakesSnapshot, Written, Receives, HangsUp, TakesDone, Leaves, maps
<1>5. ASSUME \/ \E on \in BOOLEAN : fleetConfig(on)
             \/ \E r \in Readers : fleetEvents(r) \/ fleetEventsSent(r)
             \/ UNCHANGED streamVars
      PROVE  copies' = copies /\ shared' \subseteq shared
  BY <1>5 DEF fleetConfig, fleetEvents, fleetEventsSent, streamVars, maps
<1> QED BY <1>1, <1>2, <1>3, <1>4, <1>5 DEF StreamNext

(* An event that is in the log is written to by no simulator that copies,    *)
(* and by fire-water only before its step is broadcast, whatever deliveries  *)
(* overlap and whoever reads the log (publishSimEvent, publishFW,            *)
(* onFirewaterTick: each event is published before the broadcast).           *)
THEOREM StoredStands == StreamSpec => StoredStandsOnceTold
<1>1. StreamInit => SharedIsUncopied
  BY DEF StreamInit, SharedIsUncopied
<1>2. StreamSpec => []SharedIsUncopied
  BY <1>1, NextUncopied, PTL DEF StreamSpec
<1>3. OnceInv /\ SharedIsUncopied /\ [StreamNext]_streamVars
         => [\A e \in acted' \ acted : ~copies /\ e.tick \notin sent]_streamVars
  <2> SUFFICES ASSUME OnceInv, SharedIsUncopied, [StreamNext]_streamVars,
                      NEW e \in acted' \ acted
               PROVE  ~copies /\ e.tick \notin sent
    OBVIOUS
  <2>1. PICK d \in shared : d \in Deliverers /\ e = Current(d)
    BY OnlyPublishActs
  <2>2. e.tick = delivery[d].frame
    BY <2>1 DEF Current
  <2> QED BY <2>1, <2>2 DEF OnceInv, FramesApart, SharedIsUncopied
<1> QED BY OnceInvariant, <1>2, <1>3, PTL DEF StreamSpec, StoredStandsOnceTold

--------------------------------------------------------------------------------
(* Publisher *)

(* What the variables hold; a key that has left the process is the one that  *)
(* the event was given when its bytes were built.                            *)
PublishTypes ==
    /\ conf \in Config
    /\ saved \in Config \cup {None}
    /\ put \in [pc : PutPC, body : Request]
    /\ pub \in [Events -> [pc : PubPC, url : Gateways \cup {Unset}]]
    /\ accepted \cup applied \subseteq {Key(e, 1) : e \in Events}

(* A publish is ok only with its key accepted or applied. *)
OkIsHeld == \A e \in Events : pub[e].pc = "ok" => Key(e, 1) \in accepted \cup applied

PublishInv == PublishTypes /\ OkIsHeld /\ ConfigSurvives

--------------------------------------------------------------------------------
(* Publisher: settings *)

(* An overlay of settings that can be stored can be stored. *)
LEMMA OverlaidIsConfig ==
    ASSUME NEW old \in Config, NEW body \in Request
    PROVE  Overlaid(old, body) \in Config
BY PublisherAssumption DEF Overlaid, WithGateway, WithRelay, Config, Request

(* The environment and the empty request are of their kinds; no settings that *)
(* are saved are empty.                                                       *)
LEMMA EnvIsConfig == Env \in Config /\ None \in Request /\ None \notin Config
BY PublisherAssumption DEF Env, None, Config, Request

(* Settings are a request as well. *)
LEMMA ConfigIsRequest == Config \subseteq Request
BY DEF Config, Request

(* A start finds settings that can be stored, whatever file there is. *)
LEMMA LoadedIsConfig ==
    ASSUME NEW file \in Config \cup {None}
    PROVE  Loaded(file) \in Config
BY EnvIsConfig, ConfigIsRequest, OverlaidIsConfig DEF Loaded

(* Saved settings hide the environment: Relay's URL is never empty in them,  *)
(* and the gateway's is taken even when it is.                               *)
LEMMA SavedIsLoaded ==
    ASSUME NEW c \in Config
    PROVE  Loaded(c) = c
<1>1. c # None /\ c.relay # Unset
  BY EnvIsConfig, PublisherAssumption DEF Config
<1>2. Loaded(c) = [gateway |-> c.gateway, relay |-> c.relay]
  BY <1>1 DEF Loaded, Overlaid, WithGateway, WithRelay, Env
<1>3. QED
  BY <1>2 DEF Config

--------------------------------------------------------------------------------
(* Publisher: the invariant *)

(* At the start settings are the environment's and nothing is published. *)
LEMMA InitPublishInv == Init => PublishInv
<1> SUFFICES ASSUME Init PROVE PublishInv
  OBVIOUS
<1>1. PublishTypes
  BY EnvIsConfig DEF Init, PublishTypes, PutPC, PubPC
<1>2. OkIsHeld
  BY DEF Init, OkIsHeld
<1>3. ConfigSurvives
  BY DEF Init, ConfigSurvives, Loaded
<1>4. QED
  BY <1>1, <1>2, <1>3 DEF PublishInv

(* A change of the settings, or a restart, leaves what was published alone.  *)
LEMMA SettingsKeep ==
    ASSUME PublishInv,
           \/ \E body \in Request : putAdminConfig(body)
           \/ AppliesGateway
           \/ AppliesRelay
           \/ persistConfigLocked
    PROVE  PublishInv'
<1> USE DEF PublishInv
<1>1. ASSUME NEW body \in Request, putAdminConfig(body) PROVE PublishInv'
  BY <1>1 DEF putAdminConfig, PublishTypes, OkIsHeld, ConfigSurvives, PutPC, world
<1>2. CASE AppliesGateway
  BY <1>2 DEF AppliesGateway, PublishTypes, OkIsHeld, ConfigSurvives, PutPC, world,
              WithGateway, Config, Request
<1>3. CASE AppliesRelay
  <2>1. conf' \in Config
    BY <1>3 DEF AppliesRelay, PublishTypes, WithRelay, Config, Request
  <2>2. QED
    BY <1>3, <2>1 DEF AppliesRelay, PublishTypes, OkIsHeld, ConfigSurvives, PutPC, world
<1>4. CASE persistConfigLocked
  <2>1. PublishTypes' /\ OkIsHeld'
    BY <1>4, EnvIsConfig DEF persistConfigLocked, PublishTypes, OkIsHeld, PutPC, world
  <2>2. ConfigSurvives'
    <3>1. CASE saved' = conf
      BY <1>4, <3>1, SavedIsLoaded DEF persistConfigLocked, PublishTypes, ConfigSurvives
    <3>2. CASE answer' = "500"
      BY <3>2 DEF ConfigSurvives
    <3>3. QED
      BY <1>4, <3>1, <3>2 DEF persistConfigLocked
  <2>3. QED
    BY <2>1, <2>2
<1>5. QED
  BY <1>1, <1>2, <1>3, <1>4

(* A restart comes back with what is saved, whether or not the rename of a   *)
(* PUT under way was done, and forgets the publishes under way.              *)
LEMMA RestartKeeps ==
    ASSUME PublishInv, Restart
    PROVE  PublishInv'
<1> USE DEF PublishInv
<1>1. saved' \in Config \cup {None}
  BY DEF Restart, PublishTypes
<1>2. conf' \in Config
  BY <1>1, LoadedIsConfig DEF Restart
<1>3. pub' \in [Events -> [pc : PubPC, url : Gateways \cup {Unset}]]
  BY DEF Restart, PublishTypes, PubPC
<1>4. PublishTypes'
  BY <1>1, <1>2, <1>3, EnvIsConfig DEF Restart, PublishTypes, PutPC, world
<1>5. OkIsHeld'
  <2> SUFFICES ASSUME NEW e \in Events, pub'[e].pc = "ok"
               PROVE  Key(e, 1) \in (accepted \cup applied)'
    BY DEF OkIsHeld, Key
  <2>1. pub[e].pc = "ok"
    BY DEF Restart, PublishTypes
  <2>2. QED
    BY <2>1 DEF OkIsHeld, Restart, world
<1>6. ConfigSurvives'
  BY DEF Restart, ConfigSurvives, Loaded
<1>7. QED
  BY <1>4, <1>5, <1>6

(* A step of a publish adds at most its own key, and has added it, or found  *)
(* it added, where it ends well.                                             *)
LEMMA PublishKeeps ==
    ASSUME PublishInv, NEW e \in Events,
           \/ PublishEventType(e) \/ publishViaGateway(e)
           \/ doGatewayPublish(e) \/ GatewayPublishFails(e)
           \/ ensureGatewayTopic(e) \/ EnsureFails(e)
           \/ publishDirect(e) \/ DirectFails(e)
    PROVE  PublishInv'
<1> USE DEF PublishInv
<1>1. CASE PublishEventType(e)
  BY <1>1 DEF PublishEventType, Goes, PublishTypes, OkIsHeld, ConfigSurvives, PubPC, admin, world
<1>2. CASE publishViaGateway(e)
  BY <1>2 DEF publishViaGateway, PublishTypes, OkIsHeld, ConfigSurvives, PubPC, Config, admin, world
<1>3. CASE doGatewayPublish(e)
  BY <1>3 DEF doGatewayPublish, Goes, Key, PublishTypes, OkIsHeld, ConfigSurvives, PubPC, admin
<1>4. CASE GatewayPublishFails(e)
  BY <1>4 DEF GatewayPublishFails, Goes, Key, PublishTypes, OkIsHeld, ConfigSurvives, PubPC, admin
<1>5. CASE ensureGatewayTopic(e)
  BY <1>5 DEF ensureGatewayTopic, Goes, PublishTypes, OkIsHeld, ConfigSurvives, PubPC, admin
<1>6. CASE EnsureFails(e)
  BY <1>6 DEF EnsureFails, Goes, PublishTypes, OkIsHeld, ConfigSurvives, PubPC, admin
<1>7. CASE publishDirect(e)
  BY <1>7 DEF publishDirect, Goes, Key, PublishTypes, OkIsHeld, ConfigSurvives, PubPC, admin
<1>8. CASE DirectFails(e)
  BY <1>8 DEF DirectFails, Goes, Key, PublishTypes, OkIsHeld, ConfigSurvives, PubPC, admin
<1>9. QED
  BY <1>1, <1>2, <1>3, <1>4, <1>5, <1>6, <1>7, <1>8

(* A gateway hands on only what it has accepted. *)
LEMMA ForwardKeeps ==
    ASSUME PublishInv, NEW k \in Keys, Forward(k)
    PROVE  PublishInv'
BY DEF PublishInv, Forward, PublishTypes, OkIsHeld, ConfigSurvives, admin

(* Every step keeps the invariant. *)
LEMMA NextPublishInv == PublishInv /\ [Next]_vars => PublishInv'
<1> SUFFICES ASSUME PublishInv, [Next]_vars PROVE PublishInv'
  OBVIOUS
<1>1. CASE Next
  BY <1>1, SettingsKeep, RestartKeeps, PublishKeeps, ForwardKeeps DEF Next
<1>2. CASE UNCHANGED vars
  BY <1>2 DEF vars, admin, world, PublishInv, PublishTypes, OkIsHeld, ConfigSurvives
<1>3. QED
  BY <1>1, <1>2

(* The invariant implies the property: what Relay and the gateways hold of   *)
(* an event is nothing or its one key.                                       *)
LEMMA OnceFromInv == PublishInv => PublishedOnce
<1> SUFFICES ASSUME PublishInv, NEW e \in Events
             PROVE  /\ Cardinality(Held(e)) <= 1
                    /\ pub[e].pc = "ok" => Held(e) # {}
  BY DEF PublishedOnce
<1>1. Held(e) \subseteq {Key(e, 1)}
  BY DEF PublishInv, PublishTypes, Held, Key
<1>2. Cardinality({Key(e, 1)}) = 1 /\ IsFiniteSet({Key(e, 1)})
  BY FS_Singleton
<1>3. Cardinality(Held(e)) <= 1
  BY <1>1, <1>2, FS_Subset
<1>4. ASSUME pub[e].pc = "ok" PROVE Held(e) # {}
  <2>1. Key(e, 1) \in accepted \cup applied
    BY <1>4 DEF PublishInv, OkIsHeld
  <2>2. Key(e, 1) \in Held(e)
    BY <2>1 DEF Held, Key
  <2>3. QED
    BY <2>2
<1>5. QED
  BY <1>3, <1>4

(* The invariant of settings and publishes (putAdminConfig, main,            *)
(* PublishEventType).                                                        *)
THEOREM PublishInvariant == Spec => []PublishInv
BY InitPublishInv, NextPublishInv, PTL DEF Spec

--------------------------------------------------------------------------------

(* Relay gets an event under one key at most, and a publish that reported    *)
(* success is with it or a gateway: whatever answers are lost, topics        *)
(* missing, settings changed and restarts made (PublishEventType).           *)
THEOREM PublishedAtMostOnce == Spec => []PublishedOnce
BY PublishInvariant, OnceFromInv, PTL

(* Settings answered with 200 are what a restart comes back with, for every  *)
(* environment, a cleared gateway included (putAdminConfig,                  *)
(* LoadRuntimeConfig).                                                       *)
THEOREM ConfigAlwaysSurvives == Spec => []ConfigSurvives
<1>1. PublishInv => ConfigSurvives
  BY DEF PublishInv
<1>2. QED
  BY PublishInvariant, <1>1, PTL

--------------------------------------------------------------------------------
(* Publisher: the refinement of EventDelivery *)

(* What EventDelivery sees of an event. *)
Outcome(e) == IF pub[e].pc \in {"ok", "failed"} THEN pub[e].pc ELSE "open"
IsHeld(e) == Key(e, 1) \in accepted \cup applied
Effect(e) == IF Key(e, 1) \in applied THEN 1 ELSE 0

(* Of keys that are each the one of their event, an event has one or none.   *)
LEMMA OneKeyEach ==
    ASSUME NEW keys \in SUBSET {Key(f, 1) : f \in Events}, NEW e \in Events
    PROVE  /\ {k \in keys : k[1] = e} # {} <=> Key(e, 1) \in keys
           /\ Cardinality({k \in keys : k[1] = e}) = IF Key(e, 1) \in keys THEN 1 ELSE 0
<1> DEFINE own == {k \in keys : k[1] = e}
<1>1. own \subseteq {Key(e, 1)}
  BY DEF Key
<1>2. Key(e, 1) \in own <=> Key(e, 1) \in keys
  BY DEF Key
<1> HIDE DEF own
<1>3. CASE Key(e, 1) \in keys
  <2>1. own = {Key(e, 1)}
    BY <1>1, <1>2, <1>3
  <2> QED BY <1>3, <2>1, FS_Singleton DEF own
<1>4. CASE Key(e, 1) \notin keys
  <2>1. own = {}
    BY <1>1, <1>2, <1>4
  <2> QED BY <1>4, <2>1, FS_EmptySet DEF own
<1> QED BY <1>3, <1>4

(* A step that concerns one event, lets no key out but its own and leaves an *)
(* outcome as it is once there is one, is a step of EventDelivery.           *)
LEMMA DeliveryStep ==
    ASSUME PublishInv, PublishInv', NEW e \in Events,
           accepted \subseteq accepted', accepted' \subseteq accepted \cup {Key(e, 1)},
           applied \subseteq applied', applied' \subseteq applied \cup {Key(e, 1)},
           \A f \in Events \ {e} : pub'[f] = pub[f],
           pub'[e] = pub[e] \/ pub[e].pc \notin {"ok", "failed"}
    PROVE  Promise!Deliver(e)
<1>1. PublishTypes /\ PublishTypes' /\ OkIsHeld'
  BY DEF PublishInv
<1>2. \A f \in Events \ {e} : Key(f, 1) # Key(e, 1)
  BY DEF Key
<1>3. \A f \in Events \ {e} : /\ IsHeld(f)' <=> IsHeld(f)
                              /\ Effect(f)' = Effect(f)
                              /\ Outcome(f)' = Outcome(f)
  BY <1>2 DEF IsHeld, Effect, Outcome, Key
<1>4. IsHeld(e) => IsHeld(e)'
  BY DEF IsHeld, Key
<1>5. Effect(e)' = Effect(e) \/ (Effect(e) = 0 /\ Effect(e)' = 1 /\ IsHeld(e)')
  BY DEF IsHeld, Effect, Key
<1>6. \/ Outcome(e)' = Outcome(e)
      \/ /\ Outcome(e) = "open" /\ Outcome(e)' \in {"ok", "failed"}
         /\ Outcome(e)' = "ok" => IsHeld(e)'
  BY <1>1 DEF OkIsHeld, Outcome, IsHeld
<1> DEFINE held == {f \in Events : IsHeld(f)}
           effects == [f \in Events |-> Effect(f)]
           outcome == [f \in Events |-> Outcome(f)]
<1>7. held' \in {held, held \cup {e}}
  BY <1>3, <1>4
<1>8. e \in held' <=> IsHeld(e)'
  OBVIOUS
<1>9. effects' = effects \/ (e \in held' /\ effects[e] = 0 /\ effects' = [effects EXCEPT ![e] = 1])
  BY <1>3, <1>5
<1>10. \/ outcome' = outcome
       \/ \E result \in {"ok", "failed"} :
             /\ outcome[e] = "open"
             /\ result = "ok" => e \in held'
             /\ outcome' = [outcome EXCEPT ![e] = result]
  BY <1>3, <1>6
<1>11. {f \in Events : Held(f) # {}} = held /\ {f \in Events : Held(f) # {}}' = held'
  <2>1. accepted \cup applied \subseteq {Key(f, 1) : f \in Events}
    BY <1>1 DEF PublishTypes
  <2>2. accepted' \cup applied' \subseteq {Key(f, 1) : f \in Events}
    BY <1>1 DEF PublishTypes, Key
  <2>3. ASSUME NEW f \in Events
        PROVE  (Held(f) # {} <=> IsHeld(f)) /\ (Held(f)' # {} <=> IsHeld(f)')
    <3>1. Held(f) # {} <=> IsHeld(f)
      BY <2>1, OneKeyEach DEF Held, IsHeld
    <3>2. {k \in accepted' \cup applied' : k[1] = f} # {} <=> Key(f, 1) \in accepted' \cup applied'
      BY <2>2, OneKeyEach
    <3> QED BY <3>1, <3>2 DEF Held, IsHeld, Key
  <2> QED BY <2>3
<1>12. /\ [f \in Events |-> Cardinality({k \in applied : k[1] = f})] = effects
       /\ [f \in Events |-> Cardinality({k \in applied : k[1] = f})]' = effects'
  <2>1. applied \subseteq {Key(f, 1) : f \in Events}
    BY <1>1 DEF PublishTypes
  <2>2. applied' \subseteq {Key(f, 1) : f \in Events}
    BY <1>1 DEF PublishTypes, Key
  <2>3. ASSUME NEW f \in Events
        PROVE  /\ Cardinality({k \in applied : k[1] = f}) = Effect(f)
               /\ Cardinality({k \in applied' : k[1] = f}) = Effect(f)'
    <3>1. Cardinality({k \in applied : k[1] = f}) = Effect(f)
      BY <2>1, OneKeyEach DEF Effect
    <3>2. Cardinality({k \in applied' : k[1] = f}) = IF Key(f, 1) \in applied' THEN 1 ELSE 0
      BY <2>2, OneKeyEach
    <3> QED BY <3>1, <3>2 DEF Effect, Key
  <2> QED BY <2>3
<1>13. [f \in Events |-> IF pub[f].pc \in {"ok", "failed"} THEN pub[f].pc ELSE "open"] = outcome
  BY DEF Outcome
<1>14. [f \in Events |-> IF pub[f].pc \in {"ok", "failed"} THEN pub[f].pc ELSE "open"]' = outcome'
  BY DEF Outcome
<1> HIDE DEF held, effects, outcome
<1> QED BY <1>7, <1>9, <1>10, <1>11, <1>12, <1>13, <1>14
        DEF Promise!Deliver, Promise!Arrives, Promise!Applies, Promise!Ends

(* No step of a publish is taken after it has ended, and none lets out a     *)
(* key of another event.                                                     *)
LEMMA PublishDelivers ==
    ASSUME PublishInv, PublishInv', NEW e \in Events,
           \/ PublishEventType(e) \/ publishViaGateway(e)
           \/ doGatewayPublish(e) \/ GatewayPublishFails(e)
           \/ ensureGatewayTopic(e) \/ EnsureFails(e)
           \/ publishDirect(e) \/ DirectFails(e)
    PROVE  Promise!Deliver(e)
<1>1. pub \in [Events -> [pc : PubPC, url : Gateways \cup {Unset}]]
  BY DEF PublishInv, PublishTypes
<1>2. /\ accepted \subseteq accepted' /\ accepted' \subseteq accepted \cup {Key(e, 1)}
      /\ applied \subseteq applied' /\ applied' \subseteq applied \cup {Key(e, 1)}
  BY DEF PublishEventType, publishViaGateway, doGatewayPublish, GatewayPublishFails,
         ensureGatewayTopic, EnsureFails, publishDirect, DirectFails, Key, world
<1>3. \A f \in Events \ {e} : pub'[f] = pub[f]
  BY <1>1 DEF PublishEventType, publishViaGateway, doGatewayPublish, GatewayPublishFails,
         ensureGatewayTopic, EnsureFails, publishDirect, DirectFails, Goes
<1>4. pub[e].pc \notin {"ok", "failed"}
  BY DEF PublishEventType, publishViaGateway, doGatewayPublish, GatewayPublishFails,
         ensureGatewayTopic, EnsureFails, publishDirect, DirectFails
<1> QED BY <1>2, <1>3, <1>4, DeliveryStep

(* A gateway's delivery to Relay concerns the event whose key it hands on.   *)
LEMMA ForwardDelivers ==
    ASSUME PublishInv, PublishInv', NEW k \in Keys, Forward(k)
    PROVE  \E e \in Events : Promise!Deliver(e)
<1>1. PICK e \in Events : k = Key(e, 1)
  BY DEF Forward, PublishInv, PublishTypes
<1>2. UNCHANGED <<accepted, pub>> /\ applied' = applied \cup {Key(e, 1)}
  BY <1>1 DEF Forward
<1>3. Promise!Deliver(e)
  BY <1>2, DeliveryStep DEF Key
<1> QED BY <1>3

(* A restart fails the publishes under way, and only those; what was handed  *)
(* over stays where it is.                                                   *)
LEMMA RestartCrashes ==
    ASSUME PublishInv, PublishInv', Restart
    PROVE  Promise!Crash
<1> DEFINE outcome == [f \in Events |-> Outcome(f)]
           cut == {f \in Events : pub[f].pc \notin {"new", "ok", "failed"}}
<1>1. pub \in [Events -> [pc : PubPC, url : Gateways \cup {Unset}]]
  BY DEF PublishInv, PublishTypes
<1>2. UNCHANGED <<accepted, applied>>
      /\ pub' = [e \in Events |-> IF pub[e].pc \in {"new", "ok"} THEN pub[e]
                                  ELSE [pub[e] EXCEPT !.pc = "failed"]]
  BY DEF Restart, world
<1>3. \A f \in Events : Outcome(f)' = IF f \in cut THEN "failed" ELSE Outcome(f)
  BY <1>1, <1>2 DEF Outcome
<1>4. outcome' = [f \in Events |-> IF f \in cut THEN "failed" ELSE outcome[f]]
  BY <1>3
<1>5. cut \in SUBSET {f \in Events : outcome[f] = "open"}
  BY DEF Outcome
<1>6. [f \in Events |-> IF pub[f].pc \in {"ok", "failed"} THEN pub[f].pc ELSE "open"] = outcome
  BY DEF Outcome
<1>7. [f \in Events |-> IF pub[f].pc \in {"ok", "failed"} THEN pub[f].pc ELSE "open"]' = outcome'
  BY DEF Outcome
<1>8. {f \in Events : Held(f) # {}}' = {f \in Events : Held(f) # {}}
  BY <1>2 DEF Held
<1>9. [f \in Events |-> Cardinality({k \in applied : k[1] = f})]'
         = [f \in Events |-> Cardinality({k \in applied : k[1] = f})]
  BY <1>2
<1> HIDE DEF outcome, cut
<1>10. \E some \in SUBSET {f \in Events : outcome[f] = "open"} :
          outcome' = [f \in Events |-> IF f \in some THEN "failed" ELSE outcome[f]]
  BY <1>4, <1>5
<1>11. Promise!Crash <=>
         /\ \E some \in SUBSET {f \in Events : outcome[f] = "open"} :
               outcome' = [f \in Events |-> IF f \in some THEN "failed" ELSE outcome[f]]
         /\ UNCHANGED <<{f \in Events : Held(f) # {}},
                        [f \in Events |-> Cardinality({k \in applied : k[1] = f})]>>
  BY Zenon DEF Promise!Crash, outcome, Outcome
<1> QED BY <1>8, <1>9, <1>10, <1>11

(* At the start every outcome is open and nothing has been handed over.      *)
LEMMA InitDelivers == Init => Promise!Init
<1> SUFFICES ASSUME Init PROVE Promise!Init
  OBVIOUS
<1>1. [e \in Events |-> IF pub[e].pc \in {"ok", "failed"} THEN pub[e].pc ELSE "open"]
         = [e \in Events |-> "open"]
  BY DEF Init
<1>2. {e \in Events : Held(e) # {}} = {}
  BY DEF Init, Held
<1>3. [e \in Events |-> Cardinality({k \in applied : k[1] = e})] = [e \in Events |-> 0]
  <2>1. \A e \in Events : {k \in applied : k[1] = e} = {}
    BY DEF Init
  <2> QED BY <2>1, FS_EmptySet
<1> QED BY <1>1, <1>2, <1>3 DEF Promise!Init

(* Every step is one of EventDelivery or concerns the settings only.         *)
LEMMA NextDelivers == PublishInv /\ PublishInv' /\ [Next]_vars => [Promise!Next]_(Promise!vars)
<1> SUFFICES ASSUME PublishInv, PublishInv', [Next]_vars
             PROVE  Promise!Next \/ UNCHANGED Promise!vars
  OBVIOUS
<1>1. CASE \/ \E body \in Request : putAdminConfig(body)
           \/ AppliesGateway \/ AppliesRelay \/ persistConfigLocked
           \/ UNCHANGED vars
  <2>1. UNCHANGED <<pub, accepted, applied>>
    BY <1>1 DEF putAdminConfig, AppliesGateway, AppliesRelay, persistConfigLocked, vars, world
  <2> QED BY <2>1 DEF Promise!vars, Held
<1>2. CASE Restart
  BY <1>2, RestartCrashes DEF Promise!Next
<1>3. ASSUME NEW e \in Events,
             \/ PublishEventType(e) \/ publishViaGateway(e)
             \/ doGatewayPublish(e) \/ GatewayPublishFails(e)
             \/ ensureGatewayTopic(e) \/ EnsureFails(e)
             \/ publishDirect(e) \/ DirectFails(e)
      PROVE  Promise!Next
  BY <1>3, PublishDelivers DEF Promise!Next
<1>4. ASSUME NEW k \in Keys, Forward(k) PROVE Promise!Next
  BY <1>4, ForwardDelivers DEF Promise!Next
<1> QED BY <1>1, <1>2, <1>3, <1>4 DEF Next

(* The publisher implements EventDelivery: across lost answers, repeated     *)
(* posts, changed settings and restarts, an outcome that was reported        *)
(* stands, what was handed over is not lost, and Relay applies an event once *)
(* at most (PublishEventType, publishViaGateway, publishDirect).             *)
THEOREM PublisherKeepsPromise == Spec => KeepsDeliveryPromise
BY InitDelivers, NextDelivers, PublishInvariant, PTL
   DEF Spec, KeepsDeliveryPromise, Promise!Spec

================================================================================
