-------------------------------- MODULE SiteStore ------------------------------
(***************************************************************************)
(* Where things are: sites with their zones (internal/site/store.go, two   *)
(* files under one mutex), devices and contacts (internal/device/store.go, *)
(* internal/contact/store.go, a file and a mutex each), the handlers that  *)
(* edit them (internal/httpapi/sites.go, devices_contacts.go) and the      *)
(* fire-water seed that fills them (internal/firewater/seed.go).           *)
(*                                                                         *)
(* Deleting a site saves two files, one after the other, with the mutex    *)
(* held.  putZone and createDevice look a zone up first and write later.   *)
(* The seed is a sequence of store calls that stops at the first error.    *)
(* The disk may refuse a save, and the process may be killed at any point. *)
(*                                                                         *)
(* Abstractions: of a zone its site and whether it has a verification      *)
(* probe are kept, of a device its zone; names, labels, routing and times  *)
(* are left out; a request refused without any effect is no step; a save   *)
(* replaces a file at one instant (JsonStore); the seed's season is in     *)
(* SeasonLifecycle, and of its devices there is one.                       *)
(***************************************************************************)
EXTENDS Naturals

CONSTANTS
    Sites, Zones, Devices, Contacts,
    SeedSite, SeedZone, SeedDevice, SeedContact,  \* what the seed writes
    Nowhere,     \* no site, no zone: the empty id
    Clients,     \* HTTP requests that can be in progress at once
    MaxFaults    \* bound of the model: failed saves and kills

ASSUME SiteAssumption ==
    /\ SeedSite \in Sites
    /\ SeedZone \in Zones
    /\ SeedDevice \in Devices
    /\ SeedContact \in Contacts
    /\ Nowhere \notin Sites \cup Zones
    /\ MaxFaults \in Nat

VARIABLES
    mem,       \* the maps of the three stores
    disk,      \* their files
    req,       \* req[c]: the HTTP request c
    faults,    \* failed saves and kills so far
    unsaved,   \* history: files whose last save failed or is still to come
    failed,    \* history: a save has failed, now or before a restart
    reloaded,  \* history: the maps were loaded after a save had failed
    asked,     \* history: zones whose probe was set last, not unset
    seeded     \* history: a seed answered 200 and nothing was deleted since it began

vars == <<mem, disk, req, faults, unsaved, failed, reloaded, asked, seeded>>

stores == <<mem, disk, faults, unsaved, failed>>
history == <<reloaded, asked, seeded>>

--------------------------------------------------------------------------------

Zone == [site : Sites, probe : BOOLEAN]
NoZone == [site |-> Nowhere, probe |-> FALSE]

(* One field per file. *)
Store == [sites    : SUBSET Sites,
          zones    : [Zones -> Zone \cup {NoZone}],
          devices  : [Devices -> Zones \cup {Nowhere}],
          contacts : SUBSET Contacts]

Empty == [sites    |-> {},
          zones    |-> [z \in Zones |-> NoZone],
          devices  |-> [d \in Devices |-> Nowhere],
          contacts |-> {}]

Has(store, z) == store.zones[z] # NoZone

ZonesOf(store, s) == {z \in Zones : store.zones[z].site = s}

(* step counts the store calls of a seed; clean: nothing was deleted since   *)
(* it began.                                                                 *)
Request == [op : {"idle", "zone", "device", "delete", "seed"},
            site : Sites \cup {Nowhere}, zone : Zones \cup {Nowhere},
            step : 0 .. 6, clean : BOOLEAN]

Idle == [op |-> "idle", site |-> Nowhere, zone |-> Nowhere, step |-> 0, clean |-> FALSE]

(* site.Store.mu is held over both saves of DeleteSite. *)
Unlocked == \A c \in Clients : req[c].op # "delete"

Init ==
    /\ mem = Empty
    /\ disk = Empty
    /\ req = [c \in Clients |-> Idle]
    /\ faults = 0
    /\ unsaved = {}
    /\ failed = FALSE
    /\ reloaded = FALSE
    /\ asked = {}
    /\ seeded = FALSE

--------------------------------------------------------------------------------
(* Saving *)

Outcome(ok) ==
    /\ failed' = (failed \/ ~ok)
    /\ IF ok THEN UNCHANGED faults
             ELSE faults < MaxFaults /\ faults' = faults + 1

(* A plausible bug: the map is changed and its file never written. *)
SaveNothing(f, m, ok) ==
    /\ mem' = [mem EXCEPT ![f] = m]
    /\ unsaved' = IF ok THEN unsaved \ {f} ELSE unsaved \cup {f}
    /\ Outcome(ok)
    /\ UNCHANGED disk

(* A store call that changes one map and saves its file. *)
Save(f, m, ok) ==
    /\ mem' = [mem EXCEPT ![f] = m]
    /\ disk' = IF ok THEN [disk EXCEPT ![f] = m] ELSE disk
    /\ unsaved' = IF ok THEN unsaved \ {f} ELSE unsaved \cup {f}
    /\ Outcome(ok)

--------------------------------------------------------------------------------
(* Plausible bugs, one per other property a run checks *)

PutZoneUnchecked(z, s, probe, ok) ==
    /\ Unlocked
    /\ Save("zones", [mem.zones EXCEPT ![z] = [site |-> s, probe |-> probe \/ @.probe]], ok)
    /\ asked' = IF probe THEN asked \cup {z} ELSE asked

ProbeForgotten(z, probe) == probe

SitesSavedFirst == <<"sites", "zones">>

(* The seed goes on, and answers 200, whatever its store calls return. *)
SeedErrorIgnored(r, ok) == IF r.step < 6 THEN [r EXCEPT !.step = @ + 1] ELSE Idle

--------------------------------------------------------------------------------
(* The stores' operations *)

PutSite(s, ok) ==
    /\ Unlocked
    /\ Save("sites", mem.sites \cup {s}, ok)
    /\ UNCHANGED asked

(* Of the site only the routing changes; the file is saved like any other.   *)
SetRouting(s, ok) ==
    /\ Unlocked
    /\ s \in mem.sites
    /\ Save("sites", mem.sites, ok)
    /\ UNCHANGED asked

(* A zone written without a probe keeps the one it has. *)
ProbeKept(z, probe) == probe \/ mem.zones[z].probe

PutZone(z, s, probe, ok) ==
    /\ Unlocked
    /\ s \in mem.sites
    /\ Save("zones", [mem.zones EXCEPT ![z] = [site |-> s, probe |-> ProbeKept(z, probe)]], ok)
    /\ asked' = IF probe THEN asked \cup {z} ELSE asked

SetTelemetry(z, probe, ok) ==
    /\ Unlocked
    /\ Has(mem, z)
    /\ Save("zones", [mem.zones EXCEPT ![z].probe = probe], ok)
    /\ asked' = IF probe THEN asked \cup {z} ELSE asked \ {z}

PutDevice(d, z, ok) ==
    /\ Save("devices", [mem.devices EXCEPT ![d] = z], ok)
    /\ UNCHANGED asked

PutContact(k, ok) ==
    /\ Save("contacts", mem.contacts \cup {k}, ok)
    /\ UNCHANGED asked

(* What a deletion means for seeds, done and under way. *)
Disturb ==
    /\ req' = [c \in Clients |-> [req[c] EXCEPT !.clean = FALSE]]
    /\ seeded' = FALSE
    /\ UNCHANGED reloaded

--------------------------------------------------------------------------------
(* Requests that are one store call *)

putSite(s, ok) == PutSite(s, ok) /\ UNCHANGED <<req, reloaded, seeded>>

putSiteRouting(s, ok) == SetRouting(s, ok) /\ UNCHANGED <<req, reloaded, seeded>>

(* createZone, and putZone with a site_id. *)
createZone(z, s, probe, ok) ==
    PutZone(z, s, probe, ok) /\ UNCHANGED <<req, reloaded, seeded>>

putTelemetry(z, probe, ok) ==
    SetTelemetry(z, probe, ok) /\ UNCHANGED <<req, reloaded, seeded>>

(* putDevice does not look for the zone. *)
putDevice(d, z, ok) == PutDevice(d, z, ok) /\ UNCHANGED <<req, reloaded, seeded>>

putContact(k, ok) == PutContact(k, ok) /\ UNCHANGED <<req, reloaded, seeded>>

deleteZone(z, ok) ==
    /\ Unlocked
    /\ Has(mem, z)
    /\ Save("zones", [mem.zones EXCEPT ![z] = NoZone], ok)
    /\ asked' = asked \ {z}
    /\ Disturb

deleteDevice(d, ok) ==
    /\ mem.devices[d] # Nowhere
    /\ Save("devices", [mem.devices EXCEPT ![d] = Nowhere], ok)
    /\ UNCHANGED asked
    /\ Disturb

deleteContact(k, ok) ==
    /\ k \in mem.contacts
    /\ Save("contacts", mem.contacts \ {k}, ok)
    /\ UNCHANGED asked
    /\ Disturb

--------------------------------------------------------------------------------
(* Requests that are several steps *)

(* DeleteSite: both maps, then one file, and when that worked the other.     *)
DeleteOrder == <<"zones", "sites">>

deleteSite(c, s, ok) ==
    /\ req[c].op = "idle" /\ Unlocked /\ s \in mem.sites
    /\ mem' = [mem EXCEPT !.sites = @ \ {s},
                          !.zones = [z \in Zones |-> IF z \in ZonesOf(mem, s) THEN NoZone ELSE @[z]]]
    /\ LET f == DeleteOrder[1] IN
          /\ disk' = IF ok THEN [disk EXCEPT ![f] = mem'[f]] ELSE disk
          /\ unsaved' = (unsaved \cup {"sites", "zones"}) \ (IF ok THEN {f} ELSE {})
    /\ Outcome(ok)
    /\ req' = [i \in Clients |->
                 IF i = c /\ ok THEN [Idle EXCEPT !.op = "delete", !.site = s]
                 ELSE [req[i] EXCEPT !.clean = FALSE]]
    /\ asked' = asked \ ZonesOf(mem, s)
    /\ seeded' = FALSE
    /\ UNCHANGED reloaded

deleteSiteSaves(c, ok) ==
    /\ req[c].op = "delete"
    /\ LET f == DeleteOrder[2] IN Save(f, mem[f], ok)
    /\ req' = [req EXCEPT ![c] = Idle]
    /\ UNCHANGED history

(* putZone without a site_id: the site is the one the zone is found in. *)
putZone(c, z) ==
    /\ req[c].op = "idle" /\ Unlocked /\ Has(mem, z)
    /\ req' = [req EXCEPT ![c] =
                 [Idle EXCEPT !.op = "zone", !.zone = z, !.site = mem.zones[z].site]]
    /\ UNCHANGED <<stores, history>>

putZoneWrites(c, probe, ok) ==
    /\ req[c].op = "zone"
    /\ PutZone(req[c].zone, req[c].site, probe, ok)
    /\ req' = [req EXCEPT ![c] = Idle]
    /\ UNCHANGED <<reloaded, seeded>>

(* createDevice looks for the zone, then writes. *)
createDevice(c, z) ==
    /\ req[c].op = "idle" /\ Unlocked /\ Has(mem, z)
    /\ req' = [req EXCEPT ![c] = [Idle EXCEPT !.op = "device", !.zone = z]]
    /\ UNCHANGED <<stores, history>>

createDeviceWrites(c, d, ok) ==
    /\ req[c].op = "device"
    /\ PutDevice(d, req[c].zone, ok)
    /\ req' = [req EXCEPT ![c] = Idle]
    /\ UNCHANGED <<reloaded, seeded>>

--------------------------------------------------------------------------------
(* The seed *)

fwSeed(c) ==
    /\ req[c].op = "idle"
    /\ req' = [req EXCEPT ![c] = [Idle EXCEPT !.op = "seed", !.step = 1, !.clean = TRUE]]
    /\ UNCHANGED <<stores, history>>

(* The store call of each step. *)
SeedCall(step, ok) ==
    \/ step = 1 /\ PutSite(SeedSite, ok)
    \/ step = 2 /\ PutZone(SeedZone, SeedSite, FALSE, ok)
    \/ step = 3 /\ SetTelemetry(SeedZone, TRUE, ok)
    \/ step = 4 /\ PutContact(SeedContact, ok)
    \/ step = 5 /\ SetRouting(SeedSite, ok)
    \/ step = 6 /\ PutDevice(SeedDevice, SeedZone, ok)

(* The request after a call: the next step, or an answer. *)
SeedNext(r, ok) == IF ok /\ r.step < 6 THEN [r EXCEPT !.step = @ + 1] ELSE Idle

Seed(c, ok) ==
    /\ req[c].op = "seed"
    /\ SeedCall(req[c].step, ok)
    /\ req' = [req EXCEPT ![c] = SeedNext(@, ok)]
    /\ seeded' = (seeded \/ (ok /\ req[c].step = 6 /\ req[c].clean))
    /\ UNCHANGED reloaded

(* The site or the zone was deleted under it, or its season was not saved.   *)
SeedRefused(c) ==
    /\ req[c].op = "seed" /\ Unlocked
    /\ \/ req[c].step \in {2, 5} /\ SeedSite \notin mem.sites
       \/ req[c].step = 3 /\ ~Has(mem, SeedZone)
       \/ req[c].step = 6
    /\ req' = [req EXCEPT ![c] = Idle]
    /\ UNCHANGED <<stores, history>>

--------------------------------------------------------------------------------
(* The process is killed and started again: the stores load their files. *)

Restart ==
    /\ faults < MaxFaults
    /\ faults' = faults + 1
    /\ mem' = disk
    /\ req' = [c \in Clients |-> Idle]
    /\ unsaved' = {}
    /\ reloaded' = failed
    /\ asked' = {z \in Zones : disk.zones[z].probe}
    /\ UNCHANGED <<disk, failed, seeded>>

--------------------------------------------------------------------------------

Next ==
    \/ \E ok \in BOOLEAN :
          \/ \E s \in Sites : putSite(s, ok) \/ putSiteRouting(s, ok)
          \/ \E z \in Zones, s \in Sites, probe \in BOOLEAN : createZone(z, s, probe, ok)
          \/ \E z \in Zones, probe \in BOOLEAN : putTelemetry(z, probe, ok)
          \/ \E z \in Zones : deleteZone(z, ok)
          \/ \E d \in Devices, z \in Zones : putDevice(d, z, ok)
          \/ \E d \in Devices : deleteDevice(d, ok)
          \/ \E k \in Contacts : putContact(k, ok) \/ deleteContact(k, ok)
    \/ \E c \in Clients :
          \/ \E z \in Zones : putZone(c, z) \/ createDevice(c, z)
          \/ fwSeed(c)
          \/ SeedRefused(c)
          \/ \E ok \in BOOLEAN :
                \/ \E s \in Sites : deleteSite(c, s, ok)
                \/ deleteSiteSaves(c, ok)
                \/ \E probe \in BOOLEAN : putZoneWrites(c, probe, ok)
                \/ \E d \in Devices : createDeviceWrites(c, d, ok)
                \/ Seed(c, ok)
    \/ Restart

Spec == Init /\ [][Next]_vars

--------------------------------------------------------------------------------
(* Properties *)

(* Every variable ranges over what the code can store in it. *)
TypeOK ==
    /\ mem \in Store
    /\ disk \in Store
    /\ req \in [Clients -> Request]
    /\ faults \in 0 .. MaxFaults
    /\ unsaved \subseteq DOMAIN Empty
    /\ failed \in BOOLEAN
    /\ reloaded \in BOOLEAN
    /\ asked \subseteq Zones
    /\ seeded \in BOOLEAN

Rooted(store) == \A z \in Zones : Has(store, z) => store.zones[z].site \in store.sites

(* A zone in memory is in a site that is there: a request that read the      *)
(* zone's site before the site was deleted cannot bring the zone back.  Only *)
(* a restart after a failed save can load something else.                    *)
ZonesHaveSites == ~reloaded => Rooted(mem)

(* A kill between the two saves of DeleteSite leaves no zone on disk without *)
(* its site: only failed saves can.                                          *)
NoOrphansOnDisk == ~failed => Rooted(disk)

(* A file differs from its map only when its last save failed or is still to *)
(* come: a restart loses nothing else.                                       *)
SavedUnlessFailed == \A f \in DOMAIN Empty \ unsaved : disk[f] = mem[f]

(* A zone's verification probe is the one set last: editing the zone at the  *)
(* same time does not lose it.                                               *)
ProbeNotLost == \A z \in Zones : Has(mem, z) => (mem.zones[z].probe <=> z \in asked)

Complete(store) ==
    /\ SeedSite \in store.sites
    /\ Has(store, SeedZone)
    /\ SeedContact \in store.contacts
    /\ store.devices[SeedDevice] # Nowhere

(* A seed that answered 200 left all it promises, in memory and on disk,     *)
(* whatever ran beside it, until something is deleted.                       *)
SeedStands == seeded => Complete(mem) /\ Complete(disk)

================================================================================
