------------------------------- MODULE StoreProofs -----------------------------
(***************************************************************************)
(* What of the stores holds for any sites, zones, devices, contacts and    *)
(* documents, any number of requests, failed saves and crashes.  The first *)
(* part is about SiteStore, where a save replaces a file at one instant;   *)
(* the second is about JsonStore, which shows that a save does.            *)
(*                                                                         *)
(* SiteStore: zones have sites because a zone is written only under the    *)
(* mutex that finds its site, and a deletion takes both away at once.  On  *)
(* disk the two files of a deletion are written one after the other; what  *)
(* saves them is PendingSaves: unless a save has failed, the files are the *)
(* maps, but for the sites' file between the two saves of a deletion, and  *)
(* that file may then only name too many sites.                            *)
(*                                                                         *)
(* JsonStore: a save is atomic because the data is synced BEFORE the       *)
(* rename.  FileInv says so: a temp file about to be renamed is the whole  *)
(* document, on disk, and so is every file ever renamed into place.        *)
(***************************************************************************)
EXTENDS SiteStore, JsonStore, TLAPS

--------------------------------------------------------------------------------
(* SiteStore: the invariant *)

Files == {"sites", "zones", "devices", "contacts"}

(* As long as no save has failed, the only file that may differ from its map *)
(* is the one the second save of a DeleteSite under way is about to write.   *)
PendingSaves == ~failed => \A f \in unsaved : f = "sites" /\ ~Unlocked

Consistent ==
    /\ ZonesHaveSites
    /\ NoOrphansOnDisk
    /\ SavedUnlessFailed
    /\ PendingSaves
    /\ reloaded => failed

(* The record of probes is what the zones hold. *)
ProbesKnown == asked = {z \in Zones : mem.zones[z].probe}

StoresOK ==
    /\ mem \in Store
    /\ disk \in Store
    /\ faults \in 0 .. MaxFaults
    /\ unsaved \subseteq Files
    /\ failed \in BOOLEAN
    /\ asked \subseteq Zones
    /\ Consistent
    /\ ProbesKnown

(* What a request found when it looked is what it goes on with.              *)
RequestOK(r) ==
    /\ r.op \in {"zone", "device"} => r.zone \in Zones
    /\ r.op = "zone" => r.site \in Sites
    /\ r.op = "seed" => r.step \in 1 .. 6

RequestsOK ==
    /\ req \in [Clients -> Request]
    /\ \A c \in Clients : RequestOK(req[c])

(* What the first n calls of a seed leave. *)
Done(store, n) ==
    /\ n >= 1 => SeedSite \in store.sites
    /\ n >= 2 => Has(store, SeedZone)
    /\ n >= 4 => SeedContact \in store.contacts
    /\ n >= 6 => store.devices[SeedDevice] # Nowhere

DoneTwice(n) == Done(mem, n) /\ Done(disk, n)

(* What a seed has done stands, in memory and on disk, until a deletion.     *)
SeedsStand ==
    /\ seeded => DoneTwice(6)
    /\ \A c \in Clients, n \in 0 .. 6 :
          req[c].op = "seed" /\ req[c].clean /\ n = req[c].step - 1 => DoneTwice(n)

SitesInv ==
    /\ StoresOK
    /\ RequestsOK
    /\ reloaded \in BOOLEAN
    /\ seeded \in BOOLEAN
    /\ SeedsStand

--------------------------------------------------------------------------------
(* Saving *)

(* A save writes one map, and its file when it works; every other map and    *)
(* file is as it was, and a difference between the two is accounted for.     *)
LEMMA SaveKeeps ==
    ASSUME StoresOK, NEW f \in Files, NEW m, NEW ok \in BOOLEAN,
           [mem EXCEPT ![f] = m] \in Store, Save(f, m, ok)
    PROVE  /\ mem' \in Store /\ mem'[f] = m /\ \A g \in Files \ {f} : mem'[g] = mem[g]
           /\ disk' \in Store /\ disk'[f] \in {disk[f], m}
           /\ \A g \in Files \ {f} : disk'[g] = disk[g]
           /\ ok => disk'[f] = m
           /\ unsaved' = IF ok THEN unsaved \ {f} ELSE unsaved \cup {f}
           /\ failed' = (failed \/ ~ok)
           /\ faults' \in 0 .. MaxFaults
           /\ SavedUnlessFailed'
<1>1. /\ mem' = [mem EXCEPT ![f] = m]
      /\ disk' = IF ok THEN [disk EXCEPT ![f] = m] ELSE disk
      /\ unsaved' = IF ok THEN unsaved \ {f} ELSE unsaved \cup {f}
      /\ failed' = (failed \/ ~ok)
  BY DEF Save, Outcome
<1>2. \A st \in Store : /\ [st EXCEPT ![f] = m][f] = m
                        /\ \A g \in Files \ {f} : [st EXCEPT ![f] = m][g] = st[g]
  BY DEF Store, Files
<1>3. [disk EXCEPT ![f] = m] \in Store
  <2>1. disk \in Store /\ [mem EXCEPT ![f] = m][f] = m /\ mem \in Store
    BY <1>2 DEF StoresOK
  <2>2. CASE f = "sites"
    BY <2>1, <2>2 DEF Store
  <2>3. CASE f = "zones"
    BY <2>1, <2>3 DEF Store
  <2>4. CASE f = "devices"
    BY <2>1, <2>4 DEF Store
  <2>5. CASE f = "contacts"
    BY <2>1, <2>5 DEF Store
  <2> QED BY <2>2, <2>3, <2>4, <2>5 DEF Files
<1>4. /\ mem' \in Store /\ mem'[f] = m /\ \A g \in Files \ {f} : mem'[g] = mem[g]
      /\ disk' \in Store /\ disk'[f] \in {disk[f], m}
      /\ \A g \in Files \ {f} : disk'[g] = disk[g]
      /\ ok => disk'[f] = m
  BY <1>1, <1>2, <1>3 DEF StoresOK
<1>5. faults' \in 0 .. MaxFaults
  <2>1. faults' = faults \/ (faults < MaxFaults /\ faults' = faults + 1)
    BY Zenon DEF Save, Outcome
  <2> QED BY <2>1, SiteAssumption DEF StoresOK
<1>6. SavedUnlessFailed'
  <2>1. DOMAIN Empty = Files
    BY DEF Empty, Files
  <2>2. \A g \in Files \ unsaved : disk[g] = mem[g]
    BY <2>1 DEF StoresOK, Consistent, SavedUnlessFailed
  <2>3. \A g \in Files \ unsaved' : disk'[g] = mem'[g]
    BY <1>1, <1>4, <2>2
  <2> QED BY <2>1, <2>3 DEF SavedUnlessFailed
<1> QED BY <1>1, <1>4, <1>5, <1>6

(* The fields of a store. *)
LEMMA Fields ==
    ASSUME NEW st \in Store
    PROVE  /\ st["sites"] = st.sites /\ st["zones"] = st.zones
           /\ st["devices"] = st.devices /\ st["contacts"] = st.contacts
           /\ st.sites \subseteq Sites /\ st.contacts \subseteq Contacts
           /\ st.zones \in [Zones -> Zone \cup {NoZone}]
           /\ st.devices \in [Devices -> Zones \cup {Nowhere}]
BY DEF Store

(* A zone that is there is in a site; one that is not has no probe.          *)
LEMMA ZoneFields ==
    /\ NoZone \notin Zone
    /\ NoZone.site = Nowhere /\ NoZone.probe = FALSE
    /\ Nowhere \notin Sites
BY SiteAssumption DEF Zone, NoZone

(* A call that saves a map whose zones have sites keeps all agreements of    *)
(* maps and files: no save of sites or zones is between the two of a         *)
(* DeleteSite.                                                               *)
LEMMA CallKeeps ==
    ASSUME StoresOK, NEW f \in Files, NEW m, NEW ok \in BOOLEAN,
           [mem EXCEPT ![f] = m] \in Store, Save(f, m, ok),
           f \in {"sites", "zones"} => Unlocked,
           Unlocked' <=> Unlocked,
           ~reloaded => Rooted(mem'),
           UNCHANGED reloaded,
           asked' \subseteq Zones, ProbesKnown'
    PROVE  StoresOK'
<1>1. /\ mem' \in Store /\ mem'[f] = m /\ \A g \in Files \ {f} : mem'[g] = mem[g]
      /\ disk' \in Store /\ disk'[f] \in {disk[f], m}
      /\ \A g \in Files \ {f} : disk'[g] = disk[g]
      /\ ok => disk'[f] = m
      /\ unsaved' = IF ok THEN unsaved \ {f} ELSE unsaved \cup {f}
      /\ failed' = (failed \/ ~ok)
      /\ faults' \in 0 .. MaxFaults
      /\ SavedUnlessFailed'
  BY SaveKeeps
<1>2. unsaved' \subseteq Files /\ failed' \in BOOLEAN
  BY <1>1 DEF StoresOK
<1>3. ZonesHaveSites' /\ (reloaded => failed)'
  BY <1>1 DEF ZonesHaveSites, StoresOK, Consistent
<1>4. PendingSaves'
  BY <1>1 DEF PendingSaves, StoresOK, Consistent
<1>5. NoOrphansOnDisk'
  <2> SUFFICES ASSUME ~failed' PROVE Rooted(disk')
    BY DEF NoOrphansOnDisk
  <2>1. ok /\ ~failed /\ ~reloaded
    BY <1>1, <1>3 DEF StoresOK, Consistent
  <2>2. CASE f \in {"sites", "zones"}
    <3>1. \A g \in Files : g \notin unsaved
      BY <2>1, <2>2 DEF StoresOK, Consistent, PendingSaves
    <3>2. \A g \in Files : disk[g] = mem[g]
      BY <3>1 DEF StoresOK, Consistent, SavedUnlessFailed, Empty, Files
    <3>3. disk'["sites"] = mem'["sites"] /\ disk'["zones"] = mem'["zones"]
      BY <1>1, <2>1, <3>2 DEF Files
    <3>4. disk'.sites = mem'.sites /\ disk'.zones = mem'.zones
      BY <1>1, <3>3, Fields
    <3> QED BY <2>1, <3>4 DEF Rooted, Has
  <2>3. CASE f \notin {"sites", "zones"}
    <3>1. disk'["sites"] = disk["sites"] /\ disk'["zones"] = disk["zones"]
      BY <1>1, <2>3 DEF Files
    <3>2. disk'.sites = disk.sites /\ disk'.zones = disk.zones
      BY <1>1, <3>1, Fields DEF StoresOK
    <3> QED BY <2>1, <3>2 DEF Rooted, Has, StoresOK, Consistent, NoOrphansOnDisk
  <2> QED BY <2>2, <2>3
<1> QED BY <1>1, <1>2, <1>3, <1>4, <1>5 DEF StoresOK, Consistent

(* What a seed has done so far outlives a call that takes nothing away.      *)
LEMMA AddingStays ==
    ASSUME StoresOK, NEW f \in Files, NEW m, NEW ok \in BOOLEAN,
           [mem EXCEPT ![f] = m] \in Store, Save(f, m, ok),
           mem.sites \subseteq mem'.sites,
           \A z \in Zones : Has(mem, z) => Has(mem', z),
           mem.contacts \subseteq mem'.contacts,
           \A d \in Devices : mem.devices[d] # Nowhere => mem'.devices[d] # Nowhere,
           NEW n \in 0 .. 6, DoneTwice(n)
    PROVE  DoneTwice(n)'
<1>1. /\ mem' \in Store /\ mem'[f] = m
      /\ disk' \in Store /\ disk'[f] \in {disk[f], m}
      /\ \A g \in Files \ {f} : disk'[g] = disk[g]
  BY SaveKeeps
<1>2. \A g \in Files : disk'[g] \in {disk[g], mem'[g]}
  BY <1>1
<1>3. /\ disk'.sites \in {disk.sites, mem'.sites} /\ disk'.zones \in {disk.zones, mem'.zones}
      /\ disk'.contacts \in {disk.contacts, mem'.contacts}
      /\ disk'.devices \in {disk.devices, mem'.devices}
  BY <1>1, <1>2, Fields DEF StoresOK, Files
<1>4. SeedZone \in Zones /\ SeedDevice \in Devices
  BY SiteAssumption
<1>5. Done(mem', n)
  BY <1>4 DEF DoneTwice, Done
<1>6. Done(disk', n)
  BY <1>3, <1>4, <1>5 DEF DoneTwice, Done, Has
<1> QED BY <1>5, <1>6 DEF DoneTwice

--------------------------------------------------------------------------------
(* The stores' operations *)

(* An adding call saves one map, and says which site or zone changed.        *)
LEMMA SitesCall ==
    ASSUME StoresOK, NEW s \in Sites, NEW ok \in BOOLEAN,
           PutSite(s, ok) \/ SetRouting(s, ok),
           Unlocked' <=> Unlocked, UNCHANGED reloaded
    PROVE  /\ StoresOK'
           /\ \A n \in 0 .. 6 : DoneTwice(n) => DoneTwice(n)'
           /\ s \in mem'.sites /\ (ok => s \in disk'.sites)
<1> DEFINE m == mem.sites \cup {s}
<1>1. Save("sites", m, ok) /\ Unlocked /\ asked' = asked
  <2>1. CASE PutSite(s, ok)
    BY <2>1 DEF PutSite
  <2>2. CASE SetRouting(s, ok)
    <3>1. mem.sites = m
      BY <2>2 DEF SetRouting
    <3> QED BY <2>2, <3>1 DEF SetRouting
  <2> QED BY <2>1, <2>2
<1>2. [mem EXCEPT !["sites"] = m] \in Store
  BY DEF StoresOK, Store
<1>3. "sites" \in Files
  BY DEF Files
<1> HIDE DEF m
<1>4. /\ mem' \in Store /\ mem'["sites"] = m /\ \A g \in Files \ {"sites"} : mem'[g] = mem[g]
      /\ disk' \in Store /\ (ok => disk'["sites"] = m)
  BY <1>1, <1>2, <1>3, SaveKeeps
<1>5. /\ mem'.sites = m /\ mem'.zones = mem.zones /\ mem'.devices = mem.devices
      /\ mem'.contacts = mem.contacts /\ (ok => disk'.sites = m)
  BY <1>4, Fields DEF Files, StoresOK
<1>6. mem.sites \subseteq m /\ s \in m
  BY DEF m
<1>7. ~reloaded => Rooted(mem')
  BY <1>5, <1>6 DEF StoresOK, Consistent, ZonesHaveSites, Rooted, Has
<1>8. asked' \subseteq Zones /\ ProbesKnown'
  BY <1>1, <1>5 DEF StoresOK, ProbesKnown
<1>9. StoresOK'
  BY <1>1, <1>2, <1>3, <1>7, <1>8, CallKeeps
<1>10. ASSUME NEW n \in 0 .. 6, DoneTwice(n) PROVE DoneTwice(n)'
  BY <1>1, <1>2, <1>3, <1>5, <1>6, <1>10, AddingStays DEF Has
<1> QED BY <1>5, <1>6, <1>9, <1>10

(* A zone that is written has a site, and its probe is the one on record.    *)
LEMMA ZoneWritten ==
    ASSUME StoresOK, NEW z \in Zones, NEW r \in Zone, NEW ok \in BOOLEAN,
           Unlocked, Save("zones", [mem.zones EXCEPT ![z] = r], ok),
           r.site \in mem.sites \/ (Has(mem, z) /\ r.site = mem.zones[z].site),
           asked' = IF r.probe THEN asked \cup {z} ELSE asked \ {z},
           Unlocked' <=> Unlocked, UNCHANGED reloaded
    PROVE  /\ StoresOK'
           /\ \A n \in 0 .. 6 : DoneTwice(n) => DoneTwice(n)'
           /\ Has(mem', z) /\ (ok => Has(disk', z))
<1> DEFINE m == [mem.zones EXCEPT ![z] = r]
<1>1. mem.zones \in [Zones -> Zone \cup {NoZone}]
  BY Fields DEF StoresOK
<1>2. m[z] = r /\ \A y \in Zones \ {z} : m[y] = mem.zones[y]
  BY <1>1
<1>3. [mem EXCEPT !["zones"] = m] \in Store
  BY DEF StoresOK, Store
<1>4. "zones" \in Files
  BY DEF Files
<1> HIDE DEF m
<1>5. Save("zones", m, ok)
  BY DEF m
<1>6. /\ mem' \in Store /\ mem'["zones"] = m /\ \A g \in Files \ {"zones"} : mem'[g] = mem[g]
      /\ disk' \in Store /\ (ok => disk'["zones"] = m)
  BY <1>3, <1>4, <1>5, SaveKeeps
<1>7. /\ mem'.zones = m /\ mem'.sites = mem.sites /\ mem'.devices = mem.devices
      /\ mem'.contacts = mem.contacts /\ (ok => disk'.zones = m)
  BY <1>6, Fields DEF Files, StoresOK
<1>8. r # NoZone
  BY ZoneFields
<1>9. \A y \in Zones : Has(mem, y) => Has(mem', y)
  BY <1>2, <1>7, <1>8 DEF Has
<1>10. ~reloaded => Rooted(mem')
  BY <1>2, <1>7, <1>8 DEF StoresOK, Consistent, ZonesHaveSites, Rooted, Has
<1>11. asked' \subseteq Zones
  BY DEF StoresOK
<1>12. ProbesKnown'
  <2>1. asked = {y \in Zones : mem.zones[y].probe}
    BY DEF StoresOK, ProbesKnown
  <2>2. \A y \in Zones : y \in asked' <=> m[y].probe
    BY <1>2, <2>1, Zenon
  <2> QED BY <1>7, <1>11, <2>2, Zenon DEF ProbesKnown
<1>13. StoresOK'
  BY <1>3, <1>4, <1>5, <1>10, <1>11, <1>12, CallKeeps
<1>14. ASSUME NEW n \in 0 .. 6, DoneTwice(n) PROVE DoneTwice(n)'
  BY <1>3, <1>4, <1>5, <1>7, <1>9, <1>14, AddingStays
<1> QED BY <1>2, <1>7, <1>8, <1>13, <1>14 DEF Has

(* A zone written without a probe keeps its own, as ProbeKept has it.        *)
LEMMA PutZoneCall ==
    ASSUME StoresOK, NEW z \in Zones, NEW s \in Sites, NEW probe \in BOOLEAN,
           NEW ok \in BOOLEAN, PutZone(z, s, probe, ok),
           Unlocked' <=> Unlocked, UNCHANGED reloaded
    PROVE  /\ StoresOK'
           /\ \A n \in 0 .. 6 : DoneTwice(n) => DoneTwice(n)'
           /\ Has(mem', z) /\ (ok => Has(disk', z))
<1> DEFINE r == [site |-> s, probe |-> ProbeKept(z, probe)]
<1>1. mem.zones[z] \in Zone \cup {NoZone}
  BY Fields DEF StoresOK
<1>2. mem.zones[z].probe \in BOOLEAN
  BY <1>1, ZoneFields DEF Zone
<1>3. ProbeKept(z, probe) \in BOOLEAN
  BY <1>2 DEF ProbeKept
<1>4. r \in Zone /\ r.site = s
  BY <1>3 DEF Zone
<1>5. Unlocked /\ Save("zones", [mem.zones EXCEPT ![z] = r], ok) /\ s \in mem.sites
  BY DEF PutZone
<1>6. z \in asked <=> mem.zones[z].probe
  BY DEF StoresOK, ProbesKnown
<1>7. asked' = IF r.probe THEN asked \cup {z} ELSE asked \ {z}
  <2>1. asked' = IF probe THEN asked \cup {z} ELSE asked
    BY DEF PutZone
  <2>2. r.probe <=> probe \/ z \in asked
    BY <1>6 DEF ProbeKept
  <2> HIDE DEF r
  <2> QED BY <2>1, <2>2
<1> HIDE DEF r
<1> QED BY <1>4, <1>5, <1>7, ZoneWritten

(* Setting or unsetting the probe leaves the zone in its site.               *)
LEMMA SetTelemetryCall ==
    ASSUME StoresOK, NEW z \in Zones, NEW probe \in BOOLEAN,
           NEW ok \in BOOLEAN, SetTelemetry(z, probe, ok),
           Unlocked' <=> Unlocked, UNCHANGED reloaded
    PROVE  /\ StoresOK'
           /\ \A n \in 0 .. 6 : DoneTwice(n) => DoneTwice(n)'
<1> DEFINE r == [mem.zones[z] EXCEPT !.probe = probe]
<1>1. mem.zones[z] \in Zone
  BY Fields DEF StoresOK, SetTelemetry, Has
<1>2. r \in Zone /\ r.site = mem.zones[z].site /\ (r.probe <=> probe)
  BY <1>1 DEF Zone
<1>3. Unlocked /\ Save("zones", [mem.zones EXCEPT ![z] = r], ok) /\ Has(mem, z)
  BY DEF SetTelemetry
<1>4. asked' = IF r.probe THEN asked \cup {z} ELSE asked \ {z}
  BY <1>2 DEF SetTelemetry
<1> HIDE DEF r
<1> QED BY <1>2, <1>3, <1>4, ZoneWritten

(* A device that is written has a zone. *)
LEMMA PutDeviceCall ==
    ASSUME StoresOK, NEW d \in Devices, NEW z \in Zones, NEW ok \in BOOLEAN,
           PutDevice(d, z, ok),
           Unlocked' <=> Unlocked, UNCHANGED reloaded
    PROVE  /\ StoresOK'
           /\ \A n \in 0 .. 6 : DoneTwice(n) => DoneTwice(n)'
           /\ mem'.devices[d] # Nowhere /\ (ok => disk'.devices[d] # Nowhere)
<1> DEFINE m == [mem.devices EXCEPT ![d] = z]
<1>1. mem.devices \in [Devices -> Zones \cup {Nowhere}] /\ z # Nowhere
  BY Fields, SiteAssumption DEF StoresOK
<1>2. m[d] = z /\ \A e \in Devices \ {d} : m[e] = mem.devices[e]
  BY <1>1
<1>3. [mem EXCEPT !["devices"] = m] \in Store
  BY DEF StoresOK, Store
<1>4. "devices" \in Files
  BY DEF Files
<1> HIDE DEF m
<1>5. Save("devices", m, ok) /\ asked' = asked
  BY DEF PutDevice, m
<1>6. /\ mem' \in Store /\ mem'["devices"] = m
      /\ \A g \in Files \ {"devices"} : mem'[g] = mem[g]
      /\ disk' \in Store /\ (ok => disk'["devices"] = m)
  BY <1>3, <1>4, <1>5, SaveKeeps
<1>7. /\ mem'.devices = m /\ mem'.sites = mem.sites /\ mem'.zones = mem.zones
      /\ mem'.contacts = mem.contacts /\ (ok => disk'.devices = m)
  BY <1>6, Fields DEF Files, StoresOK
<1>8. (~reloaded => Rooted(mem')) /\ asked' \subseteq Zones /\ ProbesKnown'
  BY <1>5, <1>7 DEF StoresOK, Consistent, ZonesHaveSites, Rooted, Has, ProbesKnown
<1>9. StoresOK'
  BY <1>3, <1>4, <1>5, <1>8, CallKeeps
<1>10. ASSUME NEW n \in 0 .. 6, DoneTwice(n) PROVE DoneTwice(n)'
  <2>1. \A e \in Devices : mem.devices[e] # Nowhere => mem'.devices[e] # Nowhere
    BY <1>1, <1>2, <1>7
  <2> QED BY <1>3, <1>4, <1>5, <1>7, <1>10, <2>1, AddingStays DEF Has
<1> QED BY <1>1, <1>2, <1>7, <1>9, <1>10

(* A contact that is written is there. *)
LEMMA PutContactCall ==
    ASSUME StoresOK, NEW k \in Contacts, NEW ok \in BOOLEAN, PutContact(k, ok),
           Unlocked' <=> Unlocked, UNCHANGED reloaded
    PROVE  /\ StoresOK'
           /\ \A n \in 0 .. 6 : DoneTwice(n) => DoneTwice(n)'
           /\ k \in mem'.contacts /\ (ok => k \in disk'.contacts)
<1> DEFINE m == mem.contacts \cup {k}
<1>1. [mem EXCEPT !["contacts"] = m] \in Store
  BY DEF StoresOK, Store
<1>2. "contacts" \in Files
  BY DEF Files
<1>3. mem.contacts \subseteq m /\ k \in m
  OBVIOUS
<1> HIDE DEF m
<1>4. Save("contacts", m, ok) /\ asked' = asked
  BY DEF PutContact, m
<1>5. /\ mem' \in Store /\ mem'["contacts"] = m
      /\ \A g \in Files \ {"contacts"} : mem'[g] = mem[g]
      /\ disk' \in Store /\ (ok => disk'["contacts"] = m)
  BY <1>1, <1>2, <1>4, SaveKeeps
<1>6. /\ mem'.contacts = m /\ mem'.sites = mem.sites /\ mem'.zones = mem.zones
      /\ mem'.devices = mem.devices /\ (ok => disk'.contacts = m)
  BY <1>5, Fields DEF Files, StoresOK
<1>7. (~reloaded => Rooted(mem')) /\ asked' \subseteq Zones /\ ProbesKnown'
  BY <1>4, <1>6 DEF StoresOK, Consistent, ZonesHaveSites, Rooted, Has, ProbesKnown
<1>8. StoresOK'
  BY <1>1, <1>2, <1>4, <1>7, CallKeeps
<1>9. ASSUME NEW n \in 0 .. 6, DoneTwice(n) PROVE DoneTwice(n)'
  BY <1>1, <1>2, <1>3, <1>4, <1>6, <1>9, AddingStays DEF Has
<1> QED BY <1>3, <1>6, <1>8, <1>9

--------------------------------------------------------------------------------
(* The invariant *)

(* The program starts with no files and no requests. *)
LEMMA InitSitesInv == Init => SitesInv
<1> SUFFICES ASSUME Init PROVE SitesInv
  OBVIOUS
<1>1. Empty \in Store
  BY DEF Empty, Store
<1>2. ~Has(Empty, SeedZone) /\ \A z \in Zones : ~Has(Empty, z) /\ ~Empty.zones[z].probe
  BY ZoneFields, SiteAssumption DEF Empty, Has
<1>3. Rooted(Empty)
  BY <1>2 DEF Rooted
<1>4. StoresOK
  <2>1. mem \in Store /\ disk \in Store /\ unsaved \subseteq Files /\ failed \in BOOLEAN
        /\ asked \subseteq Zones
    BY <1>1 DEF Init
  <2>2. faults \in 0 .. MaxFaults
    BY SiteAssumption DEF Init
  <2>3. Consistent
    BY <1>3 DEF Init, Consistent, ZonesHaveSites, NoOrphansOnDisk, SavedUnlessFailed, PendingSaves
  <2>4. ProbesKnown
    BY <1>2 DEF Init, ProbesKnown
  <2> QED BY <2>1, <2>2, <2>3, <2>4 DEF StoresOK
<1>5. RequestsOK
  BY DEF Init, RequestsOK, RequestOK, Request, Idle
<1>6. SeedsStand /\ reloaded \in BOOLEAN /\ seeded \in BOOLEAN
  BY DEF Init, SeedsStand, Idle
<1> QED BY <1>4, <1>5, <1>6 DEF SitesInv

(* Requests that are one call and take nothing away. *)
LEMMA OneCallSitesInv ==
    ASSUME SitesInv, NEW ok \in BOOLEAN,
           \/ \E s \in Sites : putSite(s, ok) \/ putSiteRouting(s, ok)
           \/ \E z \in Zones, s \in Sites, probe \in BOOLEAN : createZone(z, s, probe, ok)
           \/ \E z \in Zones, probe \in BOOLEAN : putTelemetry(z, probe, ok)
           \/ \E d \in Devices, z \in Zones : putDevice(d, z, ok)
           \/ \E k \in Contacts : putContact(k, ok)
    PROVE  SitesInv'
<1>1. UNCHANGED <<req, reloaded, seeded>>
  BY DEF putSite, putSiteRouting, createZone, putTelemetry, putDevice, putContact
<1>2. Unlocked' <=> Unlocked
  BY <1>1 DEF Unlocked
<1>3. StoresOK' /\ \A n \in 0 .. 6 : DoneTwice(n) => DoneTwice(n)'
  BY <1>1, <1>2, SitesCall, PutZoneCall, SetTelemetryCall, PutDeviceCall, PutContactCall
     DEF SitesInv, putSite, putSiteRouting, createZone, putTelemetry, putDevice, putContact
<1>4. RequestsOK' /\ reloaded' \in BOOLEAN /\ seeded' \in BOOLEAN
  BY <1>1 DEF SitesInv, RequestsOK
<1>5. SeedsStand'
  <2>1. seeded => DoneTwice(6)'
    BY <1>3 DEF SitesInv, SeedsStand
  <2>2. ASSUME NEW c \in Clients, NEW n \in 0 .. 6,
               req[c].op = "seed", req[c].clean, n = req[c].step - 1
        PROVE  DoneTwice(n)'
    BY <1>3, <2>2 DEF SitesInv, SeedsStand
  <2> QED BY <1>1, <2>1, <2>2 DEF SeedsStand
<1> QED BY <1>3, <1>4, <1>5 DEF SitesInv

(* A request that is done; one that begins is one with other fields.         *)
LEMMA IdleFields ==
    /\ Idle \in Request /\ RequestOK(Idle)
    /\ Idle.op = "idle" /\ Idle.clean = FALSE
BY DEF Idle, Request, RequestOK

(* A deletion ends what seeds promise and touches requests in nothing else.  *)
LEMMA DisturbKeeps ==
    ASSUME RequestsOK, Disturb
    PROVE  /\ RequestsOK' /\ SeedsStand' /\ seeded' \in BOOLEAN
           /\ Unlocked' <=> Unlocked
           /\ UNCHANGED reloaded
<1>1. req' = [c \in Clients |-> [req[c] EXCEPT !.clean = FALSE]] /\ seeded' = FALSE
  BY DEF Disturb
<1>2. ASSUME NEW c \in Clients
      PROVE  /\ req'[c] \in Request
             /\ req'[c].op = req[c].op /\ req'[c].zone = req[c].zone
             /\ req'[c].site = req[c].site /\ req'[c].step = req[c].step
             /\ req'[c].clean = FALSE
  BY <1>1 DEF RequestsOK, Request
<1>3. RequestsOK'
  BY <1>1, <1>2 DEF RequestsOK, RequestOK
<1>4. SeedsStand'
  BY <1>1, <1>2 DEF SeedsStand
<1>5. Unlocked' <=> Unlocked
  BY <1>2 DEF Unlocked
<1> QED BY <1>1, <1>3, <1>4, <1>5 DEF Disturb

(* A deletion of a zone, a device or a contact is one call; what is left of  *)
(* the zones has its sites still.                                            *)
LEMMA DeletionSitesInv ==
    ASSUME SitesInv, NEW ok \in BOOLEAN,
           \/ \E z \in Zones : deleteZone(z, ok)
           \/ \E d \in Devices : deleteDevice(d, ok)
           \/ \E k \in Contacts : deleteContact(k, ok)
    PROVE  SitesInv'
<1>1. /\ RequestsOK' /\ SeedsStand' /\ seeded' \in BOOLEAN
      /\ Unlocked' <=> Unlocked
      /\ UNCHANGED reloaded
  BY DisturbKeeps DEF SitesInv, deleteZone, deleteDevice, deleteContact
<1>2. StoresOK
  BY DEF SitesInv
<1>3. ASSUME NEW z \in Zones, deleteZone(z, ok) PROVE StoresOK'
  <2> DEFINE m == [mem.zones EXCEPT ![z] = NoZone]
  <2>1. mem.zones \in [Zones -> Zone \cup {NoZone}]
    BY <1>2, Fields DEF StoresOK
  <2>2. m[z] = NoZone /\ \A y \in Zones \ {z} : m[y] = mem.zones[y]
    BY <2>1
  <2>3. [mem EXCEPT !["zones"] = m] \in Store
    BY <1>2 DEF StoresOK, Store
  <2>4. "zones" \in Files
    BY DEF Files
  <2> HIDE DEF m
  <2>5. Save("zones", m, ok) /\ Unlocked /\ asked' = asked \ {z}
    BY <1>3 DEF deleteZone, m
  <2>6. mem' \in Store /\ mem'["zones"] = m /\ \A g \in Files \ {"zones"} : mem'[g] = mem[g]
    BY <1>2, <2>3, <2>4, <2>5, SaveKeeps
  <2>7. mem'.zones = m /\ mem'.sites = mem.sites
    BY <1>2, <2>6, Fields DEF Files, StoresOK
  <2>8. ~reloaded => Rooted(mem')
    BY <1>2, <2>2, <2>7 DEF StoresOK, Consistent, ZonesHaveSites, Rooted, Has
  <2>9. asked' \subseteq Zones /\ ProbesKnown'
    <3>1. asked = {y \in Zones : mem.zones[y].probe} /\ ~NoZone.probe
      BY <1>2, ZoneFields DEF StoresOK, ProbesKnown
    <3>2. asked' \subseteq Zones
      BY <2>5, <3>1
    <3>3. ASSUME NEW y \in Zones PROVE y \in asked' <=> m[y].probe
      <4>1. CASE y = z
        BY <2>2, <2>5, <3>1, <4>1, Zenon
      <4>2. CASE y # z
        BY <2>2, <2>5, <3>1, <4>2, Zenon
      <4> QED BY <4>1, <4>2
    <3> QED BY <2>7, <3>2, <3>3, Zenon DEF ProbesKnown
  <2> QED BY <1>1, <1>2, <2>3, <2>4, <2>5, <2>8, <2>9, CallKeeps
<1>4. ASSUME NEW f \in {"devices", "contacts"}, NEW m, [mem EXCEPT ![f] = m] \in Store,
             Save(f, m, ok), UNCHANGED asked
      PROVE  StoresOK'
  <2>1. f \in Files /\ "sites" \in Files \ {f} /\ "zones" \in Files \ {f}
    BY DEF Files
  <2>2. mem' \in Store /\ \A g \in Files \ {f} : mem'[g] = mem[g]
    BY <1>2, <1>4, <2>1, SaveKeeps
  <2>3. mem'.sites = mem.sites /\ mem'.zones = mem.zones
    BY <1>2, <2>1, <2>2, Fields DEF StoresOK
  <2>4. (~reloaded => Rooted(mem')) /\ asked' \subseteq Zones /\ ProbesKnown'
    BY <1>2, <1>4, <2>3 DEF StoresOK, Consistent, ZonesHaveSites, Rooted, Has, ProbesKnown
  <2> QED BY <1>1, <1>2, <1>4, <2>1, <2>4, CallKeeps
<1>5. ASSUME NEW d \in Devices, deleteDevice(d, ok) PROVE StoresOK'
  <2>1. [mem EXCEPT !["devices"] = [mem.devices EXCEPT ![d] = Nowhere]] \in Store
    BY <1>2 DEF StoresOK, Store
  <2> QED BY <1>4, <1>5, <2>1 DEF deleteDevice
<1>6. ASSUME NEW k \in Contacts, deleteContact(k, ok) PROVE StoresOK'
  <2>1. [mem EXCEPT !["contacts"] = mem.contacts \ {k}] \in Store
    BY <1>2 DEF StoresOK, Store
  <2> QED BY <1>4, <1>6, <2>1 DEF deleteContact
<1>7. StoresOK'
  BY <1>3, <1>5, <1>6
<1> QED BY <1>1, <1>7 DEF SitesInv

(* The first half of DeleteSite.  While no save has failed the files were    *)
(* the maps, so that the zones' file, saved first, names only sites that are *)
(* still in the other.                                                       *)
LEMMA DeleteSiteSitesInv ==
    ASSUME SitesInv, NEW c \in Clients, NEW s \in Sites, NEW ok \in BOOLEAN,
           deleteSite(c, s, ok)
    PROVE  SitesInv'
<1> DEFINE gone == ZonesOf(mem, s)
           zs == [z \in Zones |-> IF z \in gone THEN NoZone ELSE mem.zones[z]]
<1>1. StoresOK /\ RequestsOK
  BY DEF SitesInv
<1>2. /\ Unlocked /\ s \in mem.sites
      /\ failed' = (failed \/ ~ok)
      /\ asked' = asked \ gone
      /\ seeded' = FALSE /\ reloaded' = reloaded
  BY DEF deleteSite, Outcome
<1>3. mem' = [mem EXCEPT !.sites = mem.sites \ {s}, !.zones = zs]
  BY DEF deleteSite
<1>4. mem.zones \in [Zones -> Zone \cup {NoZone}]
  BY <1>1, Fields DEF StoresOK
<1>5. gone = {z \in Zones : mem.zones[z].site = s}
  BY DEF ZonesOf
<1>6. zs \in [Zones -> Zone \cup {NoZone}]
  BY <1>4
<1>7. \A z \in Zones : zs[z] = IF z \in gone THEN NoZone ELSE mem.zones[z]
  OBVIOUS
<1> HIDE DEF gone, zs
<1>8. /\ mem' \in Store /\ mem'.sites = mem.sites \ {s} /\ mem'.zones = zs
      /\ mem'.devices = mem.devices /\ mem'.contacts = mem.contacts
  BY <1>1, <1>3, <1>6 DEF StoresOK, Store
<1>9. disk' = IF ok THEN [disk EXCEPT !["zones"] = mem'["zones"]] ELSE disk
  <2>1. DeleteOrder[1] = "zones"
    BY DEF DeleteOrder
  <2>2. disk' = IF ok THEN [disk EXCEPT ![DeleteOrder[1]] = mem'[DeleteOrder[1]]] ELSE disk
    BY Zenon DEF deleteSite
  <2> QED BY <2>1, <2>2
<1>10. /\ disk' \in Store /\ disk'.sites = disk.sites /\ disk'.devices = disk.devices
       /\ disk'.contacts = disk.contacts /\ (ok => disk'.zones = zs)
  BY <1>1, <1>6, <1>8, <1>9 DEF StoresOK, Store
<1>11. unsaved' = (unsaved \cup {"sites", "zones"}) \ (IF ok THEN {"zones"} ELSE {})
  BY DEF deleteSite, DeleteOrder
<1>12. faults' \in 0 .. MaxFaults
  <2>1. faults' = faults \/ (faults < MaxFaults /\ faults' = faults + 1)
    BY Zenon DEF deleteSite, Outcome
  <2> QED BY <1>1, <2>1, SiteAssumption DEF StoresOK
<1>13. /\ unsaved' \subseteq Files /\ failed' \in BOOLEAN /\ asked' \subseteq Zones
  BY <1>1, <1>2, <1>11 DEF StoresOK, Files
<1>14. ASSUME ~reloaded
       PROVE  \A z \in Zones : zs[z] # NoZone => zs[z].site \in mem.sites \ {s}
  BY <1>1, <1>5, <1>7, <1>14 DEF StoresOK, Consistent, ZonesHaveSites, Rooted, Has
<1>15. ASSUME ~failed'
       PROVE  ok /\ ~failed /\ ~reloaded /\ unsaved = {} /\ disk.sites = mem.sites
  <2>1. ok /\ ~failed /\ ~reloaded
    BY <1>1, <1>2, <1>15 DEF StoresOK, Consistent
  <2>2. unsaved = {}
    BY <1>1, <1>2, <2>1 DEF StoresOK, Consistent, PendingSaves
  <2>3. disk["sites"] = mem["sites"]
    BY <1>1, <2>2 DEF StoresOK, Consistent, SavedUnlessFailed, Empty
  <2> QED BY <1>1, <2>1, <2>2, <2>3, Fields DEF StoresOK
<1>16. ZonesHaveSites' /\ (reloaded => failed)'
  BY <1>1, <1>2, <1>8, <1>14 DEF ZonesHaveSites, Rooted, Has, StoresOK, Consistent
<1>17. NoOrphansOnDisk'
  BY <1>8, <1>10, <1>14, <1>15 DEF NoOrphansOnDisk, Rooted, Has
<1>18. SavedUnlessFailed'
  <2>1. DOMAIN Empty = Files
    BY DEF Empty, Files
  <2>2. \A f \in Files \ unsaved : disk[f] = mem[f]
    BY <1>1, <2>1 DEF StoresOK, Consistent, SavedUnlessFailed
  <2>3. /\ disk'["devices"] = disk["devices"] /\ mem'["devices"] = mem["devices"]
        /\ disk'["contacts"] = disk["contacts"] /\ mem'["contacts"] = mem["contacts"]
        /\ ok => disk'["zones"] = mem'["zones"]
    BY <1>1, <1>8, <1>10, Fields DEF StoresOK
  <2>4. ASSUME NEW f \in Files, f \notin unsaved' PROVE disk'[f] = mem'[f]
    BY <1>11, <2>2, <2>3, <2>4 DEF Files
  <2> QED BY <2>1, <2>4 DEF SavedUnlessFailed
<1>19. ProbesKnown'
  <2>1. asked = {z \in Zones : mem.zones[z].probe} /\ ~NoZone.probe
    BY <1>1, ZoneFields DEF StoresOK, ProbesKnown
  <2>2. ASSUME NEW z \in Zones PROVE z \in asked' <=> zs[z].probe
    <3>1. CASE z \in gone
      BY <1>2, <1>7, <2>1, <3>1, Zenon
    <3>2. CASE z \notin gone
      BY <1>2, <1>7, <2>1, <3>2, Zenon
    <3> QED BY <3>1, <3>2
  <2> QED BY <1>8, <1>13, <2>2, Zenon DEF ProbesKnown
<1>20. req' = [i \in Clients |->
                 IF i = c /\ ok THEN [Idle EXCEPT !.op = "delete", !.site = s]
                 ELSE [req[i] EXCEPT !.clean = FALSE]]
  BY DEF deleteSite
<1>21. ASSUME NEW i \in Clients
       PROVE  /\ req'[i] \in Request /\ ~req'[i].clean
              /\ i = c /\ ok => req'[i].op = "delete"
              /\ i # c \/ ~ok =>
                    /\ req'[i].op = req[i].op /\ req'[i].zone = req[i].zone
                    /\ req'[i].site = req[i].site /\ req'[i].step = req[i].step
  <2>1. CASE i = c /\ ok
    <3>1. req'[i] = [Idle EXCEPT !.op = "delete", !.site = s]
      BY <1>20, <2>1
    <3> QED BY <2>1, <3>1, IdleFields DEF Request
  <2>2. CASE ~(i = c /\ ok)
    BY <1>1, <1>20, <2>2 DEF RequestsOK, Request
  <2> QED BY <2>1, <2>2
<1>22. RequestsOK'
  BY <1>1, <1>20, <1>21 DEF RequestsOK, RequestOK
<1>23. SeedsStand'
  BY <1>2, <1>21 DEF SeedsStand
<1>24. PendingSaves'
  <2>1. ASSUME ~failed' PROVE ~Unlocked' /\ unsaved' = {"sites"}
    BY <1>11, <1>15, <1>21, <2>1 DEF Unlocked
  <2> QED BY <2>1 DEF PendingSaves
<1>25. StoresOK'
  BY <1>8, <1>10, <1>12, <1>13, <1>16, <1>17, <1>18, <1>19, <1>24 DEF StoresOK, Consistent
<1> QED BY <1>2, <1>22, <1>23, <1>25 DEF SitesInv

(* One request goes on, or ends, as one that may; what the others rely on    *)
(* is not taken away.  Unless it begins or ends a deletion, the mutex of the *)
(* sites is as free as it was.                                               *)
LEMMA RequestMoves ==
    ASSUME RequestsOK, SeedsStand,
           NEW c \in Clients, NEW r \in Request, RequestOK(r),
           req' = [req EXCEPT ![c] = r],
           \A n \in 0 .. 6 : DoneTwice(n) => DoneTwice(n)',
           \A n \in 0 .. 6 : r.op = "seed" /\ r.clean /\ n = r.step - 1 => DoneTwice(n)',
           seeded' => seeded \/ DoneTwice(6)'
    PROVE  /\ RequestsOK' /\ SeedsStand'
           /\ (req[c].op = "delete" <=> r.op = "delete") => (Unlocked' <=> Unlocked)
<1>1. /\ req' \in [Clients -> Request]
      /\ req'[c] = r /\ \A i \in Clients \ {c} : req'[i] = req[i]
  BY DEF RequestsOK
<1>2. RequestsOK'
  BY <1>1 DEF RequestsOK
<1>3. SeedsStand'
  <2>1. seeded' => DoneTwice(6)'
    BY DEF SeedsStand
  <2>2. ASSUME NEW i \in Clients, NEW n \in 0 .. 6,
               req'[i].op = "seed", req'[i].clean, n = req'[i].step - 1
        PROVE  DoneTwice(n)'
    <3>1. CASE i = c
      BY <1>1, <2>2, <3>1
    <3>2. CASE i # c
      BY <1>1, <2>2, <3>2 DEF SeedsStand
    <3> QED BY <3>1, <3>2
  <2> QED BY <2>1, <2>2 DEF SeedsStand
<1> QED BY <1>1, <1>2, <1>3 DEF Unlocked

(* The second half of DeleteSite. *)
LEMMA DeleteSiteSavesSitesInv ==
    ASSUME SitesInv, NEW c \in Clients, NEW ok \in BOOLEAN, deleteSiteSaves(c, ok)
    PROVE  SitesInv'
<1> DEFINE m == mem["sites"]
<1>1. StoresOK /\ RequestsOK
  BY DEF SitesInv
<1>2. Save("sites", m, ok) /\ req' = [req EXCEPT ![c] = Idle]
      /\ UNCHANGED <<reloaded, asked, seeded>>
  BY DEF deleteSiteSaves, DeleteOrder, history
<1>3. [mem EXCEPT !["sites"] = m] \in Store /\ "sites" \in Files
  BY <1>1 DEF StoresOK, Store, Files
<1> HIDE DEF m
<1>4. /\ mem' \in Store /\ mem'["sites"] = m /\ \A g \in Files \ {"sites"} : mem'[g] = mem[g]
      /\ disk' \in Store /\ disk'["sites"] \in {disk["sites"], m}
      /\ \A g \in Files \ {"sites"} : disk'[g] = disk[g]
      /\ ok => disk'["sites"] = m
      /\ unsaved' = IF ok THEN unsaved \ {"sites"} ELSE unsaved \cup {"sites"}
      /\ failed' = (failed \/ ~ok)
      /\ faults' \in 0 .. MaxFaults
      /\ SavedUnlessFailed'
  BY <1>1, <1>2, <1>3, SaveKeeps
<1>5. /\ mem'.sites = mem.sites /\ mem'.zones = mem.zones
      /\ mem'.devices = mem.devices /\ mem'.contacts = mem.contacts
      /\ disk'.zones = disk.zones /\ (ok => disk'.sites = mem.sites)
  BY <1>1, <1>4, Fields DEF m, Files, StoresOK
<1>6. ZonesHaveSites' /\ (reloaded => failed)' /\ ProbesKnown' /\ asked' \subseteq Zones
  BY <1>1, <1>2, <1>4, <1>5
     DEF StoresOK, Consistent, ZonesHaveSites, Rooted, Has, ProbesKnown
<1>7. PendingSaves'
  BY <1>1, <1>4 DEF StoresOK, Consistent, PendingSaves
<1>8. NoOrphansOnDisk'
  <2> SUFFICES ASSUME ~failed' PROVE Rooted(disk')
    BY DEF NoOrphansOnDisk
  <2>1. ok /\ ~failed /\ ~reloaded
    BY <1>1, <1>4 DEF StoresOK, Consistent
  <2>2. "zones" \notin unsaved /\ "zones" \in DOMAIN Empty
    BY <1>1, <2>1 DEF StoresOK, Consistent, PendingSaves, Empty
  <2>3. disk["zones"] = mem["zones"]
    BY <1>1, <2>2 DEF StoresOK, Consistent, SavedUnlessFailed
  <2>4. disk'.zones = mem.zones /\ disk'.sites = mem.sites
    BY <1>1, <1>5, <2>1, <2>3, Fields DEF StoresOK
  <2> QED BY <1>1, <2>1, <2>4 DEF Rooted, Has, StoresOK, Consistent, ZonesHaveSites
<1>9. StoresOK'
  <2>1. unsaved' \subseteq Files /\ failed' \in BOOLEAN
    BY <1>1, <1>3, <1>4 DEF StoresOK
  <2> QED BY <1>4, <1>6, <1>7, <1>8, <2>1 DEF StoresOK, Consistent
<1>10. ASSUME NEW n \in 0 .. 6, DoneTwice(n) PROVE DoneTwice(n)'
  BY <1>1, <1>2, <1>3, <1>5, <1>10, AddingStays DEF Has
<1>11. Idle \in Request /\ RequestOK(Idle) /\ Idle.op = "idle"
  BY IdleFields
<1>12. RequestsOK' /\ SeedsStand'
  BY <1>1, <1>2, <1>10, <1>11, RequestMoves DEF SitesInv
<1> QED BY <1>2, <1>9, <1>12 DEF SitesInv

(* A request looks a site or a zone up, a seed begins or is refused: no map, *)
(* file or answer changes.                                                   *)
LEMMA LookupSitesInv ==
    ASSUME SitesInv, NEW c \in Clients, NEW r \in Request, RequestOK(r),
           req' = [req EXCEPT ![c] = r], req[c].op # "delete", r.op # "delete",
           r.op = "seed" => r.step = 1,
           UNCHANGED <<stores, history>>
    PROVE  SitesInv'
<1>1. UNCHANGED <<mem, disk, faults, unsaved, failed, reloaded, asked, seeded>>
  BY DEF stores, history
<1>2. \A n \in 0 .. 6 : DoneTwice(n) => DoneTwice(n)'
  BY <1>1 DEF DoneTwice
<1>3. DoneTwice(0)'
  BY DEF DoneTwice, Done
<1>4. \A n \in 0 .. 6 : r.op = "seed" /\ r.clean /\ n = r.step - 1 => DoneTwice(n)'
  BY <1>3
<1>5. RequestsOK' /\ SeedsStand' /\ (Unlocked' <=> Unlocked)
  BY <1>1, <1>2, <1>4, RequestMoves DEF SitesInv
<1>6. StoresOK'
  BY <1>1, <1>5 DEF SitesInv, StoresOK, Consistent, ZonesHaveSites, NoOrphansOnDisk,
     SavedUnlessFailed, PendingSaves, ProbesKnown
<1> QED BY <1>1, <1>5, <1>6 DEF SitesInv

(* The four that only look: putZone, createDevice, the seed's begin and its  *)
(* refusals.                                                                 *)
LEMMA LookupsSitesInv ==
    ASSUME SitesInv, NEW c \in Clients,
           \/ \E z \in Zones : putZone(c, z) \/ createDevice(c, z)
           \/ fwSeed(c)
           \/ SeedRefused(c)
    PROVE  SitesInv'
<1>1. ASSUME NEW z \in Zones, putZone(c, z) PROVE SitesInv'
  <2> DEFINE r == [Idle EXCEPT !.op = "zone", !.zone = z, !.site = mem.zones[z].site]
  <2>1. mem.zones[z] \in Zone
    BY <1>1, Fields DEF putZone, SitesInv, StoresOK, Has
  <2>2. mem.zones[z].site \in Sites
    BY <2>1 DEF Zone
  <2>3. r \in Request /\ RequestOK(r) /\ r.op = "zone"
    BY <2>2, IdleFields DEF Request, RequestOK
  <2>4. req' = [req EXCEPT ![c] = r] /\ req[c].op # "delete" /\ UNCHANGED <<stores, history>>
    BY <1>1 DEF putZone
  <2> HIDE DEF r
  <2> QED BY <2>3, <2>4, LookupSitesInv
<1>2. ASSUME NEW z \in Zones, createDevice(c, z) PROVE SitesInv'
  <2> DEFINE r == [Idle EXCEPT !.op = "device", !.zone = z]
  <2>1. r \in Request /\ RequestOK(r) /\ r.op = "device"
    BY IdleFields DEF Request, RequestOK
  <2>2. req' = [req EXCEPT ![c] = r] /\ req[c].op # "delete" /\ UNCHANGED <<stores, history>>
    BY <1>2 DEF createDevice
  <2> HIDE DEF r
  <2> QED BY <2>1, <2>2, LookupSitesInv
<1>3. ASSUME fwSeed(c) PROVE SitesInv'
  <2> DEFINE r == [Idle EXCEPT !.op = "seed", !.step = 1, !.clean = TRUE]
  <2>1. r \in Request /\ r.op = "seed" /\ r.step = 1
    <3>1. \A n \in 0 .. 6 : [Idle EXCEPT !.op = "seed", !.step = n, !.clean = TRUE] \in Request
      BY IdleFields DEF Request
    <3>2. r \in Request
      BY <3>1
    <3>3. r.op = "seed" /\ r.step = 1
      BY IdleFields DEF Request
    <3> QED BY <3>2, <3>3
  <2>2. req' = [req EXCEPT ![c] = r] /\ req[c].op # "delete" /\ UNCHANGED <<stores, history>>
    BY <1>3 DEF fwSeed
  <2> HIDE DEF r
  <2>3. RequestOK(r)
    BY <2>1 DEF RequestOK
  <2> QED BY <2>1, <2>2, <2>3, LookupSitesInv
<1>4. ASSUME SeedRefused(c) PROVE SitesInv'
  <2>1. req' = [req EXCEPT ![c] = Idle] /\ req[c].op # "delete" /\ UNCHANGED <<stores, history>>
    BY <1>4 DEF SeedRefused
  <2> QED BY <2>1, IdleFields, LookupSitesInv
<1> QED BY <1>1, <1>2, <1>3, <1>4

(* The write of putZone or of createDevice, some time after the look.        *)
LEMMA LateWriteSitesInv ==
    ASSUME SitesInv, NEW c \in Clients, NEW ok \in BOOLEAN,
           \/ \E probe \in BOOLEAN : putZoneWrites(c, probe, ok)
           \/ \E d \in Devices : createDeviceWrites(c, d, ok)
    PROVE  SitesInv'
<1>1. /\ req' = [req EXCEPT ![c] = Idle] /\ UNCHANGED <<reloaded, seeded>>
      /\ req[c].op \in {"zone", "device"}
  BY DEF putZoneWrites, createDeviceWrites
<1>2. RequestOK(req[c])
  BY DEF SitesInv, RequestsOK
<1>3. Unlocked' <=> Unlocked
  BY <1>1, IdleFields DEF Unlocked, SitesInv, RequestsOK
<1>4. StoresOK' /\ \A n \in 0 .. 6 : DoneTwice(n) => DoneTwice(n)'
  <2>1. ASSUME NEW probe \in BOOLEAN, putZoneWrites(c, probe, ok)
        PROVE  StoresOK' /\ \A n \in 0 .. 6 : DoneTwice(n) => DoneTwice(n)'
    <3>1. PutZone(req[c].zone, req[c].site, probe, ok)
          /\ req[c].zone \in Zones /\ req[c].site \in Sites
      BY <1>2, <2>1 DEF putZoneWrites, RequestOK
    <3> QED BY <1>1, <1>3, <3>1, PutZoneCall DEF SitesInv
  <2>2. ASSUME NEW d \in Devices, createDeviceWrites(c, d, ok)
        PROVE  StoresOK' /\ \A n \in 0 .. 6 : DoneTwice(n) => DoneTwice(n)'
    <3>1. PutDevice(d, req[c].zone, ok) /\ req[c].zone \in Zones
      BY <1>2, <2>2 DEF createDeviceWrites, RequestOK
    <3> QED BY <1>1, <1>3, <3>1, PutDeviceCall DEF SitesInv
  <2> QED BY <2>1, <2>2
<1>5. RequestsOK' /\ SeedsStand'
  BY <1>1, <1>4, IdleFields, RequestMoves DEF SitesInv
<1> QED BY <1>1, <1>4, <1>5 DEF SitesInv

(* A call of a seed leaves what the seed has done when it works: the store   *)
(* calls before it, the call itself.                                         *)
LEMMA SeedCallDone ==
    ASSUME StoresOK, NEW n \in 1 .. 6, NEW ok \in BOOLEAN, SeedCall(n, ok),
           Unlocked' <=> Unlocked, UNCHANGED reloaded
    PROVE  /\ StoresOK'
           /\ \A k \in 0 .. 6 : DoneTwice(k) => DoneTwice(k)'
           /\ ok /\ DoneTwice(n - 1) => DoneTwice(n)'
<1> DEFINE Kept == \A k \in 0 .. 6 : DoneTwice(k) => DoneTwice(k)'
<1>1. SeedSite \in Sites /\ SeedZone \in Zones /\ SeedDevice \in Devices /\ SeedContact \in Contacts
  BY SiteAssumption
<1>2. n - 1 \in 0 .. 6
  OBVIOUS
<1>3. ASSUME n = 1, PutSite(SeedSite, ok)
      PROVE  StoresOK' /\ Kept /\ (ok => SeedSite \in mem'.sites /\ SeedSite \in disk'.sites)
  BY <1>1, <1>3, SitesCall
<1>4. ASSUME n = 2, PutZone(SeedZone, SeedSite, FALSE, ok)
      PROVE  StoresOK' /\ Kept /\ (ok => Has(mem', SeedZone) /\ Has(disk', SeedZone))
  BY <1>1, <1>4, PutZoneCall
<1>5. ASSUME n = 3, SetTelemetry(SeedZone, TRUE, ok)
      PROVE  StoresOK' /\ Kept
  BY <1>1, <1>5, SetTelemetryCall
<1>6. ASSUME n = 4, PutContact(SeedContact, ok)
      PROVE  StoresOK' /\ Kept
             /\ (ok => SeedContact \in mem'.contacts /\ SeedContact \in disk'.contacts)
  BY <1>1, <1>6, PutContactCall
<1>7. ASSUME n = 5, SetRouting(SeedSite, ok)
      PROVE  StoresOK' /\ Kept
  BY <1>1, <1>7, SitesCall
<1>8. ASSUME n = 6, PutDevice(SeedDevice, SeedZone, ok)
      PROVE  StoresOK' /\ Kept
             /\ (ok => mem'.devices[SeedDevice] # Nowhere /\ disk'.devices[SeedDevice] # Nowhere)
  BY <1>1, <1>8, PutDeviceCall
<1>9. \/ n = 1 /\ PutSite(SeedSite, ok)
      \/ n = 2 /\ PutZone(SeedZone, SeedSite, FALSE, ok)
      \/ n = 3 /\ SetTelemetry(SeedZone, TRUE, ok)
      \/ n = 4 /\ PutContact(SeedContact, ok)
      \/ n = 5 /\ SetRouting(SeedSite, ok)
      \/ n = 6 /\ PutDevice(SeedDevice, SeedZone, ok)
  BY Zenon DEF SeedCall
<1>10. StoresOK' /\ Kept
  <2> HIDE DEF Kept
  <2> QED BY <1>3, <1>4, <1>5, <1>6, <1>7, <1>8, <1>9
<1>11. ASSUME ok, DoneTwice(n - 1) PROVE DoneTwice(n)'
  <2>1. PICK k \in 0 .. 5 : k = n - 1
    OBVIOUS
  <2>2. DoneTwice(k)'
    BY <1>2, <1>10, <1>11, <2>1
  <2>3. Done(mem', k) /\ Done(disk', k)
    BY <2>2 DEF DoneTwice
  <2> HIDE DEF Kept
  <2>4. Done(mem', n) /\ Done(disk', n)
    <3>1. CASE n = 1
      BY <1>3, <1>9, <1>11, <3>1 DEF Done
    <3>2. CASE n = 2
      BY <1>4, <1>9, <1>11, <2>1, <2>3, <3>2 DEF Done
    <3>3. CASE n \in {3, 5}
      BY <2>1, <2>3, <3>3 DEF Done
    <3>4. CASE n = 4
      BY <1>6, <1>9, <1>11, <2>1, <2>3, <3>4 DEF Done
    <3>5. CASE n = 6
      BY <1>8, <1>9, <1>11, <2>1, <2>3, <3>5 DEF Done
    <3> QED BY <3>1, <3>2, <3>3, <3>4, <3>5
  <2> QED BY <2>4 DEF DoneTwice
<1> QED BY <1>10, <1>11

(* A step of a seed: the request holds on to what its calls have done, and   *)
(* answers 200 only with all of it.                                          *)
LEMMA SeedSitesInv ==
    ASSUME SitesInv, NEW c \in Clients, NEW ok \in BOOLEAN, Seed(c, ok)
    PROVE  SitesInv'
<1>1. StoresOK /\ RequestsOK /\ SeedsStand /\ req[c] \in Request
  BY DEF SitesInv, RequestsOK
<1>2. PICK n \in 1 .. 6 : n = req[c].step
  BY <1>1 DEF RequestsOK, RequestOK, Seed
<1>3. PICK r : r = IF ok /\ n < 6 THEN [req[c] EXCEPT !.step = n + 1] ELSE Idle
  OBVIOUS
<1>4. /\ req[c].op = "seed" /\ SeedCall(n, ok)
      /\ req' = [req EXCEPT ![c] = r]
      /\ seeded' = (seeded \/ (ok /\ n = 6 /\ req[c].clean))
      /\ UNCHANGED reloaded
  BY <1>1, <1>2, <1>3 DEF Seed, SeedNext, RequestsOK
<1>5. ASSUME ok, n < 6
      PROVE  /\ r \in Request /\ r.op = "seed" /\ r.step = n + 1
             /\ r.clean = req[c].clean
  BY <1>1, <1>2, <1>3, <1>4, <1>5 DEF Request
<1>6. ASSUME ~(ok /\ n < 6) PROVE r = Idle
  BY <1>3, <1>6
<1>7. r \in Request /\ RequestOK(r) /\ r.op # "delete"
  BY <1>2, <1>5, <1>6, IdleFields DEF RequestOK
<1>8. Unlocked' <=> Unlocked
  BY <1>1, <1>4, <1>7 DEF Unlocked, RequestsOK
<1>9. /\ StoresOK'
      /\ \A k \in 0 .. 6 : DoneTwice(k) => DoneTwice(k)'
      /\ ok /\ DoneTwice(n - 1) => DoneTwice(n)'
  BY <1>1, <1>2, <1>4, <1>8, SeedCallDone
<1>10. ok /\ req[c].clean => DoneTwice(n)'
  <2>1. n - 1 \in 0 .. 6
    BY <1>2
  <2> QED BY <1>1, <1>2, <1>4, <1>9, <2>1 DEF SeedsStand
<1>11. ASSUME NEW k \in 0 .. 6, r.op = "seed", r.clean, k = r.step - 1
       PROVE  DoneTwice(k)'
  <2>1. ok /\ n < 6
    BY <1>6, <1>11, IdleFields
  <2>2. k = n
    <3>1. r.step = n + 1 /\ k = r.step - 1
      BY <1>5, <1>11, <2>1
    <3> QED BY <1>2, <3>1
  <2>3. req[c].clean
    BY <1>5, <1>11, <2>1, Zenon
  <2> QED BY <1>10, <2>1, <2>2, <2>3
<1>12. seeded' => seeded \/ DoneTwice(6)'
  BY <1>2, <1>4, <1>10
<1>13. RequestsOK' /\ SeedsStand'
  BY <1>1, <1>4, <1>7, <1>9, <1>11, <1>12, RequestMoves
<1> QED BY <1>4, <1>9, <1>13 DEF SitesInv, SeedsStand

(* A restart loads the files: they agree with themselves, and when no save   *)
(* had failed they agreed with the sites of the zones.                       *)
LEMMA RestartSitesInv ==
    ASSUME SitesInv, Restart
    PROVE  SitesInv'
<1>1. StoresOK
  BY DEF SitesInv
<1>2. /\ mem' = disk /\ disk' = disk /\ failed' = failed
      /\ unsaved' = {} /\ reloaded' = failed /\ seeded' = seeded
      /\ asked' = {z \in Zones : disk.zones[z].probe}
      /\ req' = [c \in Clients |-> Idle]
      /\ faults < MaxFaults /\ faults' = faults + 1
  BY DEF Restart
<1>3. faults' \in 0 .. MaxFaults
  BY <1>1, <1>2, SiteAssumption DEF StoresOK
<1>4. Consistent'
  BY <1>1, <1>2 DEF StoresOK, Consistent, ZonesHaveSites, NoOrphansOnDisk, SavedUnlessFailed,
     PendingSaves
<1>5. StoresOK'
  BY <1>1, <1>2, <1>3, <1>4 DEF StoresOK, ProbesKnown
<1>6. RequestsOK'
  BY <1>2, IdleFields DEF RequestsOK
<1>7. SeedsStand'
  BY <1>2, IdleFields DEF SitesInv, SeedsStand, DoneTwice
<1> QED BY <1>1, <1>2, <1>5, <1>6, <1>7 DEF SitesInv, StoresOK

(* Every step keeps the invariant. *)
LEMMA NextSitesInv ==
    ASSUME SitesInv, [Next]_vars
    PROVE  SitesInv'
<1>1. CASE UNCHANGED vars
  BY <1>1 DEF vars, SitesInv, StoresOK, RequestsOK, SeedsStand, DoneTwice, Consistent, ZonesHaveSites,
     NoOrphansOnDisk, SavedUnlessFailed, PendingSaves, ProbesKnown, Unlocked
<1>2. ASSUME NEW ok \in BOOLEAN,
             \/ \E s \in Sites : putSite(s, ok) \/ putSiteRouting(s, ok)
             \/ \E z \in Zones, s \in Sites, probe \in BOOLEAN : createZone(z, s, probe, ok)
             \/ \E z \in Zones, probe \in BOOLEAN : putTelemetry(z, probe, ok)
             \/ \E z \in Zones : deleteZone(z, ok)
             \/ \E d \in Devices, z \in Zones : putDevice(d, z, ok)
             \/ \E d \in Devices : deleteDevice(d, ok)
             \/ \E k \in Contacts : putContact(k, ok) \/ deleteContact(k, ok)
      PROVE  SitesInv'
  BY <1>2, OneCallSitesInv, DeletionSitesInv
<1>3. ASSUME NEW c \in Clients,
             \/ \E z \in Zones : putZone(c, z) \/ createDevice(c, z)
             \/ fwSeed(c)
             \/ SeedRefused(c)
      PROVE  SitesInv'
  BY <1>3, LookupsSitesInv
<1>4. ASSUME NEW c \in Clients, NEW ok \in BOOLEAN,
             \/ \E s \in Sites : deleteSite(c, s, ok)
             \/ deleteSiteSaves(c, ok)
             \/ \E probe \in BOOLEAN : putZoneWrites(c, probe, ok)
             \/ \E d \in Devices : createDeviceWrites(c, d, ok)
             \/ Seed(c, ok)
      PROVE  SitesInv'
  BY <1>4, DeleteSiteSitesInv, DeleteSiteSavesSitesInv, LateWriteSitesInv, SeedSitesInv
<1> QED BY <1>1, <1>2, <1>3, <1>4, RestartSitesInv DEF Next

--------------------------------------------------------------------------------
(* SiteStore: the theorems *)

(* The invariant holds in every state of the stores. *)
THEOREM StoresInvariant == Spec => []SitesInv
<1>1. Init => SitesInv
  BY InitSitesInv
<1>2. SitesInv /\ [Next]_vars => SitesInv'
  BY NextSitesInv
<1> QED BY <1>1, <1>2, PTL DEF Spec

(* Every map, file, request and record is what the code can store in it.     *)
THEOREM StoresTypeCorrect == Spec => []TypeOK
<1>1. SitesInv => TypeOK
  <2>1. DOMAIN Empty = Files
    BY DEF Empty, Files
  <2> QED BY <2>1 DEF SitesInv, StoresOK, RequestsOK, TypeOK
<1> QED BY <1>1, StoresInvariant, PTL

(* No order of requests, however many, leaves a zone in memory whose site is *)
(* gone, unless the maps were loaded after a save had failed (PutZone,       *)
(* DeleteSite).                                                              *)
THEOREM ZonesAlwaysHaveSites == Spec => []ZonesHaveSites
<1>1. SitesInv => ZonesHaveSites
  BY DEF SitesInv, StoresOK, Consistent
<1> QED BY <1>1, StoresInvariant, PTL

(* A kill between the two saves of DeleteSite, or anywhere else, leaves no   *)
(* zone on disk without its site, unless a save has failed.                  *)
THEOREM NeverOrphansOnDisk == Spec => []NoOrphansOnDisk
<1>1. SitesInv => NoOrphansOnDisk
  BY DEF SitesInv, StoresOK, Consistent
<1> QED BY <1>1, StoresInvariant, PTL

(* A restart loses nothing but what a failed, or the pending, save owed.     *)
THEOREM AlwaysSavedUnlessFailed == Spec => []SavedUnlessFailed
<1>1. SitesInv => SavedUnlessFailed
  BY DEF SitesInv, StoresOK, Consistent
<1> QED BY <1>1, StoresInvariant, PTL

(* Edits of a zone, alone or beside each other, do not lose the verification *)
(* probe that was set last, nor bring back one that was unset (PutZone,      *)
(* SetTelemetry).                                                            *)
THEOREM ProbeNeverLost == Spec => []ProbeNotLost
<1>1. SitesInv => ProbeNotLost
  BY DEF SitesInv, StoresOK, ProbesKnown, ProbeNotLost
<1> QED BY <1>1, StoresInvariant, PTL

(* A seed that answered 200 has left its site, zone, contact and device in   *)
(* memory and on disk, whatever ran beside it and however often the process  *)
(* was killed since, until something is deleted (fwSeed).                    *)
THEOREM SeedAlwaysStands == Spec => []SeedStands
<1>1. SitesInv => SeedStands
  BY DEF SitesInv, SeedsStand, DoneTwice, Done, SeedStands, Complete
<1> QED BY <1>1, StoresInvariant, PTL

--------------------------------------------------------------------------------
(* JsonStore: the invariant *)

SyncedBeforeRename ==
    /\ file.synced
    /\ \A f \in older : f.synced
    /\ pc = "sync" => tmp.data = data
    /\ pc \in {"close", "rename"} => tmp = [data |-> data, synced |-> TRUE]
    /\ pc # "idle" => data \in Docs /\ answer = "none" /\ before = file.data

FileInv == FileTypeOK /\ SyncedBeforeRename /\ AnswersAreTrue

Whole == [data : Docs \cup {Missing}, synced : BOOLEAN]

--------------------------------------------------------------------------------

(* There is no file at first. *)
LEMMA InitFileInv == FileInit => FileInv
BY JsonStoreAssumption
   DEF FileInit, FileInv, FileTypeOK, SyncedBeforeRename, AnswersAreTrue, NoFile, File, PC

(* A synced file survives a power loss as it is. *)
LEMMA SyncedSurvives ==
    ASSUME NEW f \in Whole, f.synced
    PROVE  Survivors(f) = {f}
BY DEF Survivors, Whole

(* Whatever survives of a temp file is a file. *)
LEMMA SurvivorType ==
    ASSUME NEW f \in File
    PROVE  Survivors(f) \subseteq File
<1>1. [f EXCEPT !.synced = TRUE] \in File
    BY DEF File
<1>2. [data |-> Torn, synced |-> TRUE] \in File
    BY DEF File
<1> QED BY <1>1, <1>2 DEF Survivors

(* The steps of a save that has not reached the rename. *)
LEMMA SavingFileInv ==
    ASSUME FileInv, (\E d \in Docs : SaveSlice(d)) \/ Open \/ Write \/ Sync \/ Close
    PROVE  FileInv'
<1> USE JsonStoreAssumption DEF FileInv, FileTypeOK, SyncedBeforeRename, AnswersAreTrue
<1>1. ASSUME NEW d \in Docs, SaveSlice(d) PROVE FileInv'
    BY <1>1 DEF SaveSlice, PC
<1>2. CASE Open
    BY <1>2 DEF Open, Goto, File, PC
<1>3. CASE Write
    BY <1>3 DEF Write, Goto, File, PC
<1>4. CASE Sync
    BY <1>4 DEF Sync, Goto, File, PC
<1>5. CASE Close
    BY <1>5 DEF Close, Goto, PC
<1> QED BY <1>1, <1>2, <1>3, <1>4, <1>5

(* The end of a save. *)
LEMMA SavedFileInv ==
    ASSUME FileInv, Rename \/ OpenFails \/ WriteFails \/ RenameFails
    PROVE  FileInv'
<1> USE JsonStoreAssumption DEF FileInv, FileTypeOK, SyncedBeforeRename, AnswersAreTrue
<1>1. CASE Rename
    <2>1. tmp = [data |-> data, synced |-> TRUE] /\ data \in Docs
        BY <1>1 DEF Rename
    <2>2. file' = tmp /\ older' = older \cup {file} /\ tmp' = NoFile
        BY <1>1 DEF Rename
    <2> QED BY <1>1, <2>1, <2>2 DEF Rename, NoFile, File, PC
<1>2. CASE OpenFails
    BY <1>2 DEF OpenFails, Fail, PC
<1>3. CASE WriteFails
    <2>1. tmp' \in File
        <3>1. NoFile \in File /\ [data |-> Torn, synced |-> FALSE] \in File
            BY DEF NoFile, File
        <3> QED BY <1>3, <3>1 DEF WriteFails
    <2>2. /\ pc' = "idle" /\ answer' = "error" /\ before = file.data
          /\ UNCHANGED <<file, older, data, before, losses>>
        BY <1>3 DEF WriteFails, Fail
    <2> QED BY <2>1, <2>2 DEF PC
<1>4. CASE RenameFails
    BY <1>4 DEF RenameFails, Fail, PC
<1> QED BY <1>1, <1>2, <1>3, <1>4

(* A power loss leaves one of the files that were renamed into place. *)
LEMMA PowerLossLeaves ==
    ASSUME FileInv, PowerLoss
    PROVE  file' \in {file} \cup older /\ file' \in Whole /\ file'.synced
<1>1. PICK f \in {file} \cup older : file' \in Survivors(f)
    BY DEF PowerLoss
<1>2. f \in Whole /\ f.synced
    BY DEF FileInv, FileTypeOK, SyncedBeforeRename, Whole
<1> QED BY <1>1, <1>2, SyncedSurvives

(* What the kernel, a kill or a power loss does keeps the invariant. *)
LEMMA SystemFileInv ==
    ASSUME FileInv, Flush \/ Kill \/ PowerLoss
    PROVE  FileInv'
<1> USE JsonStoreAssumption DEF FileInv, FileTypeOK, SyncedBeforeRename, AnswersAreTrue
<1>1. CASE Flush
    <2>1. file' = file
        BY <1>1 DEF Flush
    <2>2. tmp' \in File /\ tmp'.data = tmp.data /\ (tmp.synced => tmp' = tmp)
        BY <1>1 DEF Flush, File
    <2>3. older' = {} /\ UNCHANGED <<pc, data, answer, before, losses>>
        BY <1>1 DEF Flush
    <2> QED BY <2>1, <2>2, <2>3
<1>2. CASE Kill
    BY <1>2 DEF Kill, Lose, PC
<1>3. CASE PowerLoss
    <2>1. file' \in Whole /\ file'.synced
        BY <1>3, PowerLossLeaves
    <2>2. tmp' \in File
        <3>1. NoFile \in File /\ Survivors(tmp) \subseteq File
            BY SurvivorType DEF NoFile, File
        <3> QED BY <1>3, <3>1 DEF PowerLoss
    <2>3. /\ older' = {} /\ pc' = "idle" /\ answer' = "none"
          /\ losses' \in 0 .. MaxLosses /\ UNCHANGED <<data, before>>
        BY <1>3 DEF PowerLoss, Lose
    <2> QED BY <2>1, <2>2, <2>3 DEF Whole, PC
<1> QED BY <1>1, <1>2, <1>3

(* The file of a store satisfies the inductive invariant. *)
THEOREM FileInvariant == FileSpec => []FileInv
<1>1. FileInv /\ [FileNext]_fileVars => FileInv'
    <2> SUFFICES ASSUME FileInv, [FileNext]_fileVars PROVE FileInv'
        OBVIOUS
    <2>1. CASE UNCHANGED fileVars
        BY <2>1 DEF fileVars, FileInv, FileTypeOK, SyncedBeforeRename, AnswersAreTrue
    <2> QED BY <2>1, SavingFileInv, SavedFileInv, SystemFileInv DEF FileNext
<1> QED BY <1>1, InitFileInv, PTL DEF FileSpec

(* The file LoadSlice reads is a whole document or missing, always.          *)
THEOREM AlwaysParses == FileSpec => []FileTypeOK
<1>1. FileInv => FileTypeOK
    BY DEF FileInv
<1> QED BY <1>1, FileInvariant, PTL

(* What a save answered is what it did. *)
THEOREM AnswersAlwaysTrue == FileSpec => []AnswersAreTrue
<1>1. FileInv => AnswersAreTrue
    BY DEF FileInv
<1> QED BY <1>1, FileInvariant, PTL

--------------------------------------------------------------------------------
(* Refinement *)

Writing == IF pc = "idle" THEN Missing ELSE data
Older == {f.data : f \in older}

(* No file, no save: the promise begins. *)
LEMMA PromiseInit == FileInit => Promise!Init
BY DEF FileInit, Promise!Init, NoFile

(* Every step of WriteAtomic, its failures and its crashes is a step of      *)
(* AtomicFile or changes nothing it can see.                                 *)
LEMMA PromiseStep == FileInv /\ [FileNext]_fileVars => [Promise!Next]_(Promise!vars)
<1> SUFFICES ASSUME FileInv, [FileNext]_fileVars
             PROVE  Promise!Next \/ UNCHANGED <<file.data, Older, Writing>>
    BY DEF Promise!vars, Older, Writing
<1> USE DEF Writing
<1>1. pc # "idle" => Writing # Missing /\ data \in Docs
    BY JsonStoreAssumption DEF FileInv, SyncedBeforeRename
<1>2. ASSUME NEW d \in Docs, SaveSlice(d)
      PROVE  Promise!Begin(d)
    BY <1>2 DEF SaveSlice, Promise!Begin
<1>3. CASE Open \/ Write \/ Sync \/ Close
    BY <1>3 DEF Open, Write, Sync, Close, Goto, Older
<1>4. CASE Rename
    <2>1. file'.data = data /\ pc' = "idle" /\ older' = older \cup {file}
        BY <1>4 DEF Rename, FileInv, SyncedBeforeRename
    <2>2. Older' = Older \cup {file.data}
        BY <2>1 DEF Older
    <2> QED BY <1>1, <1>4, <2>1, <2>2 DEF Rename, Promise!Next, Promise!Replace, Older
<1>5. CASE OpenFails \/ WriteFails \/ RenameFails
    BY <1>1, <1>5 DEF OpenFails, WriteFails, RenameFails, Fail, Promise!Next, Promise!GiveUp, Older
<1>6. CASE Flush
    BY <1>6 DEF Flush, Promise!Next, Promise!Flush, FileInv, FileTypeOK
<1>7. CASE Kill
    BY <1>1, <1>7 DEF Kill, Lose, Promise!Next, Promise!GiveUp, Older
<1>8. CASE PowerLoss
    <2>1. file' \in {file} \cup older
        BY <1>8, PowerLossLeaves
    <2>2. file'.data \in {file.data} \cup {f.data : f \in older}
        BY <2>1
    <2>3. older' = {} /\ pc' = "idle"
        BY <1>8 DEF PowerLoss, Lose
    <2>4. {f.data : f \in older'} = {}
        BY <2>3
    <2> QED BY <2>2, <2>3, <2>4 DEF Promise!Next, Promise!PowerLoss
<1>9. CASE UNCHANGED fileVars
    BY <1>9 DEF fileVars, Older
<1> QED BY <1>2, <1>3, <1>4, <1>5, <1>6, <1>7, <1>8, <1>9 DEF FileNext, Promise!Next

(* WriteAtomic implements the atomic file. *)
THEOREM StoreRefinesFile == FileSpec => KeepsFilePromise
<1> QED BY FileInvariant, PromiseInit, PromiseStep, PTL
        DEF FileSpec, KeepsFilePromise, Promise!Spec

================================================================================
