# Verification of relay-edge

relay-edge keeps the places and seasons of a farm or plant, simulates three
kinds of equipment, stamps what happens with that context and publishes it to
Relay. This directory holds TLA+ models of its stateful parts, the TLC runs that
check them on small instances, and TLAPS proofs of what matters most for all
instances. Paths below are relative to the repository's root; `internal/x` is
`src/internal/x` in `PROJECT.json`.

## 1. The system

| Part | State | Operations | Correct when |
|---|---|---|---|
| Alarm book, `firewater/alarms.go` | a map from event type to alarm | Ingest (every tick), Ack, Shelve, List, each under `Book.mu` | no present condition is hidden or comes back silently; a shelf holds, and ends |
| Fire-water engine, `firewater/engine.go` | scenario, values, `running`, the stop channel; a goroutine per run | Start, Stop, Tick, SetScenario, Apply, Snapshot | one run ticks while `running`; no channel is closed twice; stopped runs end; the display converges to the plant |
| Fleet and remote-edge engines, `fleet/sim.go`, `remoteedge/sim.go` | the same, without a book | Start, Stop, Tick, SetScenario, SetInterval, Snapshot | the same, and a stopped run's goroutine leaves although Start is called again |
| Season store and lifecycle, `season/store.go`, `httpapi/server.go` | a map and its file | create, put, delete, open, close, stage, event, advisory | a status was granted by Relay or asked for; no update is lost; a deleted season stays deleted |
| Sites, zones, devices, contacts, `site/`, `device/`, `contact/` stores and their handlers | three stores, four files | CRUD, routing, telemetry probe, the fire-water seed | no zone without its site, after a kill too; no lost edit; a seed that answered 200 is complete |
| JSON files, `jsonstore/jsonstore.go` | a file and its temp file | LoadSlice, SaveSlice, WriteAtomic | what is loaded is a whole document; answers are true; old or new after a crash |
| Publisher and runtime config, `relaypub/client.go`, `httpapi/admin.go` | URLs, tokens, an HTTP client | publish via gateway (creating the topic on 404) or directly; config put, load | an event reaches Relay under one key, however often it is sent; settings answered with 200 survive a restart |
| Event streams and logs, `httpapi/{firewater,fleet,remoteedge,sim_publish}.go` | subscribers' queues of 16, logs of 400 | subscribe, broadcast, append | a browser misses no tick but those its queue had no room for; nobody waits for a slow one; no event changes while it is encoded |
| Rate limiter, `httpapi/ratelimit.go` | a token bucket per client | allow, with eviction | never more than the burst plus the rate times the time |
| Plant logic, `firewater/{engine,interlock,topology,codec}.go` | readings, `pumpOn` | step, Derive, Evaluate, SystemReady, ReadyWhy, RunWeeklyTest, Verify, Downstream | a scenario raises its alarms and nothing of an earlier one; readiness, alarms and interlocks agree |
| The rest: auth, body limit, metrics, log buffer, TLS files, catalogs, entry point | little | | unit-tested; listed as not modelled in `PROJECT.json` with the reasons |

How they interact. Every HTTP request is a goroutine; every started engine has
one more. Engines call back into the server (`onFleetTick`, `onFirewaterTick`)
outside their mutex; the server logs, publishes and broadcasts from there. The
fire-water engine calls its book with no engine mutex in `Tick` and with it in
`Snapshot`. Lifecycle handlers read a season, publish with no lock held, and
write the season back. The publish reads the stores for enrichment. Every store
saves its whole file under its mutex before it answers. At start, the stores
load their files; nothing else survives a restart.

Hard behaviour. Goroutines of stopped runs that are still inside a callback
when the next run starts; ticks that overtake each other between two mutexes;
state read before a publish and written after it; a publish whose answer is lost;
a publish retried, through a gateway that was changed meanwhile; a browser that
stops reading; a save that fails after memory was changed; a kill between two files, or between
a write and a rename; shelves that run out while alarms come and go. The list
with source lines is `hazards` in `PROJECT.json`, with the property that would
catch each, or why there is none.

## 2. Modules

| Module | Models | With |
|---|---|---|
| `Alarms` | what each call does to one alarm, as pure operators | used by the two below |
| `AlarmBook` | the book and its operator handlers alone, every order of calls | `MCAlarmBook`, `AlarmsProofs`, `AlarmBookProofs` |
| `TickStream` | abstract: runs begin, end and leave | |
| `SimEngine` | the fleet and remote-edge engines and their handlers; implements `TickStream` | `MCSimEngine`, `SimEngineProofs` |
| `FirewaterEngine` | the fire-water engine, its goroutines, its handlers, composed with the book | `MCFirewaterEngine`, `FirewaterProofs` |
| `FirewaterBook` | the book behind that engine, with AlarmBook's record of what was reported and handled; implements `AlarmBook` | `MCFirewaterEngine`, `FirewaterProofs` |
| `SeasonLifecycle` | one season: store, handlers, publishes, restarts | `MCSeasonLifecycle`, `SeasonProofs` |
| `SiteStore` | sites, zones, devices, contacts and the seed | `MCSiteStore`, `StoreProofs` |
| `AtomicFile` | abstract: a file replaced at one instant | |
| `JsonStore` | WriteAtomic one system call at a time; implements `AtomicFile` | `MCJsonStore`, `StoreProofs` |
| `RateLimiter` | the token buckets, requests that wait for the mutex, eviction | `MCRateLimiter`, `RateLimiterProofs` |
| `EventStream` | from a tick to the log, Relay and the browsers of one simulator | `MCEventStream`, `EventProofs` |
| `EventDelivery` | abstract: an event is handed over, takes effect once at most, and its publish ends | |
| `Publisher` | a publish to Relay, the settings it reads, their change, save and load; implements `EventDelivery` | `MCPublisher`, `EventProofs` |
| `Plant` | the readings of the three simulators, their events, the interlocks | `MCPlant`, `EventProofs` |

Each critical section of a mutex is one action; what happens between two of
them is interleaved with everything else. The definition names are the source's
where it has one. `StoreProofs` and `EventProofs` prove about the stores and about
the way of an event, several modules each; so that these can be extended
together, `JsonStore`, `EventStream` and `Plant` put their name before Init,
Next and Spec (`FileInit`, `StreamInit`, `PlantInit`). Beside a definition a run relies on stand one-line mutations of it,
the "plausible bugs": each run's properties are tried against them.

**Alarms and AlarmBook.** An alarm is its state, severity, count and the time
left on its shelf. The code stores a deadline and compares it with the clock;
the model stores the difference and counts it down (`Minute`), which needs no
absolute time. `left = 0` is a deadline at or before now, so a shelf made with a
non-positive duration ends at once, as in the code. `Wrap` is the int64
multiplication of `fwShelve`, scaled: durations wrap modulo twice
`DurationLimit`. Counts saturate at `CountCap`. The state "normal" is only ever
in an answer of Ack, never in the map. `plant` and `touched` record the last
Ingest and which alarms an operator handled since their condition last cleared.

**SimEngine.** Per run a goroutine: first tick, select, deliver, return. It has
captured its channel, so `TickerReturns(r)` tests `r \in closed`. Per request a
thread for the two-step handlers: SetScenario then Tick, Start or Stop then
Snapshot then broadcast. `step` computes every value from the scenario (plus
noise), so values are named by the scenario they come from. Start begins a run
only below `MaxRuns`; a start past that bound is not taken.

**FirewaterEngine.** The same, except that `TickerChooses(r)` copies the
engine's channel into the goroutine's select each time round (the code
evaluates `e.stop` there, without the mutex), and that a tick is four steps:
`TickSteps` (under `Engine.mu`), `TickIngests`, `TickLists` (each under
`Book.mu`), `Delivers`. `Conditions[s]` is what Derive yields in scenario `s`;
that this depends on the scenario alone follows from `healthyFleet`, which
resets every value at each step. The unlocked read of `e.stop` is a data race
with Start's write; as a word-sized read it yields the old or the new channel,
which the interleaving of `TickerChooses` with `StartRun` covers.

**FirewaterBook.** FirewaterEngine with AlarmBook's two histories, `plant` and
`touched`, written by the steps that use the book. AlarmBook lets the plant report
anything at any time; here the events come from ticks, possibly long after their
scenario was replaced, and several ticks overlap.

**SeasonLifecycle.** A request is at most three steps: the handler up to its
publish, the publish's outcome (accepted; failed; failed although it reached
Relay) and `UpdateStatus`. `Save(m, ok)` changes memory first and the file only
when the save works. Statuses are the three the documentation names (Put stores
whatever string it is given). `Restart` is a kill: the file is what the last
successful save wrote. That a save is atomic, and complete once answered, is
what `JsonStore` shows for kills; a power loss may bring back an older file
(`KeepsFilePromise`) and is not repeated here.

**SiteStore.** One record `mem` of the maps and one, `disk`, of the files.
`deleteSite` and `deleteSiteSaves` are the two saves of DeleteSite; the store's
mutex is held in between (`Unlocked`), so only a kill, or requests on devices
and contacts, can come between them. `putZone`/`putZoneWrites` and
`createDevice`/`createDeviceWrites` are the handlers that look up first. `Seed`
is one store call per step; its season is the seed of `SeasonLifecycle`.

**JsonStore.** The temp file's data, whether it has reached the disk, and the
older entries that a power loss may bring back under the path. A file that was
written and not synced may be torn after a power loss. Data synced before the
rename is why a torn document cannot appear under the path; that the directory
is not synced is why an older one can.

**RateLimiter.** `allow` reads the clock before it takes the mutex, so it is two
actions, `ReadClock` and `Allow`. Tokens are counted in the units of time they
take to earn, one token being `Cost` units (the code keeps a float number of
tokens): earning is then adding the time that passed, and the arithmetic is
linear. Rounding of floats is not modelled. `Observe` begins the window over
which `spent` counts what was granted, at any time, so that one invariant speaks
of all windows. `MaxWait` bounds how long a request may wait for the mutex.

**EventStream.** One simulator of the three; their handlers are the same code
with other names, but for one copy, and `copies` says which it is: the fleet and
remote-edge simulators' `publishSimEvent` adds the recommended action to a copy
of an event's map, fire-water's `publishFW` to the map itself. A deliverer is a
thread inside `processFleetTick` (the tick goroutine, or a request); it goes from
`append` over `publish`, `extra` and `stamp` to `broadcast`, one event at a time.
`TakesExtra` takes the map to add to, which puts the thread in `shared` where it
is the one in the log, and `publishSimEvent` adds to it, which puts the event in
`acted` where the log shows the addition. `mu` is the
mutex, named only where it is held over more than one step: while
`GET .../events` writes the log to its client. A subscriber registers, takes a
snapshot (`base` is the tick it shows), and then writes frames from its channel;
`seen` and `dropped` record what became of each tick.

**Publisher.** A publish is a thread: it looks at the gateway's URL, reads it
again, posts, and after an error that holds "404" creates the topic at the
gateway set by then and posts once more to the first one's URL. Each post may be
lost, or taken with its answer lost. `putAdminConfig` holds `pubMu` over three
steps (gateway, Relay, save), which publishes do not wait for. `Restart` loads
the file over the environment, as `main` does. `Forward` is the gateway's
delivery to Relay, external, any time later and any number of times.
`EventDelivery` is what of this a caller sees: how its publish ended, who holds
the event, and whether it took effect; gateways, keys, topics, retries and
settings are gone. `Promise` maps to it: held is what a gateway has accepted or
Relay applied, and effects counts the keys Relay took. A step of one publish
changes one event's part of that; a change of the settings changes nothing of it.

**Plant.** A pure part, in hundredths, with the operators named as in the code,
and a small state machine that runs scenarios one after the other.
`FirewaterHealthy` and its like hold each reading's centre and half width,
`FirewaterImposed` what each scenario sets. `Noises` are the functions that say
where in its band each reading falls, in percent of the half width: the code
draws each at random (`jitter`), so the proofs take any of them. Only readings a
modelled threshold looks at are kept. `SystemReady` and `ReadyWhy`, `Matrix`,
Derive and `WeeklyInhibited` are separate tables in the code and here, one
`When` per line of the code's.

## 3. Runs

| Run | Bounds | Distinct states | Shows |
|---|---|---|---|
| `alarm_book` | 2 types, counts to 2, shelves 1, default 2, overflow at 3 | 13,577 | `PresentIsListed`, `RecurrenceIsLoud`, `ShelfHonoured`, `ShelfExpires` |
| `sim_engine` | 2 runs, 2 requests, 2 scenarios | 17,772 | `NoDoubleClose`, `OneLiveTicker`, `StreamConverges`, and that it implements TickStream |
| `firewater_engine` | 2 runs, 1 request, 2 scenarios, 1 type | 502,805 | `RunningMeansTicking`, `StopEndsAll`, `PlantConverges`, `NoDoubleClose`, and that its book implements AlarmBook (`KeepsBook`) |
| `firewater_leak` | as above, one scenario | | counterexample, see below |
| `season_lifecycle` | 2 requests, 2 stages, 2 faults | 20,183 | `StatusWasGranted`, `StageNotLost`, `SavedUnlessFailed`, `DeletedStaysDeleted`, `OnlyEventsUndoClose` |
| `season_close` | 2 requests, no faults | | counterexample, see below |
| `site_store` | 2 sites, 1 zone, 1 device, 1 contact, 2 requests, 2 faults | 274,074 | `ZonesHaveSites`, `NoOrphansOnDisk`, `SavedUnlessFailed`, `ProbeNotLost`, `SeedStands` |
| `json_store` | 3 documents, 2 kills or power losses | 10,806 | `AnswersAreTrue`, that it implements AtomicFile |
| `rate_limiter` | 2 clients, 2 requests, bursts of 1, time to 8 | 933,192 | `WindowBound`, `StaleBucketsGo` |
| `event_stream` | 2 deliverers, 1 subscriber, 1 reader, a queue of 1, a log of 2, 2 ticks of at most 1 event, with and without the copy | 321,408 | `NothingMissed`, `ToldOnce`, `StoredStandsOnceTold`, `NobodyIsStuck` |
| `publisher` | 2 events, 2 gateways, 2 Relays, 2 changes, 1 restart | 1,065,256 | `PublishedOnce`, `ConfigSurvives`, that it implements EventDelivery (`KeepsDeliveryPromise`) |
| `plant` | all scenarios, and one unknown; noise at one end or the centre for all readings, or for all but one | 38,787 | `ScenarioIsHeard`, `InterlocksAgree` |

Why the bounds are enough. Two runs make the case that matters: a goroutine of
the first run meets the channel of the second; a third run meets the second as
the second met the first, and the proofs hold for any number. Two requests give
every overlap of two read-publish-write sequences, which is where an update is
lost. Alarm types do not affect each other; the second one is there for what one
Ingest does to the types it does not contain. A shelf of one minute, the
default, and one request past the overflow exercise each branch of
`ShelfLength`. Two faults allow a failed save followed by a kill. In `json_store`
three documents distinguish the one being saved, the one in place and the one
before it, and two losses a power loss right after a recovery. In `rate_limiter`
a token takes two units of time, so buckets hold fractions of one; two requests
overtake each other, and eight units hold two evictions, a window on each side
of either, and requests that wait across them. In `event_stream` two deliveries
overlap at every step, of a simulator that copies and of one that does not;
two ticks, or one and an announcement, overflow the queue, and the log holds both events, so that one of them could be in it twice; that a full
log drops its last entry is covered by the proofs, for any size (`LogCut`,
`LogKeeps`). A second subscriber would share nothing with the first but the
mutex. In `publisher` a second change can
undo the first, or clear the gateway, between any two steps of a publish; the
proofs hold for any numbers. In `plant` each threshold looks at one reading, or
at two in a disjunction or conjunction that is worst at a corner, so that noise
at the ends of the bands, one reading apart, reaches each worst case; the proofs
need no such argument, as they hold for any noise. Each
step's result depends on its scenario and its noise, so that two steps give
every pair of scenarios.

Fairness. A goroutine that can run does, a ticker that can fire does, and a
request once accepted is carried through: weak fairness of those actions, which
is what the Go scheduler and the timers provide. Go's `select` picks among ready
cases uniformly, so a stop case offered again and again is taken: strong
fairness of `TickerReturns`, needed because the timer may be ready each time.
Nobody has to send a request. In `AlarmBook` minutes pass and a running engine
ingests, nothing else. In `EventStream` a thread that waits for the mutex gets it
if it is free again and again, as Go's mutex hands over to a waiter that starves,
and a done context is taken by `select` likewise: strong fairness of deliveries
and of the handlers' steps, but not of a write to a client that is there and
does not read, nor of the reader of the log. `NobodyIsStuck` is therefore stated
under `[]<>(mu = Free)`. A deadlock is an error in every run but `publisher`,
whose events, changes and restarts all end.

### What the code does otherwise

* `firewater_leak`: `StoppedRunLeaves` is what the tests `fleet/restart_test.go`
  and `remoteedge/restart_test.go` require of their engines: "A goroutine from a
  stopped run must exit even if Start is called again before it reaches its
  select (it must not adopt the new stop channel)." The fire-water engine has
  the same Start and Stop and no such test, and its goroutine reads `e.stop` at
  each select (`engine.go:212`). In the counterexample the goroutine of run 1 is
  in its tick while Stop and Start happen; it then waits on the channel of run
  2, and two goroutines tick until the next Stop. What still holds
  (`RunningMeansTicking`, `StopEndsAll`, `NoDoubleClose`) shows the extent: the
  ticking never stops wrongly, and the next Stop that lasts ends them all.
* `season_close`: `docs/API.md` says of `POST /v1/seasons/{id}/close`:
  "→ `closed`". `publishSeasonEvent` reads an active season, publishes, and
  records the event's id with `UpdateStatus(it.ID, it.Status, ...)`
  (`server.go:601`). When a close runs during the publish, the write-back makes
  the season active again. `OnlyEventsUndoClose` shows the extent: while the close
  is the last word, nothing but such a write-back undoes it.

### Noticed while modelling

Not stated by any document, so no finding, but worth a look:

* `publishFW` (`firewater.go:276`) writes `recommended_action` to the map that is
  already in the log, where `sim_publish.go:23` copies "so the caller's map
  (already stored/broadcast) is not mutated". `GET /v1/firewater/events` may be
  encoding the map while it is written to, which ends a Go process; the run
  `event_stream` has states where a reader holds the mutex and a delivery may
  write to an event in the log. The comment is about `publishSimEvent`, which keeps to it.
  `StoredStandsOnceTold` shows how far the write goes: no other simulator does
  it, and it is over before any browser is told of the event.
* `GET .../events` holds the simulator's mutex while it writes to its client, and
  `main` sets no write timeout, so a client that does not read stops ticks and
  streams: the assumption of `NobodyIsStuck`.
* `severity` (`engine.go:461`) has `value <= *s.Crit` in both branches: a leak
  sensor at 38 dB of 75 reads critical.
* A retry is made after any error whose text holds "404" (`client.go:89`), and
  its topic is created at the gateway set by then, which need not be the one the
  post goes to. Relay's deduplication makes that harmless (`PublishedOnce`).
* `applyRuntime` clears the cached HTTP client without a lock the publishes take;
  one that builds a client just then may store it, old TLS flag and all
  (`client.go:38`).
* In scenarios `lowpress` and `pumpfail` the plant is "system ready — standing
  pressure available": readiness looks at no pressure.

## 4. Proofs

Each theorem holds for every value of the constants that satisfies the module's
ASSUME: any number of alarm types, runs, requests, documents, crashes. Every
safety property the passing runs check is a theorem, and the type invariants of
`SeasonLifecycle`, `SiteStore` and `RateLimiter`, which no run lists, are too.

* `AlarmsProofs` has a type lemma for each operator of `Alarms`, from which
  `AlarmBookProofs` shows that each call keeps the inductive invariant: TypeOK,
  the properties `PresentIsListed` and `RecurrenceIsLoud`, and what they need of
  an alarm whose condition is gone and untouched (it is returned, absent or
  still shelved), so that the next Ingest is loud. `ShelvesAreHonoured` is an
  action property that follows from types alone, one action at a time.
* `SimEngineProofs`: the invariant says that the runs begun are exactly `1 ..
  started`, that channels are closed only for begun runs, that all runs but the
  last have theirs closed, and the last has it open exactly while `running`. It
  gives `NoDoubleClose` and `OneLiveTicker`, and each step of the engine is a step
  or a stutter of `TickStream` (`EngineRefinesStream`).
* `FirewaterProofs`: a goroutine may hold any run's channel, so that less is
  true than of the other engines. The invariant is `TypeOK`, `NoDoubleClose`,
  `RunningMeansTicking` and `ClosedWereBegun`, that only channels of runs that
  began are closed: the channel Start makes is therefore open, and the goroutine
  it begins does not find it closed.
* `FirewaterProofs`, second part, `FirewaterBook`: every step of the engine is a step
  of AlarmBook or leaves it as it is (`EngineKeepsBook`). A tick that feeds the
  book is an Ingest of `Reported(s)`, the events of its scenario without those the book
  passes over (`FeedingIsIngest`); that it may be late does not matter, as AlarmBook
  takes any events in any order. `BookThm` is the instance of AlarmBookProofs that
  carries the book's theorems over: `EngineListsPresent`, `EngineRaisesAgain`,
  `EngineHonoursShelves`.
* `StoreProofs`, first part, `SiteStore`. The properties are not inductive: what
  follows them across a restart is what the files hold, and between the two
  saves of a deletion the files are not the maps. `SitesInv` adds `PendingSaves`
  (unless a save has failed, the only file that may differ from its map is the
  sites', and only while a deletion is about to save it, with the mutex held),
  `ProbesKnown` (the record `asked` is what the zones hold) and `SeedsStand`
  (a seed at step n has left what its first n - 1 calls promise, in memory and on
  disk, as long as it is `clean`: no deletion has run). A call is proved by what
  it does to its one map (`SaveKeeps`, `CallKeeps`), and the seed by lemmas that
  adding never takes away (`AddingStays`). The sites' file may only name too
  many sites during a deletion, which is why `NoOrphansOnDisk` survives a kill
  there: the order of the two saves is what the proof of
  `DeleteSiteSitesInv` uses.
* `StoreProofs`, second part, `JsonStore`: the invariant says what the temp file
  holds at each point of WriteAtomic (from `close` on, the whole document, synced)
  and that the file is unchanged since the save began. It gives `AlwaysParses`, `AnswersAlwaysTrue`
  and the refinement of AtomicFile, in which only `Rename` and `PowerLoss` change
  the contents.
* `RateLimiterProofs`: `WindowBound` alone is not inductive, as it says nothing of
  what a bucket still holds. A request still to come has a time of at least
  `clock - MaxWait`; a bucket is worth what it will hold then, and an evicted one
  is worth the full bucket its client will get back. `Budget` says that what was
  granted and what the bucket is worth are together a burst and the time. The
  assumption `EvictionIsLate`, that a burst is earned in less than the ten
  minutes of `staleAfter`, is stated in the property: the code does not ask it of
  its flags, and where it fails an idle client gains by the eviction.
* `SeasonProofs`: `StatusWasGranted` needs `WriteBacksGranted`: the status a
  request holds for its write-back is one Relay has been told of, or, for an
  event, one the season had; what was granted stays granted. `StageNotLost` and
  `SavedUnlessFailed` are inductive with it. `DeletedStaysDeleted` follows from
  the actions alone: those that could bring the season back require it present.
  `OnlyEventsUndoClose` needs `CloseInv`: while `closing` holds no open and no seed
  is in progress, and a request writes back what its kind writes. A step of one
  request has only its own to answer for (`OneFits`), but for the write-back of a close,
  which sets `closing` only when no open or seed is in progress.
* `EventProofs`, `Plant`. `PlantInv`: whatever ran before, the readings lie in the
  bands of the scenario last ticked (`InBands`), wherever the noise put them, and
  the events are Derive's of those. That every tick re-establishes it from
  nothing is the code's `healthyFleet`. The properties then follow from the bands
  and the thresholds alone. Most of the tables agree for any readings
  (`ReadyIsWhyNot`); where they do not, because one compares with `>` and another
  with `>=`, or looks at two readings and the other at one, it is the bands that
  make them agree, and `BandsAvoid` lists what that rests on: no band reaches
  a tank level of exactly 50 % or a riser pressure of exactly 4 bar, a
  low UPS comes with the mains off, high CO with high LEL, and a pump that fails
  to start with a diesel controller that is not ready. A new scenario or a wider
  band that breaks one of these makes the display contradict itself.
* `EventProofs`, `EventStream`. `NothingMissed` needs, beside the types, that a frame
  on its way and a tick already broadcast are ones the plant has made
  (`TicksAreMade`): the next tick is therefore new to every browser, and a browser's
  snapshot shows no tick it then waits for. `StreamTypeCorrect` includes the
  bounds of the log and of the channels, for any sizes: `LogKeeps` and
  `TrySendKeeps` are the lemmas about the operators that cut and fill them.
* `EventProofs`, nothing is told twice. `ToldOnce` is not inductive: it speaks of
  what is in the log and the channels, not of what overlapping deliveries still
  carry. `OnceInv` adds that two deliveries never carry the same tick
  (`FramesApart`), that what a browser has seen, has queued or has lost was broadcast
  (`ToldIsSent`), and that the log runs behind the deliveries that have yet to
  append (`LogRunsBehind`), so that an event appended is not in the log already.
  `LogCut` and `TrySendAppends` say entry by entry what the log's cut and a full
  channel keep.
* `EventProofs`, what is stored is written to only before it is told
  (`StoredStands`, an action property). It has no hypothesis on `copies`, so that it
  speaks of fire-water too. `OnlyPublishActs` goes through the actions: what is new
  in `acted` is the current event of a thread in `shared`. That such a thread is one of
  a simulator that does not copy is an invariant of its own (`SharedIsUncopied`); that
  its tick has not been broadcast, by this delivery or by any other, is `FramesApart`.
* `EventProofs`, `Publisher`: the invariant adds to the two properties that settings in
  memory and on disk always have a Relay URL, which is why a saved file hides the
  whole environment (`SavedIsLoaded`), and that every key outside the process is
  the one built with the event's bytes.
* `EventProofs`, the refinement (`PublisherKeepsPromise`). A key belongs to one
  event (`OneKeyEach`), so `DeliveryStep` can turn a step of one publish into a
  `Deliver` of that event: what the step adds to the gateways and to Relay is what is
  handed over, and a key Relay knows is not applied again. `PublishDelivers` goes
  through the steps of a publish, `ForwardDelivers` is the gateway's late or repeated
  delivery, `RestartCrashes` the kill, which fails every publish in progress and takes
  back no answer; the operator's steps leave `EventDelivery` as it is.

Model-checked only: all liveness (`ShelfExpires`, `StreamConverges`,
`StopEndsAll`, `PlantConverges`, `NobodyIsStuck`, the fairness part of
`KeepsStreamPromise`), which is out of the prover's reach.

## 5. Plan

What is left:

1. Composition: the fire-water tick's publishes with the season they stamp.
2. The time of a lifecycle event's idempotency key (`server.go:487`), which would need
   a clock in `SeasonLifecycle`.

### Not modelled

* Display severities, `Verify`, the topology graph, Sparkplug and Modbus
  encodings: stateless functions whose results no other part reads.
* Enrichment (`resolveEnrich`, `stampData`): a reading of several stores that is
  not one snapshot and promises nothing.
* The publisher's tokens, cached HTTP client, probe and inventory; intervals and
  ticker periods (ticks come at any time in the models); telemetry switches.
* Authentication, body limit, metrics, log buffer: stateless wrappers and
  counters, unit-tested. TLS files: written once at start; a torn pair is listed
  as a hazard.
* Catalogs beyond the values `Plant` uses, the entry point beyond what `Restart`
  loads, web assets.
