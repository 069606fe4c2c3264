------------------------------- MODULE EventStream -----------------------------
(***************************************************************************)
(* How a simulator's ticks reach its event log, Relay and the browsers     *)
(* (internal/httpapi/fleet.go, remoteedge.go, firewater.go: the same code  *)
(* but for one copy, see copies; sim_publish.go).                          *)
(*                                                                         *)
(* A delivery is the tick goroutine or a request inside                    *)
(* processFleetTick: it appends each event to the log, publishes it, and   *)
(* broadcasts one frame.  A subscriber is a GET .../stream with a channel  *)
(* of QueueCap frames.  One mutex, fleetMu, guards the log and the set of  *)
(* channels; GET .../events holds it while it encodes and sends the log.   *)
(*                                                                         *)
(* Abstractions: a snapshot is the number of ticks the plant had made when *)
(* it was taken; an event is its tick and place; the publish itself ends   *)
(* one way or the other (PublishEventType has a timeout) and is in         *)
(* Publisher; what a frame looks like is left out.                         *)
(***************************************************************************)
EXTENDS Naturals, Sequences, FiniteSets

CONSTANTS
    Deliverers,   \* threads that can be inside a delivery at once
    Subscribers,  \* clients of GET .../stream
    Readers,      \* clients of GET .../events
    QueueCap,     \* frames a subscriber's channel holds (16)
    LogCap,       \* events the log keeps (400)
    MaxEvents,    \* bound of the model: events of one tick
    MaxTicks,     \* bound of the model: ticks of the plant
    Free          \* nobody holds fleetMu over more than one step

ASSUME EventStreamAssumption ==
    /\ {QueueCap, LogCap, MaxEvents} \subseteq Nat \ {0}
    /\ MaxTicks \in Nat
    /\ Free \notin Readers

VARIABLES
    plant,       \* ticks the engine has made
    publishing,  \* fleetPublish, switched by POST .../config
    delivery,    \* delivery[d]: where thread d is in processFleetTick
    log,         \* fleetEventsLog, newest first
    copies,      \* which simulator this is: publishSimEvent copies an event's
                 \* map (fleet, remote-edge), publishFW does not (fire-water)
    shared,      \* threads whose publish has the map that is in the log
    acted,       \* events whose map in the log has the recommended action
    mu,          \* fleetMu: the reader that holds it, or Free
    sub,         \* sub[s]: where the stream handler of s is
    queue,       \* queue[s]: the channel of s
    gone,        \* subscribers whose request context is done
    base,        \* base[s]: the tick of the first snapshot sent to s
    sent,        \* history: ticks that have been broadcast
    seen,        \* history: seen[s]: ticks written to s
    dropped      \* history: dropped[s]: ticks that found the channel of s full

streams == <<sub, queue, gone, base, seen, dropped>>

maps == <<copies, shared, acted>>

streamVars == <<plant, publishing, delivery, log, maps, mu, streams, sent>>

Ticks == 1 .. MaxTicks
Event == [tick : Ticks, place : 1 .. MaxEvents]

(* A frame is the tick it shows with its events, or the announcement of a    *)
(* start or stop, which shows no step and carries no event.                  *)
Announcement == 0
Frame == Ticks \cup {Announcement}

DeliveryPC == {"idle", "append", "publish", "extra", "stamp", "broadcast"}
SubPC == {"away", "registered", "first", "write", "select", "leaving"}

(* A delivery: the frame to broadcast, and the events appended so far of     *)
(* those Derive yielded.                                                     *)
Delivery ==
    [pc : DeliveryPC, frame : Frame, count : 0 .. MaxEvents, place : 1 .. MaxEvents]

Idle == [pc |-> "idle", frame |-> Announcement, count |-> 0, place |-> 1]

Current(d) == [tick |-> delivery[d].frame, place |-> delivery[d].place]

StreamInit ==
    /\ plant = 0
    /\ publishing = FALSE
    /\ delivery = [d \in Deliverers |-> Idle]
    /\ log = <<>>
    /\ copies \in BOOLEAN
    /\ shared = {}
    /\ acted = {}
    /\ mu = Free
    /\ sub = [s \in Subscribers |-> "away"]
    /\ queue = [s \in Subscribers |-> <<>>]
    /\ gone = {}
    /\ base = [s \in Subscribers |-> 0]
    /\ sent = {}
    /\ seen = [s \in Subscribers |-> {}]
    /\ dropped = [s \in Subscribers |-> {}]

--------------------------------------------------------------------------------
(* Plausible bugs, one per property a run checks *)

RegisteredAfterFirstFrame == {s \in Subscribers : sub[s] \notin {"away", "registered", "first"}}

TrySendUnbounded(q, frame) == Append(q, frame)

(* The copy is lost: extra := ev.Data, as publishFW has it.                  *)
NeverCopies(d) ==
    /\ delivery[d].pc = "extra"
    /\ shared' = shared \cup {d}
    /\ delivery' = [delivery EXCEPT ![d].pc = "stamp"]
    /\ UNCHANGED <<plant, publishing, log, copies, acted, mu, streams, sent>>

(* go s.publishSimEvent(ev): the delivery does not wait for the publish. *)
PublishesInBackground(d) ==
    /\ delivery[d].pc = "publish"
    /\ publishing
    /\ \E c \in Deliverers \ {d} :
          /\ delivery[c].pc = "idle"
          /\ delivery' = [delivery EXCEPT ![c] = [delivery[d] EXCEPT !.pc = "extra"],
                                          ![d].pc = "broadcast"]
    /\ UNCHANGED <<plant, publishing, log, maps, mu, streams, sent>>

(* start and stop hand their snapshot to processFleetTick. *)
AnnouncesAsTick(d) ==
    /\ delivery[d].pc = "idle"
    /\ delivery' = [delivery EXCEPT ![d].pc = "broadcast", ![d].frame = plant]
    /\ UNCHANGED <<plant, publishing, log, maps, mu, streams, sent>>

(* The send of broadcastFleet without its default case. *)
BroadcastsBlocking(d) ==
    /\ delivery[d].pc = "broadcast"
    /\ mu = Free
    /\ \A s \in Subscribers : sub[s] # "away" => Len(queue[s]) < QueueCap
    /\ queue' = [s \in Subscribers |->
                    IF sub[s] # "away" THEN Append(queue[s], delivery[d].frame) ELSE queue[s]]
    /\ sent' = sent \cup ({delivery[d].frame} \ {Announcement})
    /\ delivery' = [delivery EXCEPT ![d] = Idle]
    /\ UNCHANGED <<plant, publishing, log, maps, mu, sub, gone, base, seen, dropped>>

--------------------------------------------------------------------------------
(* Deliveries *)

(* The keys of fleetSubs: a handler adds its channel before it takes the     *)
(* first snapshot, and deletes it when it returns.                           *)
Registered == {s \in Subscribers : sub[s] # "away"}

(* select with a default case: the frame goes in if there is room.           *)
TrySend(q, frame) == IF Len(q) < QueueCap THEN Append(q, frame) ELSE q

(* After an event comes the next one, or the broadcast.                      *)
After(dv) ==
    IF dv.place < dv.count
    THEN [dv EXCEPT !.pc = "append", !.place = @ + 1]
    ELSE [dv EXCEPT !.pc = "broadcast"]

(* A tick of the plant, by its goroutine or by POST .../tick or .../scenario, *)
(* and what Derive makes of it.                                              *)
PlantTicks(d) ==
    /\ delivery[d].pc = "idle"
    /\ plant < MaxTicks
    /\ plant' = plant + 1
    /\ \E count \in 0 .. MaxEvents :
          delivery' = [delivery EXCEPT ![d] =
              [pc |-> IF count = 0 THEN "broadcast" ELSE "append",
               frame |-> plant + 1, count |-> count, place |-> 1]]
    /\ UNCHANGED <<publishing, log, maps, mu, streams, sent>>

(* POST .../start and .../stop broadcast a snapshot without a step.         *)
Announces(d) ==
    /\ delivery[d].pc = "idle"
    /\ delivery' = [delivery EXCEPT ![d].pc = "broadcast"]
    /\ UNCHANGED <<plant, publishing, log, maps, mu, streams, sent>>

appendFleetEvent(d) ==
    /\ delivery[d].pc = "append"
    /\ mu = Free
    /\ log' = LET longer == <<Current(d)>> \o log
              IN  IF Len(longer) > LogCap THEN SubSeq(longer, 1, LogCap) ELSE longer
    /\ delivery' = [delivery EXCEPT ![d].pc = "publish"]
    /\ UNCHANGED <<plant, publishing, maps, mu, streams, sent>>

(* The switch is read with no lock; the season may be missing, and then      *)
(* nothing is published either.                                              *)
ChecksPublish(d) ==
    /\ delivery[d].pc = "publish"
    /\ \/ delivery' = [delivery EXCEPT ![d] = After(@)]
       \/ publishing /\ delivery' = [delivery EXCEPT ![d].pc = "extra"]
    /\ UNCHANGED <<plant, publishing, log, maps, mu, streams, sent>>

(* The map to add to: publishSimEvent makes one and copies the event's into  *)
(* it, publishFW takes the event's own.                                      *)
TakesExtra(d) ==
    /\ delivery[d].pc = "extra"
    /\ shared' = IF copies THEN shared ELSE shared \cup {d}
    /\ delivery' = [delivery EXCEPT ![d].pc = "stamp"]
    /\ UNCHANGED <<plant, publishing, log, copies, acted, mu, streams, sent>>

(* The action Derive recommends, if it does, is added to that map with no    *)
(* lock; then it is sent to Relay, or that fails.                            *)
publishSimEvent(d) ==
    /\ delivery[d].pc = "stamp"
    /\ acted' \in {acted, IF d \in shared THEN acted \cup {Current(d)} ELSE acted}
    /\ shared' = shared \ {d}
    /\ delivery' = [delivery EXCEPT ![d] = After(@)]
    /\ UNCHANGED <<plant, publishing, log, copies, mu, streams, sent>>

broadcastFleet(d) ==
    LET frame == delivery[d].frame
        tick == {frame} \ {Announcement}
    IN  /\ delivery[d].pc = "broadcast"
        /\ mu = Free
        /\ queue' = [s \in Subscribers |->
                        IF s \in Registered THEN TrySend(queue[s], frame) ELSE queue[s]]
        /\ dropped' = [s \in Subscribers |->
                        IF s \in Registered /\ Len(queue[s]) = QueueCap
                        THEN dropped[s] \cup tick ELSE dropped[s]]
        /\ sent' = sent \cup tick
        /\ delivery' = [delivery EXCEPT ![d] = Idle]
        /\ UNCHANGED <<plant, publishing, log, maps, mu, sub, gone, base, seen>>

(* POST .../config. *)
fleetConfig(on) ==
    /\ publishing' = on
    /\ UNCHANGED <<plant, delivery, log, maps, mu, streams, sent>>

--------------------------------------------------------------------------------
(* GET .../stream *)

(* A handler starts: its channel goes into fleetSubs.                        *)
Registers(s) ==
    /\ sub[s] = "away"
    /\ mu = Free
    /\ sub' = [sub EXCEPT ![s] = "registered"]
    /\ UNCHANGED <<plant, publishing, delivery, log, maps, mu, queue, gone, base, sent, seen, dropped>>

(* The first snapshot, taken under the engine's mutex only; then its write   *)
(* to the client is under way.                                               *)
TakesSnapshot(s) ==
    /\ sub[s] = "registered"
    /\ base' = [base EXCEPT ![s] = plant]
    /\ sub' = [sub EXCEPT ![s] = "first"]
    /\ UNCHANGED <<plant, publishing, delivery, log, maps, mu, queue, gone, sent, seen, dropped>>

(* A write returns: the client took it, or has gone.                         *)
Written(s) ==
    /\ sub[s] \in {"first", "write"}
    /\ sub' = [sub EXCEPT ![s] = "select"]
    /\ UNCHANGED <<plant, publishing, delivery, log, maps, mu, queue, gone, base, sent, seen, dropped>>

(* select takes a frame from the channel and begins to write it.             *)
Receives(s) ==
    /\ sub[s] = "select"
    /\ queue[s] # <<>>
    /\ seen' = [seen EXCEPT ![s] = @ \cup ({Head(queue[s])} \ {Announcement})]
    /\ queue' = [queue EXCEPT ![s] = Tail(@)]
    /\ sub' = [sub EXCEPT ![s] = "write"]
    /\ UNCHANGED <<plant, publishing, delivery, log, maps, mu, gone, base, sent, dropped>>

(* The client closes the connection: its request's context is done.          *)
HangsUp(s) ==
    /\ s \in Registered \ gone
    /\ gone' = gone \cup {s}
    /\ UNCHANGED <<plant, publishing, delivery, log, maps, mu, sub, queue, base, sent, seen, dropped>>

(* select takes Done, and the handler returns.                               *)
TakesDone(s) ==
    /\ sub[s] = "select"
    /\ s \in gone
    /\ sub' = [sub EXCEPT ![s] = "leaving"]
    /\ UNCHANGED <<plant, publishing, delivery, log, maps, mu, queue, gone, base, sent, seen, dropped>>

(* The deferred delete; the channel is garbage from then on.                 *)
Leaves(s) ==
    /\ sub[s] = "leaving"
    /\ mu = Free
    /\ sub' = [sub EXCEPT ![s] = "away"]
    /\ gone' = gone \ {s}
    /\ queue' = [queue EXCEPT ![s] = <<>>]
    /\ base' = [base EXCEPT ![s] = 0]
    /\ seen' = [seen EXCEPT ![s] = {}]
    /\ dropped' = [dropped EXCEPT ![s] = {}]
    /\ UNCHANGED <<plant, publishing, delivery, log, maps, mu, sent>>

--------------------------------------------------------------------------------
(* GET .../events: encodes and sends the log under the mutex *)

fleetEvents(r) ==
    /\ mu = Free
    /\ mu' = r
    /\ UNCHANGED <<plant, publishing, delivery, log, maps, streams, sent>>

fleetEventsSent(r) ==
    /\ mu = r
    /\ mu' = Free
    /\ UNCHANGED <<plant, publishing, delivery, log, maps, streams, sent>>

--------------------------------------------------------------------------------

StreamNext ==
    \/ \E d \in Deliverers :
          \/ PlantTicks(d)
          \/ Announces(d)
          \/ appendFleetEvent(d)
          \/ ChecksPublish(d)
          \/ TakesExtra(d)
          \/ publishSimEvent(d)
          \/ broadcastFleet(d)
    \/ \E on \in BOOLEAN : fleetConfig(on)
    \/ \E s \in Subscribers :
          \/ Registers(s)
          \/ TakesSnapshot(s)
          \/ Written(s)
          \/ Receives(s)
          \/ HangsUp(s)
          \/ TakesDone(s)
          \/ Leaves(s)
    \/ \E r \in Readers : fleetEvents(r) \/ fleetEventsSent(r)

StreamSpec == StreamInit /\ [][StreamNext]_streamVars

(* What thread d, and the handler of s, are bound to go on with.             *)
Carries(d) ==
    \/ appendFleetEvent(d) \/ ChecksPublish(d) \/ TakesExtra(d)
    \/ publishSimEvent(d) \/ broadcastFleet(d)

Handles(s) == TakesSnapshot(s) \/ (s \in gone /\ Written(s)) \/ Leaves(s)

(* A thread that can run does; one that waits for the mutex gets it if it is *)
(* free again and again (Go's mutex hands over to a waiter it has starved),  *)
(* and select takes a case that is ready again and again: strong fairness.   *)
(* A write to a client that has gone returns; one to a client that does not  *)
(* read need not, and nothing makes a reader of the log read.                *)
Fairness ==
    /\ \A d \in Deliverers : SF_streamVars(Carries(d))
    /\ \A s \in Subscribers : SF_streamVars(Handles(s)) /\ SF_streamVars(TakesDone(s))

FairSpec == StreamSpec /\ Fairness

--------------------------------------------------------------------------------
(* Properties *)

(* Every variable ranges over what the code can store in it; no channel      *)
(* holds more than its capacity and the log no more than it keeps.           *)
TypeOK ==
    /\ plant \in 0 .. MaxTicks
    /\ publishing \in BOOLEAN
    /\ delivery \in [Deliverers -> Delivery]
    /\ log \in Seq(Event) /\ Len(log) <= LogCap
    /\ copies \in BOOLEAN /\ shared \subseteq Deliverers /\ acted \subseteq Event
    /\ mu \in Readers \cup {Free}
    /\ sub \in [Subscribers -> SubPC]
    /\ queue \in [Subscribers -> Seq(Frame)]
    /\ \A s \in Subscribers : Len(queue[s]) <= QueueCap
    /\ gone \subseteq Subscribers
    /\ base \in [Subscribers -> 0 .. MaxTicks]
    /\ sent \subseteq Ticks
    /\ seen \in [Subscribers -> SUBSET Ticks]
    /\ dropped \in [Subscribers -> SUBSET Ticks]

Queued(s) == {queue[s][i] : i \in DOMAIN queue[s]}

(* A browser that opens the stream has no gap between its first snapshot and *)
(* the ticks that follow: every tick the plant made after that snapshot and  *)
(* that has been broadcast was written to it, waits in its channel, or came  *)
(* when the channel was full.                                                *)
NothingMissed ==
    \A s \in Subscribers :
        sub[s] \notin {"away", "registered"} =>
            \A n \in sent : n > base[s] => n \in seen[s] \cup Queued(s) \cup dropped[s]

(* No step of the plant is told twice, however deliveries overlap: each of   *)
(* its events is in the log once, and a browser has had it written, has it   *)
(* in its channel or has lost it, one of the three and once.  (The frames of *)
(* start and stop repeat, as they show no step.)                             *)
ToldOnce ==
    /\ \A i, j \in DOMAIN log : log[i] = log[j] => i = j
    /\ \A s \in Subscribers :
          /\ \A i, j \in DOMAIN queue[s] :
                queue[s][i] = queue[s][j] => i = j \/ queue[s][i] = Announcement
          /\ seen[s] \cap Queued(s) = {}
          /\ dropped[s] \cap (seen[s] \cup Queued(s)) = {}

(* "Copy so the caller's map (already stored/broadcast) is not mutated"      *)
(* (sim_publish.go): an event in the log is not written to.  Fire-water does *)
(* write to it, while GET .../events may be encoding it, and this says how   *)
(* far that goes: no other simulator does, and it is over before any browser *)
(* is told of the event, so that log and streams then show the same.         *)
StoredStandsOnceTold ==
    [][\A e \in acted' \ acted : ~copies /\ e.tick \notin sent]_streamVars

(* A browser that stops reading, or dies, holds up nobody: as long as those  *)
(* who fetch the log are done with it again and again, every delivery ends   *)
(* and every subscriber that has gone is forgotten.                          *)
NobodyIsStuck ==
    []<>(mu = Free) =>
        /\ \A d \in Deliverers : delivery[d].pc # "idle" ~> delivery[d].pc = "idle"
        /\ \A s \in Subscribers : s \in gone ~> s \notin gone

================================================================================
