---------------------------- MODULE SeasonLifecycle ----------------------------
(***************************************************************************)
(* One growing season: the store that keeps it (internal/season/store.go), *)
(* the handlers that open, close, advance, edit and delete it and publish  *)
(* its events (internal/httpapi/server.go), and Relay at the other end of  *)
(* the publish.                                                            *)
(*                                                                         *)
(* A lifecycle handler is three steps: Get, a publish to Relay that may    *)
(* fail or whose answer may be lost, and a write-back under Store.mu.      *)
(* Other requests come in between, the disk may refuse the write, and the  *)
(* process may be restarted.                                               *)
(*                                                                         *)
(* Abstractions: seasons do not affect each other, so there is one; of its *)
(* fields the status and the stage are kept; a request that is refused     *)
(* without any effect (404, 409, a bad body, an unknown site) is no step;  *)
(* SaveSlice is atomic (the new file is renamed over the old one).         *)
(***************************************************************************)
EXTENDS Naturals

CONSTANTS
    Stages,      \* growth stages a request can name
    Clients,     \* HTTP requests that can be in progress at once
    MaxFaults    \* bound of the model: failed writes and restarts

ASSUME SeasonAssumption ==
    /\ "idle" \in Stages   \* the stage the fire-water seed writes
    /\ "" \notin Stages
    /\ MaxFaults \in Nat

VARIABLES
    mem,      \* Store.byID[id], or None
    disk,     \* the season in the store's file, or None
    req,      \* req[c]: the HTTP request c
    faults,   \* failed writes and restarts so far
    failed,   \* history: the last write to the file failed
    granted,  \* history: statuses Relay was told of, or a Put or seed asked for
    asked,    \* history: the stage the last Put or stage request left
    closing   \* history: a close took effect; no other of its kind since

vars == <<mem, disk, req, faults, failed, granted, asked, closing>>

store == <<mem, disk, failed, faults>>
history == <<granted, asked, closing>>

--------------------------------------------------------------------------------

Statuses == {"planned", "active", "closed"}
Season == [status : Statuses, stage : Stages \cup {""}]
None == [status |-> "none", stage |-> ""]

Present(s) == s # None

(* A request holds the status it will write back. *)
Ops == {"open", "close", "event", "seed", "other"}
Request == [op : Ops, pc : {"idle", "publish", "update"}, status : Statuses]
Idle == [op |-> "other", pc |-> "idle", status |-> "planned"]
Publishing(op, status) == [op |-> op, pc |-> "publish", status |-> status]

(* open and close tell Relay of the status they will set. *)
Announced(r) == IF r.op \in {"open", "close"} THEN {r.status} ELSE {}

Opening == \E c \in Clients : req[c].op \in {"open", "seed"} /\ req[c].pc # "idle"

Init ==
    /\ mem = None
    /\ disk = None
    /\ req = [c \in Clients |-> Idle]
    /\ faults = 0
    /\ failed = FALSE
    /\ granted = {}
    /\ asked = ""
    /\ closing = FALSE

--------------------------------------------------------------------------------
(* Plausible bugs of the store, one per property a run checks *)

SaveNothing(m, ok) ==
    /\ mem' = m
    /\ failed' = ~ok
    /\ UNCHANGED disk
    /\ IF ok THEN UNCHANGED faults
             ELSE faults < MaxFaults /\ faults' = faults + 1

--------------------------------------------------------------------------------
(* The store: every write changes the map, then saves it.  A save that fails *)
(* leaves the file as it was and the map changed.                            *)

Save(m, ok) ==
    /\ mem' = m
    /\ disk' = IF ok THEN m ELSE disk
    /\ failed' = ~ok
    /\ IF ok THEN UNCHANGED faults
             ELSE faults < MaxFaults /\ faults' = faults + 1

(* Put: an empty status means planned, an empty stage keeps the old one.     *)
Written(status, stage) ==
    [status |-> IF status = "" THEN "planned" ELSE status,
     stage |-> IF stage = "" THEN mem.stage ELSE stage]

--------------------------------------------------------------------------------
(* Plausible bugs of the handlers, likewise *)

(* The error of the publish is ignored like that of the write-back. *)
PublishErrorIgnored(c, reached) ==
    /\ req[c].pc = "publish"
    /\ req' = [req EXCEPT ![c].pc = IF req[c].op = "other" THEN "idle" ELSE "update"]
    /\ granted' = IF reached THEN granted \cup Announced(req[c]) ELSE granted
    /\ UNCHANGED <<store, asked, closing>>

(* An advisory or stage request that Relay accepted writes back as well. *)
EveryPublishWritesBack(c, direct) ==
    /\ req[c].pc = "publish"
    /\ granted' = granted \cup Announced(req[c])
    /\ req' = [req EXCEPT ![c].pc = "update"]
    /\ UNCHANGED <<store, asked, closing>>

(* The write-back stores the season it read before the publish (of which the *)
(* model keeps the status only: its stage is whatever it was then).          *)
UpdatedFromRead(status) == [status |-> status, stage |-> ""]

(* The write-back creates what it does not find. *)
UpdateStatusUpserts(c, ok) ==
    /\ req[c].pc = "update"
    /\ req' = [req EXCEPT ![c] = Idle]
    /\ Save([status |-> req[c].status, stage |-> mem.stage], ok)
    /\ closing' = (closing \/ (req[c].op = "close" /\ ~Opening))
    /\ UNCHANGED <<granted, asked>>

--------------------------------------------------------------------------------
(* Handlers up to the publish *)

openSeason(c) ==
    /\ req[c].pc = "idle"
    /\ Present(mem) /\ mem.status # "active"
    /\ req' = [req EXCEPT ![c] = Publishing("open", "active")]
    /\ closing' = FALSE
    /\ UNCHANGED <<store, granted, asked>>

closeSeason(c) ==
    /\ req[c].pc = "idle"
    /\ Present(mem)
    /\ req' = [req EXCEPT ![c] = Publishing("close", "closed")]
    /\ UNCHANGED <<store, history>>

(* Only while the season is active; the status read is written back.         *)
publishSeasonEvent(c) ==
    /\ req[c].pc = "idle"
    /\ mem.status = "active"
    /\ req' = [req EXCEPT ![c] = Publishing("event", mem.status)]
    /\ UNCHANGED <<store, history>>

publishAdvisory(c) ==
    /\ req[c].pc = "idle"
    /\ Present(mem)
    /\ req' = [req EXCEPT ![c] = Publishing("other", "planned")]
    /\ UNCHANGED <<store, history>>

(* UpdateStage first; the publish follows only when the save succeeded.      *)
setSeasonStage(c, stage, ok) ==
    /\ req[c].pc = "idle"
    /\ Present(mem)
    /\ Save([mem EXCEPT !.stage = stage], ok)
    /\ req' = [req EXCEPT ![c] = IF ok THEN Publishing("other", "planned") ELSE Idle]
    /\ asked' = stage
    /\ UNCHANGED <<granted, closing>>

(* createSeason and putSeason. *)
putSeason(c, status, stage, ok) ==
    /\ req[c].pc = "idle"
    /\ Save(Written(status, stage), ok)
    /\ granted' = granted \cup {mem'.status}
    /\ asked' = mem'.stage
    /\ closing' = FALSE
    /\ UNCHANGED req

(* The fire-water seed puts its season as planned, whatever it was, and then *)
(* makes it active without telling Relay.                                    *)
fwSeed(c, ok) ==
    /\ req[c].pc = "idle"
    /\ Save(Written("planned", "idle"), ok)
    /\ req' = [req EXCEPT ![c] =
                 IF ok THEN [op |-> "seed", pc |-> "update", status |-> "active"] ELSE Idle]
    /\ granted' = granted \cup {"planned", "active"}
    /\ asked' = "idle"
    /\ closing' = FALSE

deleteSeason(c, ok) ==
    /\ req[c].pc = "idle"
    /\ Present(mem)
    /\ Save(None, ok)
    /\ asked' = ""
    /\ closing' = FALSE
    /\ UNCHANGED <<req, granted>>

--------------------------------------------------------------------------------
(* The publish and the write-back *)

(* Relay accepts.  An event's answer carries an event id when the publish    *)
(* went straight to Relay, and only then is the season written back.         *)
PublishSucceeds(c, direct) ==
    /\ req[c].pc = "publish"
    /\ granted' = granted \cup Announced(req[c])
    /\ req' = [req EXCEPT ![c] =
                 IF req[c].op \in {"open", "close"} \/ (req[c].op = "event" /\ direct)
                 THEN [@ EXCEPT !.pc = "update"]
                 ELSE Idle]
    /\ UNCHANGED <<store, asked, closing>>

(* An error answers 502 (a stage request: 200), whether or not it reached    *)
(* Relay.                                                                    *)
PublishFails(c, reached) ==
    /\ req[c].pc = "publish"
    /\ req' = [req EXCEPT ![c] = Idle]
    /\ granted' = IF reached THEN granted \cup Announced(req[c]) ELSE granted
    /\ UNCHANGED <<store, asked, closing>>

(* What UpdateStatus makes of the season it finds. *)
Updated(status) == [mem EXCEPT !.status = status]

(* A season deleted meanwhile is not found; the handler ignores either error. *)
UpdateStatus(c, ok) ==
    /\ req[c].pc = "update"
    /\ req' = [req EXCEPT ![c] = Idle]
    /\ IF Present(mem)
       THEN /\ Save(Updated(req[c].status), ok)
            /\ closing' = (closing \/ (req[c].op = "close" /\ ~Opening))
       ELSE UNCHANGED <<store, closing>>
    /\ UNCHANGED <<granted, asked>>

--------------------------------------------------------------------------------
(* The process is killed and started again: load reads the file. *)

Restart ==
    /\ faults < MaxFaults
    /\ faults' = faults + 1
    /\ mem' = disk
    /\ req' = [c \in Clients |-> Idle]
    /\ failed' = FALSE
    /\ asked' = disk.stage
    /\ closing' = FALSE
    /\ UNCHANGED <<disk, granted>>

--------------------------------------------------------------------------------

Next ==
    \/ \E c \in Clients :
          \/ openSeason(c)
          \/ closeSeason(c)
          \/ publishSeasonEvent(c)
          \/ publishAdvisory(c)
          \/ \E ok \in BOOLEAN :
                \/ \E stage \in Stages : setSeasonStage(c, stage, ok)
                \/ \E status \in Statuses \cup {""}, stage \in Stages \cup {""} :
                      putSeason(c, status, stage, ok)
                \/ fwSeed(c, ok)
                \/ deleteSeason(c, ok)
                \/ UpdateStatus(c, ok)
          \/ \E b \in BOOLEAN : PublishSucceeds(c, b) \/ PublishFails(c, b)
    \/ Restart

Spec == Init /\ [][Next]_vars

--------------------------------------------------------------------------------
(* Properties *)

(* Every variable ranges over what the code can store in it. *)
TypeOK ==
    /\ mem \in Season \cup {None}
    /\ disk \in Season \cup {None}
    /\ req \in [Clients -> Request]
    /\ faults \in 0 .. MaxFaults
    /\ failed \in BOOLEAN
    /\ granted \subseteq Statuses
    /\ asked \in Stages \cup {""}
    /\ closing \in BOOLEAN

(* A season is active or closed, in memory or on disk, only if Relay was     *)
(* told that it opened or closed, or a Put or seed asked for that status: no *)
(* failed publish, late write-back or restart makes up a status.             *)
StatusWasGranted == {mem.status, disk.status} \subseteq granted \cup {"none"}

(* A growth stage that a request set is not lost to the write-back of an     *)
(* open, close or event request that read the season before.                 *)
StageNotLost == mem.stage = asked

(* Memory runs ahead of the file only when the last save failed: a restart   *)
(* loses nothing that was saved after the last error.                        *)
SavedUnlessFailed == ~failed => disk = mem

(* The write-back of a request that was in progress when the season was      *)
(* deleted does not bring it back: only a Put or seed does, or a restart     *)
(* after the deletion could not be saved.                                    *)
DeletedStaysDeleted ==
    [][~Present(mem) /\ Present(mem') =>
          \/ \E c \in Clients, status \in Statuses \cup {""},
                stage \in Stages \cup {""}, ok \in BOOLEAN :
                   putSeason(c, status, stage, ok) \/ fwSeed(c, ok)
          \/ Restart]_vars

(* docs/API.md on close: the season is closed.  Once a close request has set *)
(* the status and no open, put, seed or delete came since, it stays closed.  *)
CloseStands == closing => mem.status = "closed"

(* How far the code is from that: while the close is the last word, the one  *)
(* thing that undoes it is the write-back of an event that was published     *)
(* while the season was still active, and it makes the season active again.  *)
(* No stage request, advisory, second close or late failure does.            *)
OnlyEventsUndoClose ==
    [][closing /\ closing' /\ mem.status = "closed" /\ mem'.status # "closed" =>
          /\ mem'.status = "active"
          /\ \E c \in Clients : req[c].op = "event" /\ req[c].pc = "update" /\ req'[c] = Idle]_vars

================================================================================
