------------------------------ MODULE SeasonProofs -----------------------------
(***************************************************************************)
(* What of SeasonLifecycle holds for any stages, any number of requests in *)
(* progress, failed writes and restarts.                                   *)
(***************************************************************************)
EXTENDS SeasonLifecycle, TLAPS

(* The status a request is about to write back has been granted: Relay has   *)
(* been told of it, or, for an event, it is one the season had.              *)
WriteBacksGranted ==
    \A c \in Clients :
        (req[c].pc = "update" \/ (req[c].pc = "publish" /\ req[c].op = "event"))
            => req[c].status \in granted

IInv == TypeOK /\ StatusWasGranted /\ WriteBacksGranted /\ StageNotLost /\ SavedUnlessFailed

--------------------------------------------------------------------------------
(* The store *)

(* The bound of the model is a number. *)
LEMMA MaxFaultsIsNat == MaxFaults \in Nat
BY SeasonAssumption, Zenon DEF SeasonAssumption

(* The season that is not there is no season. *)
LEMMA NoneIsNoSeason == None \notin Season /\ None.status = "none" /\ None.stage = ""
BY DEF None, Season, Statuses

(* A save leaves memory and file equal unless it fails, whatever it writes,  *)
(* and neither holds anything but what they held or what was written.        *)
LEMMA SaveKeeps ==
    ASSUME TypeOK, NEW m \in Season \cup {None}, NEW ok \in BOOLEAN, Save(m, ok)
    PROVE  /\ mem' = m
           /\ disk' \in {disk, m}
           /\ disk' \in Season \cup {None}
           /\ failed' \in BOOLEAN
           /\ faults' \in 0 .. MaxFaults
           /\ SavedUnlessFailed'
<1>1. mem' = m /\ disk' \in {disk, m} /\ failed' = ~ok /\ (ok => disk' = m)
  BY DEF Save
<1>2. disk' \in Season \cup {None}
  BY <1>1 DEF TypeOK
<1>3. faults' \in 0 .. MaxFaults
  <2>1. faults' = faults \/ (faults < MaxFaults /\ faults' = faults + 1)
    BY Zenon DEF Save
  <2>2. faults \in 0 .. MaxFaults
    BY DEF TypeOK
  <2>3. QED
    BY <2>1, <2>2, MaxFaultsIsNat
<1>4. failed' \in BOOLEAN /\ SavedUnlessFailed'
  BY <1>1, Zenon DEF SavedUnlessFailed
<1>5. QED
  BY <1>1, <1>2, <1>3, <1>4

(* What Put makes of a request, with or without a season, is a season.       *)
LEMMA WrittenIsSeason ==
    ASSUME TypeOK, NEW status \in Statuses \cup {""}, NEW stage \in Stages \cup {""}
    PROVE  Written(status, stage) \in Season
BY NoneIsNoSeason DEF Written, TypeOK, Season, Statuses

--------------------------------------------------------------------------------
(* The invariant *)

LEMMA InitIInv == Init => IInv
<1> SUFFICES ASSUME Init PROVE IInv
  OBVIOUS
<1>1. Idle \in Request /\ Idle.pc = "idle"
  BY DEF Idle, Request, Ops, Statuses
<1>2. TypeOK
  <2>1. mem \in Season \cup {None} /\ disk \in Season \cup {None} /\ asked \in Stages \cup {""}
    BY DEF Init
  <2>2. req \in [Clients -> Request] /\ granted \subseteq Statuses
    BY <1>1 DEF Init
  <2>3. faults \in 0 .. MaxFaults
    <3>1. faults = 0
      BY DEF Init
    <3>2. QED
      BY <3>1, MaxFaultsIsNat
  <2>4. failed \in BOOLEAN /\ closing \in BOOLEAN
    BY DEF Init
  <2>5. QED
    BY <2>1, <2>2, <2>3, <2>4 DEF TypeOK
<1>3. StatusWasGranted /\ StageNotLost /\ SavedUnlessFailed
  BY NoneIsNoSeason DEF Init, StatusWasGranted, StageNotLost, SavedUnlessFailed
<1>4. WriteBacksGranted
  BY <1>1 DEF Init, WriteBacksGranted
<1>5. QED
  BY <1>2, <1>3, <1>4 DEF IInv

(* The handlers that only begin a request change no season. *)
LEMMA BeginsKeep ==
    ASSUME IInv, NEW c \in Clients,
           openSeason(c) \/ closeSeason(c) \/ publishSeasonEvent(c) \/ publishAdvisory(c)
    PROVE  IInv'
<1> USE DEF IInv
<1>0. PICK r \in Request :
          /\ req' = [req EXCEPT ![c] = r]
          /\ r.pc = "publish"
          /\ r.op = "event" => publishSeasonEvent(c) /\ r.status = mem.status
  <2>1. Publishing("open", "active") \in Request /\ Publishing("close", "closed") \in Request
        /\ Publishing("other", "planned") \in Request
    BY DEF Publishing, Request, Ops, Statuses
  <2>2. ASSUME publishSeasonEvent(c) PROVE Publishing("event", mem.status) \in Request
    BY <2>2 DEF publishSeasonEvent, Publishing, Request, Ops, Statuses
  <2>3. QED
    BY <2>1, <2>2 DEF openSeason, closeSeason, publishSeasonEvent, publishAdvisory, Publishing
<1>1. req' \in [Clients -> Request] /\ closing' \in BOOLEAN
  <2>1. req' \in [Clients -> Request]
    BY <1>0 DEF TypeOK
  <2>2. closing' \in BOOLEAN
    BY DEF openSeason, closeSeason, publishSeasonEvent, publishAdvisory, TypeOK, history
  <2>3. QED
    BY <2>1, <2>2
<1>2. UNCHANGED <<mem, disk, failed, faults, granted, asked>>
  BY DEF openSeason, closeSeason, publishSeasonEvent, publishAdvisory, store, history
<1>3. TypeOK' /\ StatusWasGranted' /\ StageNotLost' /\ SavedUnlessFailed'
  BY <1>1, <1>2 DEF TypeOK, StatusWasGranted, StageNotLost, SavedUnlessFailed
<1>4. WriteBacksGranted'
  <2>1. ASSUME publishSeasonEvent(c) PROVE mem.status \in granted
    BY <2>1 DEF publishSeasonEvent, StatusWasGranted
  <2>2. QED
    BY <1>0, <1>2, <2>1 DEF TypeOK, WriteBacksGranted
<1>5. QED
  BY <1>3, <1>4

LEMMA StageKeeps ==
    ASSUME IInv, NEW c \in Clients, NEW stage \in Stages, NEW ok \in BOOLEAN,
           setSeasonStage(c, stage, ok)
    PROVE  IInv'
<1> USE DEF IInv
<1> DEFINE m == [mem EXCEPT !.stage = stage]
<1>1. mem \in Season /\ m \in Season /\ m.status = mem.status /\ m.stage = stage
  BY DEF setSeasonStage, Present, TypeOK, Season
<1>2. Save(m, ok)
  BY DEF setSeasonStage
<1>3. /\ mem' = m /\ disk' \in {disk, m} /\ disk' \in Season \cup {None}
      /\ failed' \in BOOLEAN /\ faults' \in 0 .. MaxFaults /\ SavedUnlessFailed'
  BY <1>1, <1>2, SaveKeeps
<1>4. req' \in [Clients -> Request]
  BY DEF setSeasonStage, TypeOK, Publishing, Idle, Request, Ops, Statuses
<1>5. TypeOK'
  BY <1>1, <1>3, <1>4 DEF setSeasonStage, TypeOK
<1>6. StatusWasGranted' /\ StageNotLost'
  BY <1>1, <1>3 DEF setSeasonStage, StatusWasGranted, StageNotLost
<1>7. WriteBacksGranted'
  BY DEF setSeasonStage, TypeOK, Publishing, Idle, WriteBacksGranted
<1>8. QED
  BY <1>3, <1>5, <1>6, <1>7

LEMMA PutKeeps ==
    ASSUME IInv, NEW c \in Clients, NEW status \in Statuses \cup {""},
           NEW stage \in Stages \cup {""}, NEW ok \in BOOLEAN,
           putSeason(c, status, stage, ok)
    PROVE  IInv'
<1> USE DEF IInv
<1>1. Written(status, stage) \in Season
  BY WrittenIsSeason
<1>2. /\ mem' = Written(status, stage) /\ disk' \in {disk, mem'} /\ disk' \in Season \cup {None}
      /\ failed' \in BOOLEAN /\ faults' \in 0 .. MaxFaults /\ SavedUnlessFailed'
  BY <1>1, SaveKeeps DEF putSeason
<1>3. mem'.status \in Statuses /\ mem'.stage \in Stages \cup {""}
  BY <1>1, <1>2 DEF Season
<1>4. TypeOK'
  BY <1>1, <1>2, <1>3 DEF putSeason, TypeOK
<1>5. StatusWasGranted' /\ StageNotLost' /\ WriteBacksGranted'
  BY <1>2 DEF putSeason, StatusWasGranted, StageNotLost, WriteBacksGranted
<1>6. QED
  BY <1>2, <1>4, <1>5

LEMMA SeedKeeps ==
    ASSUME IInv, NEW c \in Clients, NEW ok \in BOOLEAN, fwSeed(c, ok)
    PROVE  IInv'
<1> USE DEF IInv
<1>1. Written("planned", "idle") \in Season
  BY WrittenIsSeason, SeasonAssumption DEF Statuses
<1>2. Written("planned", "idle").status = "planned" /\ Written("planned", "idle").stage = "idle"
  BY DEF Written
<1>3. /\ mem' = Written("planned", "idle") /\ disk' \in {disk, mem'}
      /\ disk' \in Season \cup {None} /\ failed' \in BOOLEAN
      /\ faults' \in 0 .. MaxFaults /\ SavedUnlessFailed'
  BY <1>1, SaveKeeps DEF fwSeed
<1>4. req' \in [Clients -> Request]
  BY DEF fwSeed, TypeOK, Idle, Request, Ops, Statuses
<1>5. TypeOK'
  BY <1>1, <1>3, <1>4, SeasonAssumption DEF fwSeed, TypeOK, Statuses
<1>6. StatusWasGranted' /\ StageNotLost'
  BY <1>2, <1>3 DEF fwSeed, StatusWasGranted, StageNotLost
<1>7. WriteBacksGranted'
  BY DEF fwSeed, TypeOK, Idle, WriteBacksGranted
<1>8. QED
  BY <1>3, <1>5, <1>6, <1>7

LEMMA DeleteKeeps ==
    ASSUME IInv, NEW c \in Clients, NEW ok \in BOOLEAN, deleteSeason(c, ok)
    PROVE  IInv'
<1> USE DEF IInv
<1>1. /\ mem' = None /\ disk' \in {disk, None} /\ disk' \in Season \cup {None}
      /\ failed' \in BOOLEAN /\ faults' \in 0 .. MaxFaults /\ SavedUnlessFailed'
  BY SaveKeeps DEF deleteSeason
<1>2. QED
  BY <1>1, NoneIsNoSeason
     DEF deleteSeason, TypeOK, StatusWasGranted, StageNotLost, WriteBacksGranted

(* Relay's answer: a status that will be written back is granted by it, or   *)
(* was before.                                                               *)
LEMMA PublishKeeps ==
    ASSUME IInv, NEW c \in Clients, NEW b \in BOOLEAN,
           PublishSucceeds(c, b) \/ PublishFails(c, b)
    PROVE  IInv'
<1> USE DEF IInv
<1>1. Announced(req[c]) \subseteq Statuses
  BY DEF Announced, TypeOK, Request
<1>2. granted \subseteq granted' /\ granted' \subseteq Statuses
  BY <1>1 DEF PublishSucceeds, PublishFails, TypeOK
<1>3. req' \in [Clients -> Request]
  <2>1. Idle \in Request /\ [req[c] EXCEPT !.pc = "update"] \in Request
    BY DEF TypeOK, Idle, Request, Ops, Statuses
  <2>2. \E r \in Request : req' = [req EXCEPT ![c] = r]
    BY <2>1 DEF PublishSucceeds, PublishFails
  <2>3. QED
    BY <2>2 DEF TypeOK
<1>4. TypeOK' /\ StatusWasGranted' /\ StageNotLost' /\ SavedUnlessFailed'
  BY <1>2, <1>3 DEF PublishSucceeds, PublishFails, store, TypeOK, StatusWasGranted,
                    StageNotLost, SavedUnlessFailed
<1>5. WriteBacksGranted'
  <2>1. CASE PublishSucceeds(c, b)
    BY <1>2, <2>1 DEF PublishSucceeds, Announced, TypeOK, Request, Idle, WriteBacksGranted
  <2>2. CASE PublishFails(c, b)
    BY <1>2, <2>2 DEF PublishFails, TypeOK, Idle, WriteBacksGranted
  <2>3. QED
    BY <2>1, <2>2
<1>6. QED
  BY <1>4, <1>5

LEMMA UpdateKeeps ==
    ASSUME IInv, NEW c \in Clients, NEW ok \in BOOLEAN, UpdateStatus(c, ok)
    PROVE  IInv'
<1> USE DEF IInv
<1>1. req' \in [Clients -> Request] /\ WriteBacksGranted'
  BY DEF UpdateStatus, TypeOK, Idle, Request, Ops, Statuses, WriteBacksGranted
<1>2. CASE Present(mem)
  <2> DEFINE m == Updated(req[c].status)
  <2>1. req[c].status \in Statuses /\ req[c].status \in granted
    BY DEF UpdateStatus, TypeOK, Request, WriteBacksGranted
  <2>2. m \in Season /\ m.status = req[c].status /\ m.stage = mem.stage
    BY <1>2, <2>1 DEF Present, TypeOK, Updated, Season
  <2>3. Save(m, ok)
    BY <1>2 DEF UpdateStatus
  <2>4. /\ mem' = m /\ disk' \in {disk, m} /\ disk' \in Season \cup {None}
        /\ failed' \in BOOLEAN /\ faults' \in 0 .. MaxFaults /\ SavedUnlessFailed'
    BY <2>2, <2>3, SaveKeeps
  <2>5. closing' \in BOOLEAN /\ UNCHANGED <<granted, asked>>
    BY <1>2 DEF UpdateStatus, TypeOK, Opening
  <2>6. TypeOK' /\ StatusWasGranted' /\ StageNotLost'
    BY <1>1, <2>1, <2>2, <2>4, <2>5 DEF TypeOK, StatusWasGranted, StageNotLost
  <2>7. QED
    BY <1>1, <2>4, <2>6
<1>3. CASE ~Present(mem)
  BY <1>1, <1>3 DEF UpdateStatus, store, TypeOK, StatusWasGranted, StageNotLost,
                    SavedUnlessFailed
<1>4. QED
  BY <1>2, <1>3

LEMMA RestartKeeps ==
    ASSUME IInv, Restart
    PROVE  IInv'
<1> USE DEF IInv
<1>1. Idle \in Request /\ Idle.pc = "idle"
  BY DEF Idle, Request, Ops, Statuses
<1>2. disk.stage \in Stages \cup {""}
  BY NoneIsNoSeason DEF TypeOK, Season
<1>3. faults' \in 0 .. MaxFaults
  <2>1. faults < MaxFaults /\ faults' = faults + 1 /\ faults \in 0 .. MaxFaults
    BY DEF Restart, TypeOK
  <2>2. QED
    BY <2>1, MaxFaultsIsNat
<1>4. failed' \in BOOLEAN /\ closing' \in BOOLEAN
  BY DEF Restart
<1>5. TypeOK'
  BY <1>1, <1>2, <1>3, <1>4 DEF Restart, TypeOK
<1>6. StatusWasGranted' /\ StageNotLost' /\ SavedUnlessFailed'
  BY DEF Restart, StatusWasGranted, StageNotLost, SavedUnlessFailed
<1>7. WriteBacksGranted'
  BY <1>1 DEF Restart, WriteBacksGranted
<1>8. QED
  BY <1>5, <1>6, <1>7

LEMMA NextIInv == IInv /\ [Next]_vars => IInv'
<1> SUFFICES ASSUME IInv, [Next]_vars PROVE IInv'
  OBVIOUS
<1>1. CASE Next
  BY <1>1, BeginsKeep, StageKeeps, PutKeeps, SeedKeeps, DeleteKeeps, PublishKeeps,
     UpdateKeeps, RestartKeeps DEF Next
<1>2. CASE UNCHANGED vars
  BY <1>2 DEF vars, IInv, TypeOK, StatusWasGranted, WriteBacksGranted, StageNotLost,
              SavedUnlessFailed
<1>3. QED
  BY <1>1, <1>2

LEMMA AlwaysIInv == Spec => []IInv
BY InitIInv, NextIInv, PTL DEF Spec

--------------------------------------------------------------------------------

(* Every variable stays in its type: the store never holds a season that is  *)
(* none, a status that is none of the three (season.Store).                  *)
THEOREM TypeCorrect == Spec => []TypeOK
<1>1. IInv => TypeOK
  BY DEF IInv
<1>2. QED
  BY AlwaysIInv, <1>1, PTL

(* No failed publish, late write-back, refused save or restart makes up a    *)
(* status: a season's was announced to Relay, or asked for (openSeason,      *)
(* closeSeason, publishSeasonEvent, UpdateStatus).                           *)
THEOREM StatusAlwaysGranted == Spec => []StatusWasGranted
<1>1. IInv => StatusWasGranted
  BY DEF IInv
<1>2. QED
  BY AlwaysIInv, <1>1, PTL

(* No write-back of a status undoes a stage (UpdateStatus, UpdateStage).     *)
THEOREM StageNeverLost == Spec => []StageNotLost
<1>1. IInv => StageNotLost
  BY DEF IInv
<1>2. QED
  BY AlwaysIInv, <1>1, PTL

(* Memory and file differ after a failed save only (Store.Put, Store.UpdateStatus).       *)
THEOREM AlwaysSavedUnlessFailed == Spec => []SavedUnlessFailed
<1>1. IInv => SavedUnlessFailed
  BY DEF IInv
<1>2. QED
  BY AlwaysIInv, <1>1, PTL

(* A deleted season comes back by a put, a seed or a restart only: not by    *)
(* the write-back of a request that was in progress (UpdateStatus).          *)
THEOREM DeletedAlwaysStaysDeleted == Spec => DeletedStaysDeleted
<1> DEFINE Back == ~Present(mem) /\ Present(mem') =>
                      \/ \E c \in Clients, status \in Statuses \cup {""},
                            stage \in Stages \cup {""}, ok \in BOOLEAN :
                               putSeason(c, status, stage, ok) \/ fwSeed(c, ok)
                      \/ Restart
<1>1. Next => Back
  <2> SUFFICES ASSUME Next, ~Present(mem), Present(mem')
               PROVE  \/ \E c \in Clients, status \in Statuses \cup {""},
                            stage \in Stages \cup {""}, ok \in BOOLEAN :
                               putSeason(c, status, stage, ok) \/ fwSeed(c, ok)
                      \/ Restart
    OBVIOUS
  <2>1. CASE Restart
    BY <2>1
  <2>2. ASSUME NEW c \in Clients, NEW ok \in BOOLEAN, fwSeed(c, ok)
        PROVE  \E d \in Clients, status \in Statuses \cup {""},
                  stage \in Stages \cup {""}, saved \in BOOLEAN : fwSeed(d, saved)
    BY <2>2
  <2>3. ASSUME NEW c \in Clients,
               \/ openSeason(c) \/ closeSeason(c) \/ publishSeasonEvent(c)
               \/ publishAdvisory(c)
               \/ \E b \in BOOLEAN : PublishSucceeds(c, b) \/ PublishFails(c, b)
        PROVE  FALSE
    BY <2>3 DEF openSeason, closeSeason, publishSeasonEvent, publishAdvisory,
                PublishSucceeds, PublishFails, store, Present
  <2>4. ASSUME NEW c \in Clients, NEW ok \in BOOLEAN,
               \/ deleteSeason(c, ok) \/ UpdateStatus(c, ok)
               \/ \E stage \in Stages : setSeasonStage(c, stage, ok)
        PROVE  FALSE
    BY <2>4 DEF deleteSeason, UpdateStatus, setSeasonStage, store, Present, Save
  <2>5. QED
    BY <2>1, <2>2, <2>3, <2>4 DEF Next
<1>2. UNCHANGED vars => Back
  BY DEF vars, Present
<1>3. [Next]_vars => [Back]_vars
  BY <1>1
<1>4. QED
  BY <1>3, PTL DEF Spec, DeletedStaysDeleted

--------------------------------------------------------------------------------
(* What undoes a close *)

(* While a close is the last word no open and no seed is in progress, and    *)
(* what a request will write back is what its kind writes: the status its    *)
(* event found, which was active, or the one it told Relay.                  *)
CloseInv ==
    /\ closing => ~Opening
    /\ \A c \in Clients :
          /\ req[c].pc = "update" => req[c].op # "other"
          /\ req[c].pc # "idle" /\ req[c].op = "close" => req[c].status = "closed"
          /\ req[c].pc # "idle" /\ req[c].op = "event" => req[c].status = "active"

(* A request that is new, at its next step or done: CloseInv asks nothing    *)
(* about the others' progress.                                               *)
Fits(r, last) ==
    /\ last /\ r.op \in {"open", "seed"} => r.pc = "idle"
    /\ r.pc = "update" => r.op # "other"
    /\ r.pc # "idle" /\ r.op = "close" => r.status = "closed"
    /\ r.pc # "idle" /\ r.op = "event" => r.status = "active"

(* What the proofs below need of the types. *)
LEMMA RequestTypes ==
    ASSUME TypeOK
    PROVE  closing \in BOOLEAN /\ req \in [Clients -> Request]
BY Zenon DEF TypeOK

(* A write to one field of a season leaves the other as it was. *)
LEMMA OneField ==
    ASSUME NEW X, NEW m \in [status : Statuses, stage : X], NEW v
    PROVE  /\ [m EXCEPT !.status = v].status = v
           /\ [m EXCEPT !.stage = v].status = m.status
OBVIOUS

LEMMA CloseInvFits == CloseInv <=> \A c \in Clients : Fits(req[c], closing)
BY DEF CloseInv, Fits, Opening

LEMMA IdleFits == Fits(Idle, TRUE) /\ Fits(Idle, FALSE)
BY DEF Fits, Idle

LEMMA InitCloseInv == Init => CloseInv
<1> SUFFICES ASSUME Init PROVE CloseInv
  OBVIOUS
<1>1. closing = FALSE /\ req = [c \in Clients |-> Idle]
  BY Zenon DEF Init
<1> QED BY <1>1 DEF CloseInv, Opening, Idle

(* A step of one request that leaves closing as it is, or takes it back,     *)
(* needs only its own request to fit.                                        *)
LEMMA OneFits ==
    ASSUME TypeOK, CloseInv, NEW c \in Clients, NEW r, req' = [req EXCEPT ![c] = r],
           closing' => closing, Fits(r, closing')
    PROVE  CloseInv'
<1>1. \A d \in Clients : Fits(req[d], closing)
  BY CloseInvFits
<1>2. closing \in BOOLEAN /\ req \in [Clients -> Request]
  BY RequestTypes
<1>3. ASSUME NEW d \in Clients
      PROVE  Fits(req'[d], closing')
  <2>1. CASE d = c
    BY <1>2, <2>1
  <2>2. CASE d # c
    BY <1>1, <1>2, <2>2 DEF Fits
  <2> QED BY <2>1, <2>2
<1> QED BY <1>3 DEF CloseInv, Fits, Opening

LEMMA NextCloseInv == TypeOK /\ CloseInv /\ [Next]_vars => CloseInv'
<1> SUFFICES ASSUME TypeOK, CloseInv, [Next]_vars PROVE CloseInv'
  OBVIOUS
<1>0. \A c \in Clients : Fits(req[c], closing)
  BY CloseInvFits
<1> closing \in BOOLEAN /\ req \in [Clients -> Request]
  BY RequestTypes
<1>11. req' = req /\ closing' = FALSE => CloseInv'
  BY DEF CloseInv, Opening
<1>1. ASSUME NEW c \in Clients, openSeason(c) PROVE CloseInv'
  <2>1. Fits(Publishing("open", "active"), FALSE)
    BY DEF Fits, Publishing
  <2> QED BY <1>1, <2>1, OneFits DEF openSeason
<1>2. ASSUME NEW c \in Clients, closeSeason(c) \/ publishSeasonEvent(c) \/ publishAdvisory(c)
      PROVE CloseInv'
  <2>1. /\ Fits(Publishing("close", "closed"), closing)
        /\ Fits(Publishing("event", "active"), closing)
        /\ Fits(Publishing("other", "planned"), closing)
    BY DEF Fits, Publishing
  <2>2. /\ closing' = closing
        /\ \E r : Fits(r, closing) /\ req' = [req EXCEPT ![c] = r]
    BY <1>2, <2>1 DEF closeSeason, publishSeasonEvent, publishAdvisory, history
  <2> QED BY <2>2, OneFits
<1>3. ASSUME NEW c \in Clients, NEW stage \in Stages, NEW ok \in BOOLEAN,
             setSeasonStage(c, stage, ok)
      PROVE  CloseInv'
  <2>1. Fits(Publishing("other", "planned"), closing) /\ Fits(Idle, closing)
    BY DEF Fits, Publishing, Idle
  <2>2. closing' = closing /\ \E r : Fits(r, closing) /\ req' = [req EXCEPT ![c] = r]
    BY <1>3, <2>1 DEF setSeasonStage
  <2> QED BY <2>2, OneFits
<1>4. ASSUME NEW c \in Clients, NEW status \in Statuses \cup {""},
             NEW stage \in Stages \cup {""}, NEW ok \in BOOLEAN,
             putSeason(c, status, stage, ok) \/ deleteSeason(c, ok)
      PROVE  CloseInv'
  <2>1. req' = req /\ closing' = FALSE
    BY <1>4, Zenon DEF putSeason, deleteSeason
  <2> QED BY <1>11, <2>1, Zenon
<1>5. ASSUME NEW c \in Clients, NEW ok \in BOOLEAN, fwSeed(c, ok)
      PROVE  CloseInv'
  <2>1. /\ Fits([op |-> "seed", pc |-> "update", status |-> "active"], FALSE)
        /\ Fits(Idle, FALSE)
    BY DEF Fits, Idle
  <2>2. closing' = FALSE /\ \E r : Fits(r, FALSE) /\ req' = [req EXCEPT ![c] = r]
    BY <1>5, <2>1 DEF fwSeed
  <2> QED BY <2>2, OneFits
<1>6. ASSUME NEW c \in Clients, NEW b \in BOOLEAN, PublishSucceeds(c, b) \/ PublishFails(c, b)
      PROVE  CloseInv'
  <2>1. Fits(req[c], closing) /\ req[c] \in Request /\ req[c].pc = "publish" /\ closing' = closing
    BY <1>0, <1>6 DEF PublishSucceeds, PublishFails
  <2>2. Fits(Idle, closing)
    BY DEF Fits, Idle
  <2>3. req[c].op # "other" => Fits([req[c] EXCEPT !.pc = "update"], closing)
    BY <2>1 DEF Fits, Request
  <2>4. \E r : Fits(r, closing) /\ req' = [req EXCEPT ![c] = r]
    BY <1>6, <2>2, <2>3 DEF PublishSucceeds, PublishFails
  <2> QED BY <2>1, <2>4, OneFits
(* A close takes effect only while no open and no seed is in progress.       *)
<1>7. ASSUME NEW c \in Clients, NEW ok \in BOOLEAN, UpdateStatus(c, ok)
      PROVE  CloseInv'
  <2>1. closing' => ~Opening
    BY <1>7 DEF UpdateStatus, CloseInv
  <2>2. req' = [req EXCEPT ![c] = Idle]
    BY <1>7 DEF UpdateStatus
  <2>3. ASSUME NEW d \in Clients
        PROVE  Fits(req'[d], closing')
    <3>1. CASE d = c
      BY <2>2, <3>1 DEF Fits, Idle
    <3>2. CASE d # c
      BY <1>0, <2>1, <2>2, <3>2 DEF Fits, Opening
    <3> QED BY <3>1, <3>2
  <2> QED BY <2>3 DEF CloseInv, Fits, Opening
<1>8. ASSUME Restart PROVE CloseInv'
  <2>1. closing' = FALSE /\ req' = [c \in Clients |-> Idle]
    BY <1>8, Zenon DEF Restart
  <2> QED BY <2>1 DEF CloseInv, Opening, Idle
<1>9. CASE UNCHANGED vars
  BY <1>9 DEF vars, CloseInv, Opening
<1>10. CASE Next
  BY <1>1, <1>2, <1>3, <1>4, <1>5, <1>6, <1>7, <1>8, <1>10, Zenon DEF Next
<1> QED BY <1>9, <1>10

(* A close that is the last word is undone by the write-back of an event     *)
(* that was published before it, and by nothing else: whatever requests are  *)
(* in progress, whatever fails and whenever the process is restarted         *)
(* (publishSeasonEvent, UpdateStatus).                                       *)
THEOREM EventsAloneUndoClose == Spec => OnlyEventsUndoClose
<1> DEFINE Undone == closing /\ closing' /\ mem.status = "closed" /\ mem'.status # "closed"
           ByEvent == /\ mem'.status = "active"
                      /\ \E c \in Clients :
                            req[c].op = "event" /\ req[c].pc = "update" /\ req'[c] = Idle
<1>1. TypeOK /\ CloseInv /\ Next => (Undone => ByEvent)
  <2> SUFFICES ASSUME TypeOK, CloseInv, Next, Undone PROVE ByEvent
    OBVIOUS
  <2> closing \in BOOLEAN /\ req \in [Clients -> Request]
    BY RequestTypes
  <2>0. Present(mem) => mem \in [status : Statuses, stage : Stages \cup {""}]
    BY Zenon DEF TypeOK, Present, Season
  <2>1. ASSUME NEW c \in Clients,
               \/ openSeason(c) \/ closeSeason(c) \/ publishSeasonEvent(c)
               \/ publishAdvisory(c)
               \/ \E b \in BOOLEAN : PublishSucceeds(c, b) \/ PublishFails(c, b)
        PROVE  FALSE
    BY <2>1 DEF openSeason, closeSeason, publishSeasonEvent, publishAdvisory,
                PublishSucceeds, PublishFails, store
  <2>2. ASSUME NEW c \in Clients, NEW stage \in Stages, NEW ok \in BOOLEAN,
               setSeasonStage(c, stage, ok)
        PROVE  FALSE
    <3>1. Present(mem) /\ mem' = [mem EXCEPT !.stage = stage]
      BY <2>2, Zenon DEF setSeasonStage, Save
    <3>2. mem'.status = mem.status
      BY <2>0, <3>1, OneField, Zenon
    <3> QED BY <3>2
  <2>3. ASSUME NEW c \in Clients, NEW status \in Statuses \cup {""},
               NEW stage \in Stages \cup {""}, NEW ok \in BOOLEAN,
               putSeason(c, status, stage, ok) \/ fwSeed(c, ok) \/ deleteSeason(c, ok)
        PROVE  FALSE
    BY <2>3, Zenon DEF putSeason, fwSeed, deleteSeason
  <2>4. ASSUME Restart PROVE FALSE
    BY <2>4 DEF Restart
  <2>5. ASSUME NEW c \in Clients, NEW ok \in BOOLEAN, UpdateStatus(c, ok)
        PROVE  ByEvent
    <3>1. Present(mem)
      BY <2>5, Zenon DEF UpdateStatus, store
    <3>2. mem' = [mem EXCEPT !.status = req[c].status]
      BY <2>5, <3>1, Zenon DEF UpdateStatus, Save, Updated
    <3>5. mem'.status = req[c].status
      BY <2>0, <3>1, <3>2, OneField, Zenon
    <3>3. req[c] \in Request /\ req[c].pc = "update" /\ req'[c] = Idle
      BY <2>5 DEF UpdateStatus
    <3>4. req[c].op = "event" /\ req[c].status = "active"
      <4>1. req[c].op \in Ops
        BY <3>3 DEF Request
      <4>2. req[c].op \notin {"open", "seed", "other", "close"}
        BY <3>5, <3>3 DEF CloseInv, Opening
      <4> QED BY <3>3, <4>1, <4>2 DEF Ops, CloseInv
    <3> QED BY <3>5, <3>3, <3>4
  <2> HIDE DEF ByEvent, Undone
  <2> QED BY <2>1, <2>2, <2>3, <2>4, <2>5, Zenon DEF Next
<1>2. TypeOK /\ CloseInv /\ [Next]_vars => [Undone => ByEvent]_vars
  BY <1>1
<1> QED BY <1>2, InitCloseInv, NextCloseInv, TypeCorrect, PTL DEF Spec, OnlyEventsUndoClose

================================================================================
