-------------------------------- MODULE Publisher ------------------------------
(***************************************************************************)
(* Publishing an event to Relay (internal/relaypub/client.go) while an     *)
(* operator changes the publisher's settings (putAdminConfig of            *)
(* internal/httpapi/admin.go) and the process is killed and started again  *)
(* (LoadRuntimeConfig, called by cmd/relay-edge/main.go).                  *)
(*                                                                         *)
(* A publish goes to a Pub/Sub gateway if one is set, to Relay if not.  A  *)
(* gateway that does not know the topic answers 404; the client then       *)
(* creates the topic and posts the same bytes once more.  The settings are *)
(* written under pubMu and read by publishes without it.                   *)
(*                                                                         *)
(* Abstractions: the settings are a URL that a PUT may clear (the gateway; *)
(* the TLS flag is stored the same way) and one that an empty field leaves *)
(* alone (Relay's; so is the project); an error is whether its text holds  *)
(* "404", which an answer, an address or a body may bring about.  That the *)
(* file is replaced at one instant is JsonStore.  Gateways and Relay are   *)
(* external: a gateway keeps what it accepts and hands it to Relay, again  *)
(* perhaps, and Relay applies each idempotency key once.                   *)
(***************************************************************************)
EXTENDS Naturals, FiniteSets

CONSTANTS
    Events,    \* events to publish, each by a thread of its own
    Gateways,  \* URLs of gateways
    Relays,    \* URLs of Relay
    Unset,     \* the empty string
    EnvGateway, EnvRelay,  \* GATEWAY_BASE_URL and RELAY_BASE_URL
    MaxPuts,   \* bound of the model: configuration requests
    MaxKills   \* bound of the model: restarts

ASSUME PublisherAssumption ==
    /\ Unset \notin Gateways \cup Relays
    /\ EnvGateway \in Gateways \cup {Unset}
    /\ EnvRelay \in Relays
    /\ {MaxPuts, MaxKills} \subseteq Nat

VARIABLES
    conf,      \* s.Pub: the settings in memory
    saved,     \* runtime-config.json, or None
    put,       \* the PUT .../config that holds pubMu
    answer,    \* how the last PUT ended since the start: "none", 200 or 500
    pub,       \* pub[e]: the publish of event e
    topics,    \* gateways where the topic exists
    accepted,  \* messages gateways have accepted
    applied,   \* idempotency keys Relay has applied
    puts, kills

admin == <<conf, saved, put, answer, puts, kills>>
world == <<topics, accepted, applied>>
vars == <<admin, pub, world>>

Config == [gateway : Gateways \cup {Unset}, relay : Relays]
Request == [gateway : Gateways \cup {Unset}, relay : Relays \cup {Unset}]
None == [gateway |-> Unset, relay |-> Unset]
Env == [gateway |-> EnvGateway, relay |-> EnvRelay]

PutPC == {"idle", "gateway", "relay", "persist"}
PubPC == {"new", "base", "post", "ensure", "repost", "direct", "ok", "failed"}

(* The key of an event, in the first and in the second post of it.           *)
Keys == Events \X (1 .. 2)

Init ==
    /\ conf = Env
    /\ saved = None
    /\ put = [pc |-> "idle", body |-> None]
    /\ answer = "none"
    /\ pub = [e \in Events |-> [pc |-> "new", url |-> Unset]]
    /\ topics \in SUBSET Gateways
    /\ accepted = {}
    /\ applied = {}
    /\ puts = 0
    /\ kills = 0

--------------------------------------------------------------------------------
(* Plausible bugs, one per property a run checks *)

KeyPerAttempt(e, attempt) == <<e, attempt>>

(* The retry goes on by itself after the first error has been returned.      *)
EnsuredInBackground(e) ==
    /\ pub[e].pc \in {"ensure", "failed"}
    /\ conf.gateway # Unset
    /\ topics' = topics \cup {conf.gateway}
    /\ pub' = [pub EXCEPT ![e].pc = "repost"]
    /\ UNCHANGED <<admin, accepted, applied>>

(* applyRuntime(pub, cfg, true): the environment wins over the saved file.   *)
AppliedIfEmpty(old, body) ==
    [gateway |-> IF old.gateway = Unset THEN body.gateway ELSE old.gateway,
     relay |-> old.relay]

--------------------------------------------------------------------------------
(* Settings *)

(* applyRuntime with onlyIfEmpty false: the gateway may be cleared, Relay's  *)
(* URL may not.                                                              *)
WithGateway(old, body) == [old EXCEPT !.gateway = body.gateway]
WithRelay(old, body) == IF body.relay = Unset THEN old ELSE [old EXCEPT !.relay = body.relay]

Overlaid(old, body) == WithRelay(WithGateway(old, body), body)

(* What the process starts with: the environment under the saved file.       *)
Loaded(file) == IF file = None THEN Env ELSE Overlaid(Env, file)

putAdminConfig(body) ==
    /\ put.pc = "idle"
    /\ puts < MaxPuts
    /\ puts' = puts + 1
    /\ put' = [pc |-> "gateway", body |-> body]
    /\ UNCHANGED <<conf, saved, answer, kills, pub, world>>

(* applyRuntime writes one field after the other. *)
AppliesGateway ==
    /\ put.pc = "gateway"
    /\ conf' = WithGateway(conf, put.body)
    /\ put' = [put EXCEPT !.pc = "relay"]
    /\ UNCHANGED <<saved, answer, puts, kills, pub, world>>

AppliesRelay ==
    /\ put.pc = "relay"
    /\ conf' = WithRelay(conf, put.body)
    /\ put' = [put EXCEPT !.pc = "persist"]
    /\ UNCHANGED <<saved, answer, puts, kills, pub, world>>

(* persistConfigLocked, with its answer; a refused write leaves the change   *)
(* in effect and answers 500.                                                *)
persistConfigLocked ==
    /\ put.pc = "persist"
    /\ \/ saved' = conf /\ answer' = "200"
       \/ UNCHANGED saved /\ answer' = "500"
    /\ put' = [pc |-> "idle", body |-> None]
    /\ UNCHANGED <<conf, puts, kills, pub, world>>

(* A kill, also between the rename of the file and the answer, and a start.  *)
Restart ==
    /\ kills < MaxKills
    /\ kills' = kills + 1
    /\ \/ UNCHANGED saved
       \/ put.pc = "persist" /\ saved' = conf
    /\ conf' = Loaded(saved')
    /\ put' = [pc |-> "idle", body |-> None]
    /\ answer' = "none"
    /\ pub' = [e \in Events |-> IF pub[e].pc \in {"new", "ok"} THEN pub[e]
                                ELSE [pub[e] EXCEPT !.pc = "failed"]]
    /\ UNCHANGED <<puts, world>>

--------------------------------------------------------------------------------
(* Publishing *)

(* The bytes are built once and sent in both posts, key included.            *)
Key(e, attempt) == <<e, 1>>

Goes(e, pc) == pub' = [pub EXCEPT ![e].pc = pc]

(* PublishEventType looks at GatewayBase, and publishViaGateway again: if it *)
(* was cleared in between, the post goes to no address and fails.            *)
PublishEventType(e) ==
    /\ pub[e].pc = "new"
    /\ Goes(e, IF conf.gateway = Unset THEN "direct" ELSE "base")
    /\ UNCHANGED <<admin, world>>

publishViaGateway(e) ==
    /\ pub[e].pc = "base"
    /\ pub' = [pub EXCEPT ![e] = [pc |-> "post", url |-> conf.gateway]]
    /\ UNCHANGED <<admin, world>>

(* The gateway takes the message and its answer arrives. *)
doGatewayPublish(e) ==
    /\ pub[e].pc \in {"post", "repost"}
    /\ pub[e].url \in topics
    /\ accepted' = accepted \cup {Key(e, IF pub[e].pc = "post" THEN 1 ELSE 2)}
    /\ Goes(e, "ok")
    /\ UNCHANGED <<admin, topics, applied>>

(* An error: 404 for want of the topic; any other, with the message taken or *)
(* not, and with or without "404" in its text.  Only the first post is       *)
(* followed by another.                                                      *)
GatewayPublishFails(e) ==
    /\ pub[e].pc \in {"post", "repost"}
    /\ \/ UNCHANGED accepted
       \/ pub[e].url \in topics
          /\ accepted' = accepted \cup {Key(e, IF pub[e].pc = "post" THEN 1 ELSE 2)}
    /\ \/ Goes(e, "failed")
       \/ pub[e].pc = "post" /\ Goes(e, "ensure")
    /\ UNCHANGED <<admin, topics, applied>>

(* The topic is created, or was there (409), at the gateway set by now.      *)
ensureGatewayTopic(e) ==
    /\ pub[e].pc = "ensure"
    /\ conf.gateway # Unset
    /\ topics' = topics \cup {conf.gateway}
    /\ Goes(e, "repost")
    /\ UNCHANGED <<admin, accepted, applied>>

(* The error of the first post is returned; the topic may exist all the same. *)
EnsureFails(e) ==
    /\ pub[e].pc = "ensure"
    /\ Goes(e, "failed")
    /\ \/ UNCHANGED topics
       \/ conf.gateway # Unset /\ topics' = topics \cup {conf.gateway}
    /\ UNCHANGED <<admin, accepted, applied>>

publishDirect(e) ==
    /\ pub[e].pc = "direct"
    /\ applied' = applied \cup {Key(e, 1)}
    /\ Goes(e, "ok")
    /\ UNCHANGED <<admin, topics, accepted>>

DirectFails(e) ==
    /\ pub[e].pc = "direct"
    /\ applied' \in {applied, applied \cup {Key(e, 1)}}
    /\ Goes(e, "failed")
    /\ UNCHANGED <<admin, topics, accepted>>

(* A gateway hands a message to Relay; a key Relay knows changes nothing.    *)
Forward(k) ==
    /\ k \in accepted
    /\ applied' = applied \cup {k}
    /\ UNCHANGED <<admin, pub, topics, accepted>>

--------------------------------------------------------------------------------

Next ==
    \/ \E body \in Request : putAdminConfig(body)
    \/ AppliesGateway
    \/ AppliesRelay
    \/ persistConfigLocked
    \/ Restart
    \/ \E e \in Events :
          \/ PublishEventType(e)
          \/ publishViaGateway(e)
          \/ doGatewayPublish(e)
          \/ GatewayPublishFails(e)
          \/ ensureGatewayTopic(e)
          \/ EnsureFails(e)
          \/ publishDirect(e)
          \/ DirectFails(e)
    \/ \E k \in Keys : Forward(k)

Spec == Init /\ [][Next]_vars

--------------------------------------------------------------------------------
(* Properties *)

Held(e) == {k \in accepted \cup applied : k[1] = e}

(* However answers are lost, topics created and posts repeated, Relay gets   *)
(* an event under one key, so that it is applied once at most; and a publish *)
(* that reported success has reached Relay, or a gateway that will hand it   *)
(* on, under whatever settings it went out.                                  *)
PublishedOnce ==
    \A e \in Events :
        /\ Cardinality(Held(e)) <= 1
        /\ pub[e].pc = "ok" => Held(e) # {}

(* Seen by those who ask for it, a publish is what EventDelivery says: how   *)
(* it ended is never taken back, whatever settings change and restarts       *)
(* happen, an event handed over is not lost, and Relay applies it once.      *)
Promise == INSTANCE EventDelivery WITH
    outcome <- [e \in Events |-> IF pub[e].pc \in {"ok", "failed"} THEN pub[e].pc ELSE "open"],
    held <- {e \in Events : Held(e) # {}},
    effects <- [e \in Events |-> Cardinality({k \in applied : k[1] = e})]

KeepsDeliveryPromise == Promise!Spec

(* Settings that were answered with 200 are those a restart comes back with, *)
(* a cleared gateway included, whatever the environment says; and so are     *)
(* those a restart came back with, until the next PUT.                       *)
ConfigSurvives == put.pc = "idle" /\ answer # "500" => conf = Loaded(saved)

================================================================================
