----------------------------- MODULE ApiService -----------------------------
(***************************************************************************)
(* The gateway of http_security.py in front of the intent routes of api.py: *)
(* an admitted request that reserves its key runs one route, and what the  *)
(* route answers or raises is what the gateway keeps of it.  A restart     *)
(* ends the process that both live in.                                     *)
(***************************************************************************)
EXTENDS SecurityGateway

CONSTANTS MaxIntents

ASSUME IntentsAssumption == MaxIntents \in Nat

VARIABLES
    intents, audit, handler,  \* of IntentBroker
    dropped                   \* history: slots whose entry the cache has lost

brokerVars == <<intents, audit, handler>>

vars == <<sessions, cache, request, intents, audit, handler, dropped>>

Broker == INSTANCE IntentBroker WITH Handlers <- Requests

(* Each request runs in a thread of its own; the route is what its content
   says: to enqueue an intent or to update one. *)
Route(r) ==
    LET content == request[r].content IN
    /\ request[r].pc = "running"
    /\ IF content.op = "enqueue" THEN Broker!Enqueue(r)
       ELSE Broker!Update(r, content.id, content.state)
    /\ UNCHANGED gatewayVars

RouteGoesOn(r) ==
    /\ \/ Broker!AppendAudit(r)
       \/ Broker!Get(r)
    /\ UNCHANGED gatewayVars

(* openclaw_action logs an event of its own after the broker's, which may raise. *)
Finish(r) ==
    /\ \/ handler[r].pc = "done" /\ Answer(r)
       \/ handler[r].pc = "raised" /\ Raise(r)
       \/ handler[r].pc = "done" /\ request[r].content.op = "enqueue" /\ Raise(r)
    /\ UNCHANGED brokerVars

Gateway ==
    /\ \/ \E s \in Sessions : Login(s) \/ Logout(s) \/ SessionExpires(s)
       \/ \E r \in Requests, slot \in Slots, content \in Contents : Admit(r, slot, content)
       \/ \E r \in Requests : Reserve(r)
       \/ Tick
    /\ UNCHANGED brokerVars

Restart == GatewayRestart /\ Broker!BrokerRestart

Init == GatewayInit /\ Broker!BrokerInit /\ dropped = {}

(* The slots whose entry the next reservation still finds. *)
Held(entries) == SlotsIn(Fresh(entries))

Next ==
    /\ \/ Gateway
       \/ \E r \in Requests : Route(r) \/ RouteGoesOn(r) \/ Finish(r)
       \/ Restart
    /\ dropped' = dropped \cup (Held(cache) \ Held(cache'))

Spec == Init /\ [][Next]_vars

-----------------------------------------------------------------------------
TypeOK == GatewayTypeOK /\ Broker!BrokerTypeOK

(* Requests of one session with one key change at most one intent, once, as
   long as the cache has the key: a duplicate that overtakes the first one, or
   follows one that raised, or one whose answer was too large, does nothing. *)
ChangesOf(slot) ==
    {change \in (1..MaxIntents) \X (1..Cardinality(Requests)) :
        LET id == change[1]
            version == change[2] IN
        /\ id \in DOMAIN intents /\ version \in DOMAIN intents[id]
        /\ request[intents[id][version].by].slot = slot}

OncePerKey == \A slot \in Slots \ dropped : Cardinality(ChangesOf(slot)) <= 1

(* A replayed answer is that of a request of the same session, with the same
   key and the same content, that has been executed: whatever the cache has
   lost or taken back in between. *)
ReplayIsOwn ==
    \A r \in Requests : request[r].answer = "replayed" =>
        LET first == request[request[r].of] IN
        /\ first.answer = "executed"
        /\ first.slot = request[r].slot
        /\ first.content = request[r].content

(* A request is refused as a conflict only if another one of its session used
   its key for something else. *)
ConflictIsReal ==
    \A r \in Requests : request[r].answer = "conflict" =>
        \E other \in Requests :
            request[other].slot = request[r].slot /\ request[other].content # request[r].content

(* Whoever is answered is answered of his own request: an answer is replayed
   only to the session, key and content it was made for, and a conflict is only
   reported where there is one. *)
AnswersAreOwn == TypeOK /\ ReplayIsOwn /\ ConflictIsReal

(* No change of an intent undoes a terminal one, and every change that was
   answered is logged, none twice. *)
HistoryIsSound == Broker!HistoryIsSound
=============================================================================
