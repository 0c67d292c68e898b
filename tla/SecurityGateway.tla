-------------------------- MODULE SecurityGateway --------------------------
(***************************************************************************)
(* vision_shark/http_security.py: the sessions of the local gateway and the *)
(* idempotency keys of state-changing requests.                            *)
(*                                                                         *)
(* The middleware gives way at its awaits: for the body of the request,    *)
(* between the session check and the reservation of the key, and for the   *)
(* application, between the reservation and the answer.  Here a request is *)
(* one that has the admin role, the CSRF token and a key; the application  *)
(* behind the gateway is left open.                                        *)
(*                                                                         *)
(* An operator whose comment begins with `Slip' is no part of the model: it *)
(* is a mistake the operator after it could have been written with, and     *)
(* which the runs tell from the model.                                      *)
(***************************************************************************)
EXTENDS Naturals, Sequences, FiniteSets

CONSTANTS
    Requests,
    Sessions,  \* session ids: random, so none is used twice
    Keys,      \* Idempotency-Key values
    Contents,  \* what the request hash is taken of: method, path, query, body
    Capacity,  \* how many keys the cache holds: 2048
    Lifetime,  \* how long it holds one, in ticks: 15 minutes
    None

VARIABLES
    sessions,  \* SecurityManager._sessions: session id -> "new", "live" or "ended"
    cache,     \* SecurityManager._idempotency, a dict in order of insertion
    request    \* the requests, each sent once

gatewayVars == <<sessions, cache, request>>

Slots == Sessions \X Keys

(* `of' is the request whose answer the entry holds, or None while pending. *)
Entry == [slot : Slots, content : Contents, of : Requests \cup {None}, ttl : 0..Lifetime]

Answers == {"executed", "raised", "replayed", "conflict", "uncertain", "lost"}
ASSUME GatewayAssumption ==
    /\ Capacity \in Nat \ {0} /\ Lifetime \in Nat \ {0}
    /\ None \notin Answers

Request == [pc : {"new", "admitted", "running", "done"}, slot : Slots \cup {None},
            content : Contents \cup {None}, answer : Answers \cup {None},
            of : Requests \cup {None}]

Unsent == [pc |-> "new", slot |-> None, content |-> None, answer |-> None, of |-> None]

GatewayInit ==
    /\ sessions = [s \in Sessions |-> "new"]
    /\ cache = <<>>
    /\ request = [r \in Requests |-> Unsent]

EntryOf(r, of) == [slot |-> request[r].slot, content |-> request[r].content, of |-> of,
                   ttl |-> Lifetime]

SlotsIn(entries) == {entries[i].slot : i \in DOMAIN entries}

(* The entries at these places, in the order they have. *)
Keep(entries, places) ==
    LET upTo[n \in 0..Len(entries)] ==
            IF n = 0 THEN <<>>
            ELSE upTo[n - 1] \o (IF n \in places THEN <<entries[n]>> ELSE <<>>)
    IN  upTo[Len(entries)]

(* Those that have time left. *)
Fresh(entries) == Keep(entries, {i \in DOMAIN entries : entries[i].ttl > 0})

Answered(r, answer, of) ==
    request' = [request EXCEPT ![r].pc = "done", ![r].answer = answer, ![r].of = of]

-----------------------------------------------------------------------------
Login(s) ==
    /\ sessions[s] = "new"
    /\ sessions' = [sessions EXCEPT ![s] = "live"]
    /\ UNCHANGED <<cache, request>>

(* The keys of the session go with it. *)
Logout(s) ==
    /\ sessions[s] = "live"
    /\ sessions' = [sessions EXCEPT ![s] = "ended"]
    /\ cache' = Keep(cache, {i \in DOMAIN cache : cache[i].slot[1] # s})
    /\ UNCHANGED request

(* `get' finds it past its time; the keys stay. *)
SessionExpires(s) ==
    /\ sessions[s] = "live"
    /\ sessions' = [sessions EXCEPT ![s] = "ended"]
    /\ UNCHANGED <<cache, request>>

(* The session is looked up before the body is read. *)
Admit(r, slot, content) ==
    /\ request[r].pc = "new"
    /\ sessions[slot[1]] = "live"
    /\ request' = [request EXCEPT ![r] =
            [@ EXCEPT !.pc = "admitted", !.slot = slot, !.content = content]]
    /\ UNCHANGED <<sessions, cache>>

(* Slip: a key whose request is under way is not refused. *)
ReserveUnlessAnswered(r) ==
    LET kept == Fresh(cache)
        mine == {i \in DOMAIN kept : kept[i].slot = request[r].slot /\ kept[i].of # None}
        others == {i \in DOMAIN kept : kept[i].slot # request[r].slot}
        all == Append(Keep(kept, others), EntryOf(r, None)) IN
    /\ request[r].pc = "admitted"
    /\ \/ /\ mine = {}
          /\ cache' = SubSeq(all, IF Len(all) > Capacity THEN 2 ELSE 1, Len(all))
          /\ request' = [request EXCEPT ![r].pc = "running"]
       \/ \E i \in mine :
             /\ cache' = kept
             /\ IF kept[i].content # request[r].content THEN Answered(r, "conflict", None)
                ELSE Answered(r, "replayed", kept[i].of)
    /\ UNCHANGED sessions

(* Slip: only the key is looked for, not the session. *)
ReserveForAnySession(r) ==
    LET kept == Fresh(cache)
        mine == {i \in DOMAIN kept : kept[i].slot[2] = request[r].slot[2]}
        all == Append(kept, EntryOf(r, None)) IN
    /\ request[r].pc = "admitted"
    /\ \/ /\ mine = {}
          /\ cache' = SubSeq(all, IF Len(all) > Capacity THEN 2 ELSE 1, Len(all))
          /\ request' = [request EXCEPT ![r].pc = "running"]
       \/ \E i \in mine :
             /\ cache' = kept
             /\ CASE kept[i].content # request[r].content -> Answered(r, "conflict", None)
                  [] kept[i].content = request[r].content /\ kept[i].of = None ->
                        Answered(r, "uncertain", None)
                  [] OTHER -> Answered(r, "replayed", kept[i].of)
    /\ UNCHANGED sessions

(* idempotency_reserve.  The oldest entry makes room, pending or not. *)
Reserve(r) ==
    LET kept == Fresh(cache)
        mine == {i \in DOMAIN kept : kept[i].slot = request[r].slot}
        all == Append(kept, EntryOf(r, None)) IN
    /\ request[r].pc = "admitted"
    /\ \/ /\ mine = {}
          /\ cache' = SubSeq(all, IF Len(all) > Capacity THEN Len(all) - Capacity + 1 ELSE 1,
                             Len(all))
          /\ request' = [request EXCEPT ![r].pc = "running"]
       \/ \E i \in mine :
             /\ cache' = kept
             /\ \/ kept[i].content # request[r].content /\ Answered(r, "conflict", None)
                \/ /\ kept[i].content = request[r].content
                   /\ IF kept[i].of = None THEN Answered(r, "uncertain", None)
                      ELSE Answered(r, "replayed", kept[i].of)
    /\ UNCHANGED sessions

(* idempotency_complete: a dict keeps the place of a key it has, and takes a
   key it has lost as a new one, without looking at its size. *)
WithAnswer(r) ==
    LET slot == request[r].slot IN
    IF slot \in SlotsIn(cache)
    THEN [i \in DOMAIN cache |-> IF cache[i].slot = slot THEN EntryOf(r, r) ELSE cache[i]]
    ELSE Append(cache, EntryOf(r, r))

(* The application answers; an answer above 2 MiB is not kept, and its key
   stays pending. *)
Answer(r) ==
    /\ request[r].pc = "running"
    /\ cache' \in {WithAnswer(r), cache}
    /\ Answered(r, "executed", r)
    /\ UNCHANGED sessions

(* The application raises, and the key stays pending. *)
Raise(r) ==
    /\ request[r].pc = "running"
    /\ Answered(r, "raised", None)
    /\ UNCHANGED <<sessions, cache>>

(* Entries age; one without time left is dropped by the next reservation. *)
Tick ==
    /\ \E i \in DOMAIN cache : cache[i].ttl > 0
    /\ cache' = [i \in DOMAIN cache |->
            [cache[i] EXCEPT !.ttl = IF @ > 0 THEN @ - 1 ELSE 0]]
    /\ UNCHANGED <<sessions, request>>

(* The process is restarted: sessions and keys are in memory only. *)
GatewayRestart ==
    /\ sessions' = [s \in Sessions |-> IF sessions[s] = "live" THEN "ended" ELSE sessions[s]]
    /\ cache' = <<>>
    /\ request' = [r \in Requests |->
            IF request[r].pc \in {"admitted", "running"}
            THEN [request[r] EXCEPT !.pc = "done", !.answer = "lost"] ELSE request[r]]

GatewayTypeOK ==
    /\ sessions \in [Sessions -> {"new", "live", "ended"}]
    /\ cache \in Seq(Entry) /\ Len(cache) = Cardinality(SlotsIn(cache))
    /\ request \in [Requests -> Request]
=============================================================================
