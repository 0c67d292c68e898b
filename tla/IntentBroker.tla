---------------------------- MODULE IntentBroker ----------------------------
(***************************************************************************)
(* vision_shark/intent_broker.py and the append of audit_log.py: the queue *)
(* of intents handed to providers, and the log of what happened to them.   *)
(*                                                                         *)
(* Each route runs in a thread of its own (`Handlers').  A block under the *)
(* broker's or the log's lock is one action with its commit; the two locks *)
(* are not held together.  The database of the intents does not fail.      *)
(*                                                                         *)
(* An operator whose comment begins with `Slip' is no part of the model: it *)
(* is a mistake the operator after it could have been written with, and     *)
(* which the runs tell from the model.                                      *)
(***************************************************************************)
EXTENDS Naturals, Sequences, FiniteSets

CONSTANTS
    Handlers,
    MaxIntents,  \* bound on the intents enqueued
    None

VARIABLES
    intents,  \* per intent the states it has had, each with the handler that set it
    audit,    \* the events of category "intent", in order
    handler   \* the routes under way

brokerVars == <<intents, audit, handler>>

Terminal == {"completed", "failed", "cancelled"}
States == {"pending", "acknowledged"} \cup Terminal

Change == [state : States, by : Handlers]
Event == [id : 1..MaxIntents, version : Nat, state : States]
Handler == [pc : {"idle", "audit", "get", "done", "raised"},
            id : 1..MaxIntents \cup {None}, version : Nat]

IdleHandler == [pc |-> "idle", id |-> None, version |-> 0]

BrokerInit ==
    /\ intents = <<>>
    /\ audit = <<>>
    /\ handler = [h \in Handlers |-> IdleHandler]

Current(id) == intents[id][Len(intents[id])].state

Changed(h, id, version) ==
    handler' = [handler EXCEPT ![h] = [@ EXCEPT !.pc = "audit", !.id = id, !.version = version]]

-----------------------------------------------------------------------------
Enqueue(h) ==
    /\ handler[h].pc = "idle"
    /\ Len(intents) < MaxIntents
    /\ intents' = Append(intents, <<[state |-> "pending", by |-> h]>>)
    /\ Changed(h, Len(intents) + 1, 1)
    /\ UNCHANGED audit

Allowed(id, state) ==
    /\ state \in States
    /\ Current(id) \in Terminal => state = Current(id)

(* Slip: a change is answered without being logged. *)
UpdateUnlogged(h, id, state) ==
    /\ handler[h].pc = "idle"
    /\ IF id \in DOMAIN intents /\ Allowed(id, state)
       THEN /\ intents' = [intents EXCEPT ![id] = Append(@, [state |-> state, by |-> h])]
            /\ handler' = [handler EXCEPT
                    ![h] = [pc |-> "get", id |-> id, version |-> Len(intents[id]) + 1]]
       ELSE /\ handler' = [handler EXCEPT ![h].pc = "done"]
            /\ UNCHANGED intents
    /\ UNCHANGED audit

(* `update': an intent in a terminal state may be given the same one again.  A
   refusal is an answer like any other. *)
Update(h, id, state) ==
    /\ handler[h].pc = "idle"
    /\ IF id \in DOMAIN intents /\ Allowed(id, state)
       THEN /\ intents' = [intents EXCEPT ![id] = Append(@, [state |-> state, by |-> h])]
            /\ Changed(h, id, Len(intents[id]) + 1)
       ELSE /\ handler' = [handler EXCEPT ![h].pc = "done"]
            /\ UNCHANGED intents
    /\ UNCHANGED audit

(* audit.append, after the broker's lock has been released.  `update' then
   reads the intent for its answer; `enqueue' answers with what it inserted.
   A commit of the log that fails leaves its row to the next one's. *)
AppendAudit(h) ==
    LET me == handler[h]
        logged == Append(audit, [id |-> me.id, version |-> me.version,
                                 state |-> intents[me.id][me.version].state]) IN
    /\ me.pc = "audit"
    /\ \/ /\ audit' = logged
          /\ handler' = [handler EXCEPT
                ![h] = [@ EXCEPT !.pc = IF me.version = 1 THEN "done" ELSE "get"]]
       \/ /\ audit' \in {audit, logged}
          /\ handler' = [handler EXCEPT ![h].pc = "raised"]
    /\ UNCHANGED intents

Get(h) ==
    /\ handler[h].pc = "get"
    /\ handler' = [handler EXCEPT ![h] = [IdleHandler EXCEPT !.pc = "done"]]
    /\ UNCHANGED <<intents, audit>>

(* The process is restarted; the two databases stay, and what has not been
   logged will not be. *)
BrokerRestart ==
    /\ handler' = [h \in Handlers |->
            CASE handler[h].pc = "audit" -> [handler[h] EXCEPT !.pc = "raised"]
              [] handler[h].pc = "get" -> [handler[h] EXCEPT !.pc = "done"]
              [] OTHER -> handler[h]]
    /\ UNCHANGED <<intents, audit>>

BrokerTypeOK ==
    /\ intents \in Seq(Seq(Change)) /\ Len(intents) <= MaxIntents
    /\ audit \in Seq(Event)
    /\ handler \in [Handlers -> Handler]

(* An intent that has been completed, failed or cancelled stays that. *)
TerminalStays ==
    \A id \in DOMAIN intents : \A version \in 2..Len(intents[id]) :
        LET before == intents[id][version - 1].state IN
        before \in Terminal => intents[id][version].state = before

(* Every change of an intent is in the log once, unless its handler has yet to
   append it or failed to; and the log says nothing else. *)
Logged(id, version) ==
    {i \in DOMAIN audit : audit[i].id = id /\ audit[i].version = version}

ChangesAreLogged ==
    /\ \A i \in DOMAIN audit :
          /\ audit[i].id \in DOMAIN intents
          /\ audit[i].version \in DOMAIN intents[audit[i].id]
          /\ audit[i].state = intents[audit[i].id][audit[i].version].state
    /\ \A id \in DOMAIN intents : \A version \in DOMAIN intents[id] :
          LET pc == handler[intents[id][version].by].pc IN
          /\ Cardinality(Logged(id, version)) <= 1
          /\ pc = "audit" => Logged(id, version) = {}
          /\ pc \in {"get", "done"} => Logged(id, version) # {}

(* What becomes of an intent is final and on record: none leaves a terminal
   state, and the log has every change once. *)
HistoryIsSound == TerminalStays /\ ChangesAreLogged
=============================================================================
