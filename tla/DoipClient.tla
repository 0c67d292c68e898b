----------------------------- MODULE DoipClient -----------------------------
(***************************************************************************)
(* vision_shark/doip_transport.py: the read-only diagnostic client, and a  *)
(* gateway that answers late, says any number of times that an answer is   *)
(* pending before it gives it, sends alive checks and other testers'       *)
(* traffic in between, refuses, or goes away.                              *)
(*                                                                         *)
(* A packet is what _recv makes of it.  Requests are numbered; an answer   *)
(* carries the number of its request, which the client cannot see.         *)
(***************************************************************************)
LOCAL INSTANCE Integers
LOCAL INSTANCE Sequences

CONSTANTS
    MaxRequests,   \* bound on the requests sent
    MaxStream      \* bound on the packets under way to the client

ASSUME DoipAssumption == MaxRequests \in Nat /\ MaxStream \in Nat

(* What may arrive without having been asked for. *)
Unasked == {"alive check", "other type", "for another tester", "wrong source",
            "rejection", "malformed"}

VARIABLES
    calling,   \* the call under way: "none", "connect", "read", "prove"
    waiting,   \* what it waits for: "none", "routing", "answer"
    open,      \* sock is set
    routing,   \* routing_active
    stream,    \* the packets under way on this connection
    owed,      \* requests of this connection the gateway has not answered yet
    sent,      \* number of the last request
    clean,     \* history: every earlier read of this connection got its final answer
    result     \* history: what the last call returned, or raised

doipVars == <<calling, waiting, open, routing, stream, owed, sent, clean, result>>

Answer(n) == [type |-> "answer", to |-> n]
Pending(n) == [type |-> "response pending", to |-> n]  \* negative response code 0x78
Answers == {"answer", "response pending"}
Unsolicited(kind) == [type |-> kind, to |-> 0]
Activation == Unsolicited("routing activation")
Raised == [request |-> 0, answer |-> 0]

DoipInit ==
    /\ calling = "none" /\ waiting = "none"
    /\ open = FALSE /\ routing = FALSE
    /\ stream = <<>> /\ owed = {} /\ sent = 0
    /\ clean = TRUE
    /\ result = Raised

(* close, and what close leaves of the connection. *)
Closed ==
    /\ open' = FALSE /\ routing' = FALSE
    /\ stream' = <<>> /\ owed' = {}
    /\ clean' = TRUE

Return(what) ==
    /\ calling' = "none" /\ waiting' = "none"
    /\ result' = what

(* connect closes what is open, and asks for routing activation; read_uds
   connects only when there is no socket. *)
Connect(call) ==
    /\ calling = "none"
    /\ calling' = call /\ waiting' = "routing"
    /\ open' = TRUE /\ routing' = FALSE
    /\ stream' = <<>> /\ owed' = {0}
    /\ clean' = TRUE
    /\ UNCHANGED <<sent, result>>

(* Slip: a proof goes over the connection that is there. *)
ProveOnWhatIsOpen ==
    /\ sent < MaxRequests
    /\ IF open
       THEN /\ calling = "none"
            /\ calling' = "prove" /\ waiting' = "answer"
            /\ sent' = sent + 1 /\ owed' = owed \cup {sent + 1}
            /\ UNCHANGED <<open, routing, stream, clean, result>>
       ELSE Connect("prove")

(* prove_readonly_session, and the `with' blocks of the orchestrator: a
   connection of its own, one read, and the connection is closed. *)
Prove == sent < MaxRequests /\ Connect("prove")

ReadConnecting == ~open /\ sent < MaxRequests /\ Connect("read")

Send(call) ==
    /\ sent < MaxRequests
    /\ calling' = call /\ waiting' = "answer"
    /\ sent' = sent + 1 /\ owed' = owed \cup {sent + 1}

(* read_uds on a connection that is there, routed or not. *)
ReadOpen ==
    /\ calling = "none" /\ open
    /\ Send("read")
    /\ UNCHANGED <<open, routing, stream, clean, result>>

(* The call raises.  connect and prove close the connection, read_uds leaves
   it open with whatever is still to come. *)
Fail ==
    /\ Return(Raised)
    /\ IF waiting = "routing" \/ calling = "prove"
       THEN Closed
       ELSE clean' = FALSE /\ UNCHANGED <<open, routing, owed>>

Arriving(kind) == waiting # "none" /\ stream # <<>> /\ Head(stream).type = kind
Taken == stream' = Tail(stream)

(* _answer_alive_check, and the packets read_uds passes over. *)
PassOver ==
    /\ \/ Arriving("alive check")
       \/ waiting = "answer" /\ \E kind \in {"other type", "for another tester",
                                             "routing activation"} : Arriving(kind)
    /\ Taken
    /\ UNCHANGED <<calling, waiting, open, routing, owed, sent, clean, result>>

RoutingActivated ==
    /\ waiting = "routing" /\ Arriving("routing activation")
    /\ Taken /\ routing' = TRUE
    /\ IF calling = "connect"
       THEN Return(result) /\ UNCHANGED <<sent, owed>>
       ELSE Send(calling) /\ UNCHANGED result
    /\ UNCHANGED <<open, clean>>

(* read_uds returns the first diagnostic message that names both addresses,
   one that only says that the answer is pending like any other; it compares
   neither its service nor its identifiers with the request. *)
AnswerTaken ==
    /\ waiting = "answer" /\ \E kind \in Answers : Arriving(kind)
    /\ Return([request |-> sent, answer |-> Head(stream).to])
    /\ IF calling = "prove"
       THEN Closed
       ELSE /\ Taken
            /\ clean' = (clean /\ Head(stream).type = "answer")
            /\ UNCHANGED <<open, routing, owed>>
    /\ UNCHANGED sent

(* Anything else makes the call raise. *)
Refused ==
    /\ \/ waiting = "routing" /\ \E kind \in (Unasked \ {"alive check"}) \cup Answers : Arriving(kind)
       \/ waiting = "answer" /\ \E kind \in {"rejection", "wrong source", "malformed"} : Arriving(kind)
    /\ Fail
    /\ (waiting = "answer" /\ calling = "read") => Taken
    /\ UNCHANGED sent

(* Nothing has come within the timeout. *)
TimesOut ==
    /\ waiting # "none" /\ stream = <<>>
    /\ Fail
    /\ (waiting = "answer" /\ calling = "read") => UNCHANGED stream
    /\ UNCHANGED sent

Close ==
    /\ calling = "none" /\ open
    /\ Closed
    /\ UNCHANGED <<calling, waiting, sent, result>>

-----------------------------------------------------------------------------
(* The gateway answers what it owes in the order it likes, late or never, and
   sends what was not asked for. *)
GatewayAnswers ==
    /\ open /\ Len(stream) < MaxStream
    /\ \E n \in owed :
          /\ stream' = Append(stream, IF n = 0 THEN Activation ELSE Answer(n))
          /\ owed' = owed \ {n}
    /\ UNCHANGED <<calling, waiting, open, routing, sent, clean, result>>

(* It needs more time for a diagnostic request, and says so. *)
GatewayDefers ==
    /\ open /\ Len(stream) < MaxStream
    /\ \E n \in owed \ {0} : stream' = Append(stream, Pending(n))
    /\ UNCHANGED <<calling, waiting, open, routing, owed, sent, clean, result>>

GatewaySends ==
    /\ open /\ Len(stream) < MaxStream
    /\ \E kind \in Unasked : stream' = Append(stream, Unsolicited(kind))
    /\ UNCHANGED <<calling, waiting, open, routing, owed, sent, clean, result>>

DoipNext ==
    \/ Connect("connect") \/ ReadConnecting \/ ReadOpen \/ Prove \/ Close
    \/ PassOver \/ RoutingActivated \/ AnswerTaken \/ Refused \/ TimesOut
    \/ GatewayAnswers \/ GatewayDefers \/ GatewaySends

DoipSpec == DoipInit /\ [][DoipNext]_doipVars

-----------------------------------------------------------------------------
(* An answer that is returned answers the request it is returned for, finally
   or as pending: always for a proof, which has a connection of its own, and for
   a read unless an earlier read on the same connection has raised or was given
   a pending answer, so that its final one may still come. *)
AnswersOwnRequest ==
    [][waiting = "answer" /\ waiting' = "none" /\ result' # Raised =>
         result'.answer = result'.request \/ (calling = "read" /\ ~clean)]_doipVars
=============================================================================
