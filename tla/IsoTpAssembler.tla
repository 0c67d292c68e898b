--------------------------- MODULE IsoTpAssembler ---------------------------
(***************************************************************************)
(* vision_shark/isotp_passive.py: segmented messages put together from a   *)
(* bus that is only listened to.  The listener asks for nothing again: a   *)
(* frame it misses is missed for good, and only the sequence number in a   *)
(* consecutive frame and the time since the last one tell it so.           *)
(*                                                                         *)
(* A frame is named by what it is a part of; its payload is that name.     *)
(* Frames that _split or consume put aside before they look at a stream    *)
(* (errors, remote requests, another address extension, flow control) are  *)
(* left out.                                                               *)
(***************************************************************************)
LOCAL INSTANCE Integers
LOCAL INSTANCE Sequences

CONSTANTS
    Keys,         \* what _key returns: bus, identifier, address extension
    Modulus,      \* sequence numbers, 16 on the wire
    Lengths,      \* frames a message may have
    MaxPayload,   \* max_payload, in frames
    MaxGap,       \* max_gap_ns, in ticks
    MaxMessages,  \* bound on the messages of one key
    MaxBurst      \* bound on the frames of one key that are missed in a row

(* Missing Modulus frames in a row would go unnoticed, as would the end of one
   message and the first frames of another, if as many as had arrived of the
   one, up to multiples of Modulus: the number that follows is then the one
   waited for.  Where messages have any length, only frames missed singly,
   MaxBurst = 1, are always noticed. *)
ASSUME IsoTpAssumption ==
    /\ Modulus \in Nat \ {0} /\ Lengths \subseteq Nat \ {0}
    /\ MaxPayload \in Nat /\ MaxGap \in Nat /\ MaxMessages \in Nat /\ MaxBurst \in Nat
    /\ MaxBurst < Modulus
    /\ \A n \in Lengths : n > 1 /\ n <= MaxPayload =>
           \A lost \in 2..MaxBurst : (n - lost) % Modulus # 0

VARIABLES
    sender,     \* key -> [msg, length, next]: what its sender has put on the bus
    streams,    \* _streams: key -> [total, payload, nextSeq], or NoStream
    age,        \* key -> ticks since `last'
    missed,     \* key -> frames missed in a row
    unbroken,   \* history: key -> no frame of its message in hand was missed or late
    delivered,  \* key -> the payloads given out as complete
    received    \* history: key -> the payloads that arrived unbroken

isoVars == <<sender, streams, age, missed, unbroken, delivered, received>>

NoStream == [total |-> 0, payload |-> <<>>, nextSeq |-> 0]
Part(m, i) == [msg |-> m, index |-> i]
Message(m, n) == [i \in 1..n |-> Part(m, i - 1)]

IsoTpInit ==
    /\ sender = [k \in Keys |-> [msg |-> 0, length |-> 0, next |-> 0]]
    /\ streams = [k \in Keys |-> NoStream]
    /\ age = [k \in Keys |-> 0]
    /\ missed = [k \in Keys |-> 0]
    /\ unbroken = [k \in Keys |-> FALSE]
    /\ delivered = [k \in Keys |-> <<>>]
    /\ received = [k \in Keys |-> <<>>]

(* The frames key k's sender may put on the bus next. *)
NextFrames(k) ==
    IF sender[k].next < sender[k].length
    THEN {[sender[k] EXCEPT !.next = @ + 1]}
    ELSE {[msg |-> sender[k].msg + 1, length |-> n, next |-> 1] :
             n \in IF sender[k].msg < MaxMessages THEN Lengths ELSE {}}

(* expire: streams that have waited too long are given up. *)
Expired(k) == age[k] > MaxGap
Kept == [k \in Keys |-> IF Expired(k) THEN NoStream ELSE streams[k]]

(* A frame of key k opens a message: a stream that is there is superseded. *)
Opening(k, f) ==
    IF f.length = 1
    THEN /\ streams' = [Kept EXCEPT ![k] = NoStream]
         /\ delivered' = [delivered EXCEPT ![k] = Append(@, Message(f.msg, 1))]
    ELSE /\ streams' = [Kept EXCEPT ![k] =
                IF f.length > MaxPayload THEN NoStream
                ELSE [total |-> f.length, payload |-> <<Part(f.msg, 0)>>, nextSeq |-> 1 % Modulus]]
         /\ UNCHANGED delivered

(* Slip: the number in the frame is not looked at. *)
MatchesAnyhow(s, f) == s # NoStream

Matches(s, f) == (f.next - 1) % Modulus = s.nextSeq

(* A consecutive frame continues the stream, completes it, or has not the
   number that is waited for and ends it. *)
Continuing(k, f) ==
    LET s == Kept[k]
        payload == Append(s.payload, Part(f.msg, f.next - 1))
        done == Matches(s, f) /\ Len(payload) >= s.total IN
    IF s = NoStream
    THEN streams' = Kept /\ UNCHANGED delivered
    ELSE /\ streams' = [Kept EXCEPT ![k] =
                IF done \/ ~Matches(s, f) THEN NoStream
                ELSE [s EXCEPT !.payload = payload, !.nextSeq = f.next % Modulus]]
         /\ delivered' = IF done THEN [delivered EXCEPT ![k] = Append(@, payload)] ELSE delivered

(* consume *)
Consume(k, f) ==
    LET on == f.next = 1 \/ (unbroken[k] /\ ~Expired(k)) IN
    /\ IF f.next = 1 THEN Opening(k, f) ELSE Continuing(k, f)
    /\ sender' = [sender EXCEPT ![k] = f]
    /\ missed' = [missed EXCEPT ![k] = 0]
    /\ age' = [j \in Keys |-> IF j = k \/ Kept[j] = NoStream THEN 0 ELSE age[j]]
    /\ unbroken' = [j \in Keys |-> IF j = k THEN on ELSE unbroken[j] /\ ~Expired(j)]
    /\ received' = IF on /\ f.next = f.length /\ (f.length = 1 \/ f.length <= MaxPayload)
                   THEN [received EXCEPT ![k] = Append(@, Message(f.msg, f.length))]
                   ELSE received

(* The frame was on the bus, and the listener did not get it. *)
Miss(k, f) ==
    /\ missed[k] < MaxBurst
    /\ sender' = [sender EXCEPT ![k] = f]
    /\ missed' = [missed EXCEPT ![k] = @ + 1]
    /\ unbroken' = [unbroken EXCEPT ![k] = FALSE]
    /\ UNCHANGED <<streams, age, delivered, received>>

(* Time passes; it is counted up to one tick past max_gap_ns. *)
IsoTpTick ==
    /\ age' = [k \in Keys |-> IF streams[k] = NoStream \/ Expired(k) THEN age[k] ELSE age[k] + 1]
    /\ age' # age
    /\ UNCHANGED <<sender, streams, missed, unbroken, delivered, received>>

IsoTpNext ==
    \/ \E k \in Keys : \E f \in NextFrames(k) : Consume(k, f) \/ Miss(k, f)
    \/ IsoTpTick

IsoTpSpec == IsoTpInit /\ [][IsoTpNext]_isoVars

-----------------------------------------------------------------------------
(* The messages given out as complete are the ones that arrived whole and in
   time, each once and in order: none is put together from two, none has a
   hole, none is dropped because another one's stream ended or expired. *)
AssembledAsReceived == delivered = received
=============================================================================
