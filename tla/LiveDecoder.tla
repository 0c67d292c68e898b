---------------------------- MODULE LiveDecoder ----------------------------
(***************************************************************************)
(* vision_shark/live_decoder.py: the last value of every signal the        *)
(* attached database knows, as a page that polls it sees them.  A frame of *)
(* a multiplexed message carries some of its signals only, may fail to     *)
(* decode, and may be the last one for a while.                            *)
(***************************************************************************)
LOCAL INSTANCE Integers
LOCAL INSTANCE FiniteSets

CONSTANTS
    Layouts,      \* message -> the sets of signals one of its frames may carry
    Capacity,     \* values kept, 512 in the code
    Freshness,    \* freshness_ms, in ticks
    MaxFed        \* bound on the frames fed

ASSUME DecoderAssumption == Capacity \in Nat /\ Freshness \in Nat /\ MaxFed \in Nat

VARIABLES
    values,     \* _values: [message, signal, frame, age, active, valid], ordered by `frame'
    fed,        \* frames that have been decoded
    newest      \* history: message -> the last frame of it that was decoded

decoderVars == <<values, fed, newest>>

DecoderInit == values = {} /\ fed = 0 /\ newest = [m \in DOMAIN Layouts |-> 0]

(* Slip: only the signals that are there again are brought up to date. *)
NobodyPassive(m) == values

(* Before the signals of a frame are stored, every signal of its message is
   taken for absent. *)
Passive(m) == {IF v.message = m THEN [v EXCEPT !.active = FALSE] ELSE v : v \in values}

(* popitem(last=False), as often as it takes: a value moves to the end when it
   is stored, so the oldest go.  Those of one frame go in any order. *)
MadeRoom(all) ==
    {kept \in SUBSET all :
        /\ Cardinality(kept) <= Capacity
        /\ kept = all \/ Cardinality(kept) = Capacity
        /\ \A v \in kept : \A w \in all \ kept : w.frame <= v.frame}

(* feed, for a frame of message m whose `signals' have been decoded; those in
   `valid' are finite and in their declared range. *)
Feed(m, signals, valid) ==
    LET others == {v \in Passive(m) : v.message # m \/ v.signal \notin signals}
        new == {[message |-> m, signal |-> s, frame |-> fed + 1, age |-> 0,
                 active |-> TRUE, valid |-> s \in valid] : s \in signals} IN
    /\ fed < MaxFed
    /\ fed' = fed + 1
    /\ values' \in MadeRoom(others \cup new)
    /\ newest' = [newest EXCEPT ![m] = fed + 1]

(* feed, for a frame that cannot be decoded: what was shown stays as it is. *)
DecodeFails(m) == m \in DOMAIN Layouts /\ UNCHANGED decoderVars

(* Time passes; ages are counted up to one tick past freshness_ms. *)
DecoderTick ==
    /\ \E v \in values : v.age <= Freshness
    /\ values' = {IF v.age > Freshness THEN v ELSE [v EXCEPT !.age = @ + 1] : v \in values}
    /\ UNCHANGED <<fed, newest>>

DecoderNext ==
    \/ \E m \in DOMAIN Layouts : \E signals \in Layouts[m] : \E valid \in SUBSET signals :
          Feed(m, signals, valid)
    \/ \E m \in DOMAIN Layouts : DecodeFails(m)
    \/ DecoderTick

DecoderSpec == DecoderInit /\ [][DecoderNext]_decoderVars

(* snapshot: whether a value is shown as stale while the runtime is running. *)
Stale(v) == v.age > Freshness \/ ~v.active \/ ~v.valid

-----------------------------------------------------------------------------
(* The values of one message that are not stale are of one frame, the last of
   it that was decoded, and no signal is there twice: a page never shows two
   states of one message side by side, however its signals are multiplexed and
   whatever was thrown out to make room. *)
FreshIsNewest ==
    \A v, w \in values :
        /\ ~Stale(v) => v.frame = newest[v.message]
        /\ v.message = w.message /\ v.signal = w.signal => v = w
=============================================================================
