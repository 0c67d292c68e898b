-------------------------- MODULE SharedMemoryRing --------------------------
(***************************************************************************)
(* vision_shark/dataplane.py: samples in a ring of slots of shared memory, *)
(* written by one process and read by others without a lock.  A slot is    *)
(* bytes: its payload and its header are copied word by word, in no        *)
(* particular order.  A word is known by the sequence number of the sample *)
(* it belongs to.                                                          *)
(***************************************************************************)
LOCAL INSTANCE Integers

CONSTANTS
    Slots,      \* slots
    Words,      \* the words of a payload
    MaxSeq      \* bound on the samples published

(* The words of the header: the sequence number, and everything else. *)
Rest == "timestamp, length and flags"
Header == {"sequence", Rest}

ASSUME RingAssumption == Slots \in Nat \ {0, 1} /\ MaxSeq \in Nat /\ Words \cap Header = {}

VARIABLES
    slots,      \* slot -> word -> the sample whose word is there, 0 for none
    writing,    \* publish: [seq, todo], todo = words still to be copied
    returned,   \* the last sequence number publish has returned
    reading     \* read: [seq, at, todo, copy], or Idle; history: early, that no
                \* publish had returned the number yet when the read began

ringVars == <<slots, writing, returned, reading>>

AllWords == Words \cup Header
Idle == [seq |-> 0, at |-> "idle", todo |-> {}, early |-> FALSE, copy |-> [w \in AllWords |-> 0]]
SlotOf(seq) == seq % Slots

RingInit ==
    /\ slots = [i \in 0..Slots - 1 |-> [w \in AllWords |-> 0]]
    /\ writing = [seq |-> 0, todo |-> {}]
    /\ returned = 0
    /\ reading = Idle

Publish ==
    /\ writing.todo = {} /\ returned = writing.seq
    /\ writing.seq < MaxSeq
    /\ writing' = [seq |-> writing.seq + 1, todo |-> AllWords]
    /\ UNCHANGED <<slots, returned, reading>>

(* The payload is assigned before the header. *)
NextWords(todo) == IF todo \cap Words # {} THEN todo \cap Words ELSE todo

WriteWord(w) ==
    /\ w \in NextWords(writing.todo)
    /\ slots' = [slots EXCEPT ![SlotOf(writing.seq)][w] = writing.seq]
    /\ writing' = [writing EXCEPT !.todo = @ \ {w}]
    /\ UNCHANGED <<returned, reading>>

PublishReturns ==
    /\ writing.todo = {} /\ returned # writing.seq
    /\ returned' = writing.seq
    /\ UNCHANGED <<slots, writing, reading>>

(* A reader asks for any positive number: one that a publish has returned, the
   one that is being written, or one that is still to come. *)
Read(seq) ==
    /\ reading.at = "idle"
    /\ reading' = [Idle EXCEPT !.seq = seq, !.at = "header", !.todo = Header,
                               !.early = seq > returned]
    /\ UNCHANGED <<slots, writing, returned>>

(* The header is copied, then the payload, then the sequence number again;
   at the end of the first and of the last it must be the one asked for. *)
Copied(w) == [reading EXCEPT !.todo = @ \ {w}, !.copy[w] = slots[SlotOf(reading.seq)][w]]

CopyWord(w) ==
    /\ w \in reading.todo
    /\ reading' = Copied(w)
    /\ UNCHANGED <<slots, writing, returned>>

HeaderCopied ==
    /\ reading.at = "header" /\ reading.todo = {}
    /\ reading' = IF reading.copy["sequence"] = reading.seq
                  THEN [reading EXCEPT !.at = "payload", !.todo = Words] ELSE Idle
    /\ UNCHANGED <<slots, writing, returned>>

(* Slip: the slot is not looked at a second time. *)
StillThereAnyway(seq) == TRUE

StillThere(seq) == slots[SlotOf(seq)]["sequence"] = seq

ReadAgain ==
    /\ reading.at = "payload" /\ reading.todo = {}
    /\ reading' = IF StillThere(reading.seq)
                  THEN [reading EXCEPT !.at = "accepted"] ELSE Idle
    /\ UNCHANGED <<slots, writing, returned>>

(* The caller has its sample; the next read may begin. *)
Accepted ==
    /\ reading.at = "accepted"
    /\ reading' = Idle
    /\ UNCHANGED <<slots, writing, returned>>

RingNext ==
    \/ Publish \/ PublishReturns \/ HeaderCopied \/ ReadAgain \/ Accepted
    \/ \E w \in AllWords : WriteWord(w) \/ CopyWord(w)
    \/ \E seq \in 1..MaxSeq : Read(seq)

RingSpec == RingInit /\ [][RingNext]_ringVars

-----------------------------------------------------------------------------
(* A sample that a read hands out is the sample that was published under its
   number, word for word, with two exceptions.  The writer is one lap ahead and
   had begun to overwrite the slot when the sequence number was looked at the
   second time: it leaves the old number standing until the payload is in.  Or
   the number was asked for before publish returned it: then the payload and the
   number are its own, but the rest of the header, with the length the payload
   is cut to, may be that of the sample before it in the slot. *)
AcceptedIsWhole ==
    [][reading.at # "accepted" /\ reading'.at = "accepted" =>
         LET foreign == {w \in AllWords : reading'.copy[w] # reading'.seq} IN
         \/ foreign = {}
         \/ foreign = {Rest} /\ reading.early
         \/ writing.seq = reading.seq + Slots /\ writing.todo # {}]_ringVars
=============================================================================
