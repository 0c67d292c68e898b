---------------------------- MODULE PartsProofs ----------------------------
(***************************************************************************)
(* Proofs about the vehicle's session and about the parts that share no    *)
(* state with another one.  Each is proved of its own specification, for   *)
(* any value of its constants.                                             *)
(***************************************************************************)
EXTENDS SharedMemoryRing, UpdateStager, FleetCatalog, DoipClient, IsoTpAssembler,
        LiveDecoder, BundleExchange, Orchestrator, Integers, Sequences, SequenceTheorems, TLAPS

-----------------------------------------------------------------------------
(***************************************************************************)
(* SharedMemoryRing, for any number of slots and samples and payloads of   *)
(* any size.                                                               *)
(*                                                                         *)
(* A word of a slot is that of the last sample for which the writer has    *)
(* come to it; so a reader copies the sample it asks for, once that is in, *)
(* until the writer is one lap ahead, and once the writer has passed the   *)
(* sequence number of the slot, the reader's second look at it shows that. *)
(* A reader that comes early sees the number only after the payload.       *)
(***************************************************************************)
Places == 0..Slots - 1

(* The last sample for which word w has been written. *)
Done(w) == IF w \in writing.todo THEN writing.seq - 1 ELSE writing.seq

RingTypeOK ==
    /\ slots \in [Places -> [AllWords -> Nat]]
    /\ writing \in [seq : Nat, todo : SUBSET AllWords]
    /\ returned \in Nat
    /\ reading \in [seq : Nat, at : {"idle", "header", "payload", "accepted"},
                    todo : SUBSET AllWords, early : BOOLEAN, copy : [AllWords -> Nat]]

(* publish returns when the sample is in, and the next one begins after that. *)
Returned ==
    /\ returned <= writing.seq /\ writing.seq <= returned + 1
    /\ returned = writing.seq => writing.todo = {}

(* The last Slots samples of a word are where they belong, and an earlier one
   has made room for a later one. *)
Written ==
    \A w \in AllWords : \A s \in Nat :
        /\ 0 < s /\ s <= Done(w) /\ Done(w) < s + Slots => slots[SlotOf(s)][w] = s
        /\ 0 < s /\ s + Slots <= Done(w) => slots[SlotOf(s)][w] > s

(* No word is that of a sample the writer has not come to, and the payload of a
   sample is in before its header. *)
PayloadFirst ==
    /\ \A place \in Places : \A w \in AllWords : slots[place][w] <= Done(w)
    /\ writing.todo \cap Words # {} => Header \subseteq writing.todo

(* The words a reader has copied. *)
HasCopied(w) ==
    \/ reading.at = "header" /\ w \in Header \ reading.todo
    \/ reading.at = "payload" /\ w \in AllWords \ reading.todo

Copying ==
    /\ reading.at \in {"header", "payload"} => 0 < reading.seq
    /\ reading.at \in {"header", "payload"} /\ ~reading.early => reading.seq <= returned
    /\ reading.at = "header" => reading.todo \subseteq Header
    /\ reading.at = "payload" => reading.todo \subseteq Words /\ reading.copy["sequence"] = reading.seq
    /\ HasCopied("sequence") /\ reading.copy["sequence"] = reading.seq => reading.seq <= Done("sequence")
    /\ writing.seq < reading.seq + Slots =>
          \A w \in AllWords : HasCopied(w) =>
              reading.copy[w] = reading.seq \/ (reading.early /\ w \in Header)

RingIInv == RingTypeOK /\ Returned /\ Written /\ PayloadFirst /\ Copying

-----------------------------------------------------------------------------
(* Every sample goes to one of the places. *)
LEMMA Slot == ASSUME NEW s \in Nat PROVE SlotOf(s) \in Places
BY RingAssumption DEF SlotOf, Places

(* What dividing a sequence number by the number of slots gives. *)
LEMMA Division ==
    ASSUME NEW s \in Nat
    PROVE  /\ s \div Slots \in Int /\ s % Slots \in Int
           /\ s = Slots * (s \div Slots) + (s % Slots)
           /\ 0 <= s % Slots /\ s % Slots < Slots
<1>1. Slots \in Nat /\ Slots > 0
  BY RingAssumption
<1> QED BY <1>1

(* Samples less than one lap apart are in different slots. *)
LEMMA Apart ==
    ASSUME NEW s \in Nat, NEW t \in Nat, s < t, t < s + Slots
    PROVE  SlotOf(s) # SlotOf(t)
<1> SUFFICES ASSUME s % Slots = t % Slots PROVE FALSE
  BY DEF SlotOf
<1> DEFINE k == (t \div Slots) - (s \div Slots)
<1>1. Slots \in Nat /\ Slots > 0
  BY RingAssumption
<1>2. k \in Int /\ t - s = Slots * k
  BY <1>1, Division
<1>3. k <= 0 => Slots * k <= 0
  BY <1>1, <1>2
<1>4. k >= 1 => Slots * k >= Slots
  BY <1>1, <1>2
<1> QED BY <1>1, <1>2, <1>3, <1>4

(* A sample one lap later is in the same slot. *)
LEMMA Lap == ASSUME NEW s \in Nat PROVE SlotOf(s + Slots) = SlotOf(s)
<1> DEFINE t == s + Slots
           k == (t \div Slots) - (s \div Slots)
           d == (t % Slots) - (s % Slots)
<1>1. Slots \in Nat /\ Slots > 0 /\ t \in Nat
  BY RingAssumption
<1>2. k \in Int /\ d \in Int /\ -Slots < d /\ d < Slots
  BY <1>1, Division
<1>3. Slots = Slots * k + d
  BY <1>1, Division
<1>4. k <= 0 => Slots * k <= 0
  BY <1>1, <1>2
<1>5. k >= 2 => Slots * k >= Slots + Slots
  BY <1>1, <1>2
<1>6. k = 1 => d = 0
  BY <1>1, <1>2, <1>3
<1>7. d = 0
  BY <1>1, <1>2, <1>3, <1>4, <1>5, <1>6
<1> QED BY <1>1, <1>7, Division DEF SlotOf

-----------------------------------------------------------------------------
(* An empty ring satisfies the invariant. *)
LEMMA RingInitKeeps == RingInit => RingIInv
<1> SUFFICES ASSUME RingInit PROVE RingIInv
  OBVIOUS
<1> USE DEF RingInit, Idle
<1>1. RingTypeOK
  BY DEF RingTypeOK, Places
<1>2. Returned /\ Copying
  BY DEF Returned, Copying, HasCopied
<1>3. Written /\ PayloadFirst
  BY RingAssumption DEF Written, PayloadFirst, Done, Places
<1> QED BY <1>1, <1>2, <1>3 DEF RingIInv

(* A sample that is in, in some word, is where it belongs until the writer is a
   lap ahead. *)
LEMMA StillIn ==
    ASSUME RingTypeOK, Written, NEW s \in Nat, NEW w \in AllWords,
           0 < s, s <= Done(w), writing.seq < s + Slots
    PROVE  slots[SlotOf(s)][w] = s
<1>1. Done(w) <= writing.seq /\ Done(w) \in Int /\ writing.seq \in Nat
  BY DEF RingTypeOK, Done
<1> QED BY <1>1, RingAssumption DEF Written

(* A sample that publish has returned is in, in every word, ... *)
LEMMA ReturnedIsIn ==
    ASSUME RingTypeOK, Returned, NEW s \in Nat, NEW w \in AllWords, s <= returned
    PROVE  s <= Done(w)
<1>1. s <= Done(w)
  <2> DEFINE last == writing.seq
  <2>1. last \in Nat /\ returned \in Nat
    BY DEF RingTypeOK
  <2>2. returned <= last /\ (w \in writing.todo => returned # last)
    BY DEF Returned
  <2>3. Done(w) = IF w \in writing.todo THEN last - 1 ELSE last
    BY DEF Done
  <2> HIDE DEF last
  <2>4. CASE w \in writing.todo
    <3>1. Done(w) = last - 1 /\ returned # last
      BY <2>2, <2>3, <2>4
    <3> QED BY <2>1, <2>2, <3>1
  <2>5. CASE w \notin writing.todo
    <3>1. Done(w) = last
      BY <2>3, <2>5
    <3> QED BY <2>1, <2>2, <3>1
  <2> QED BY <2>4, <2>5
<1> QED BY <1>1

(* ... and one whose sequence number is in is in with its whole payload. *)
LEMMA PayloadIsIn ==
    ASSUME RingTypeOK, PayloadFirst, NEW w \in Words
    PROVE  Done("sequence") <= Done(w)
<1>1. writing.seq \in Nat /\ "sequence" \in Header /\ w \in AllWords
  BY DEF RingTypeOK, Header, AllWords
<1>2. w \in writing.todo => "sequence" \in writing.todo
  BY <1>1 DEF PayloadFirst
<1> QED BY <1>1, <1>2 DEF Done

(* The writer: one word of the slot becomes that of the new sample, ... *)
LEMMA WriteKeeps == ASSUME RingIInv, NEW x \in AllWords, WriteWord(x) PROVE Written'
<1> DEFINE n == writing.seq
           here == SlotOf(n)
<1>1. n \in Nat /\ here \in Places /\ x \in writing.todo /\ x \in AllWords
  BY Slot DEF RingIInv, RingTypeOK, WriteWord, NextWords
<1>2. \A w \in AllWords : Done(w)' = IF w = x THEN n ELSE Done(w)
  BY DEF RingIInv, RingTypeOK, WriteWord, Done
<1>3. Done(x) = n - 1
  BY <1>1 DEF Done
<1>4. \A p \in Places : \A w \in AllWords :
        slots'[p][w] = IF p = here /\ w = x THEN n ELSE slots[p][w]
  BY <1>1 DEF RingIInv, RingTypeOK, WriteWord
<1> SUFFICES ASSUME NEW w \in AllWords, NEW s \in Nat, 0 < s
             PROVE  /\ s <= Done(w)' /\ Done(w)' < s + Slots => slots'[SlotOf(s)][w] = s
                    /\ s + Slots <= Done(w)' => slots'[SlotOf(s)][w] > s
  BY DEF Written, SlotOf
<1>5. CASE w # x
  <2>1. slots'[SlotOf(s)][w] = slots[SlotOf(s)][w] /\ Done(w)' = Done(w)
    BY <1>2, <1>4, <1>5, Slot
  <2> QED BY <2>1 DEF RingIInv, Written
<1>6. CASE w = x /\ s = n
  <2>1. slots'[SlotOf(s)][w] = s
    BY <1>4, <1>6, Slot
  <2> QED BY <1>2, <1>6, <2>1, RingAssumption
<1>7. CASE w = x /\ s < n /\ n < s + Slots
  <2>1. SlotOf(s) # here
    BY <1>1, <1>7, Apart
  <2>2. slots'[SlotOf(s)][w] = slots[SlotOf(s)][w]
    BY <1>4, <2>1, Slot
  <2>3. s <= Done(w) /\ Done(w) < s + Slots
    BY <1>1, <1>3, <1>7, RingAssumption
  <2> QED BY <1>1, <1>2, <1>7, <2>2, <2>3, RingAssumption DEF RingIInv, Written
<1>8. CASE w = x /\ s + Slots = n
  <2>1. slots'[SlotOf(s)][w] = n
    BY <1>4, <1>8, Lap, Slot
  <2> QED BY <1>1, <1>2, <1>8, <2>1, RingAssumption
<1>9. CASE w = x /\ s + Slots < n
  <2>1. s + Slots <= Done(w)
    BY <1>1, <1>3, <1>9, RingAssumption
  <2>2. slots[SlotOf(s)][w] > s
    BY <2>1 DEF RingIInv, Written
  <2> QED BY <1>1, <1>2, <1>4, <1>9, <2>2, Slot, RingAssumption
<1>10. CASE w = x /\ n < s
  BY <1>1, <1>2, <1>10, RingAssumption
<1> QED BY <1>1, <1>5, <1>6, <1>7, <1>8, <1>9, <1>10, RingAssumption

LEMMA WriteFollows == ASSUME RingIInv, NEW x \in AllWords, WriteWord(x) PROVE PayloadFirst' /\ Copying'
<1>1. /\ x \in writing.todo /\ writing'.seq = writing.seq /\ writing'.todo = writing.todo \ {x}
      /\ (writing.todo \cap Words # {} => x \in Words)
      /\ writing.seq \in Nat /\ reading' = reading /\ returned' = returned
  BY DEF RingIInv, RingTypeOK, WriteWord, NextWords
<1>2. \A w \in AllWords : Done(w)' = IF w = x THEN writing.seq ELSE Done(w)
  BY <1>1 DEF Done
<1>3. Done(x) = writing.seq - 1 /\ \A w \in AllWords : Done(w) \in Int
  BY <1>1 DEF Done
<1>4. \A p \in Places : \A w \in AllWords :
        slots'[p][w] = slots[p][w] \/ (w = x /\ slots'[p][w] = writing.seq)
  BY <1>1 DEF RingIInv, RingTypeOK, WriteWord
<1>5. \A p \in Places : \A w \in AllWords : slots[p][w] \in Nat /\ slots[p][w] <= Done(w)
  BY DEF RingIInv, RingTypeOK, PayloadFirst
<1>6. \A p \in Places : \A w \in AllWords : slots'[p][w] <= Done(w)'
  BY <1>1, <1>2, <1>3, <1>4, <1>5
<1>7. writing'.todo \cap Words # {} => Header \subseteq writing'.todo
  BY <1>1, RingAssumption DEF RingIInv, PayloadFirst
<1>8. Done("sequence") <= Done("sequence")'
  <2>1. "sequence" \in AllWords
    BY DEF AllWords, Header
  <2> QED BY <1>1, <1>2, <1>3, <2>1
<1>9. \A w \in AllWords : HasCopied(w)' <=> HasCopied(w)
  BY <1>1 DEF HasCopied
<1>10. reading.seq \in Nat /\ Done("sequence") \in Int /\ Done("sequence")' \in Int /\ "sequence" \in AllWords
  BY <1>1, <1>2, <1>3 DEF AllWords, Header, RingIInv, RingTypeOK
<1>11. reading.seq <= Done("sequence") => reading.seq <= Done("sequence")'
  BY <1>8, <1>10
<1> QED BY <1>1, <1>6, <1>7, <1>9, <1>10, <1>11 DEF RingIInv, PayloadFirst, Copying

(* ... and the reader: what it copies is the sample it asked for, as long as
   the writer is less than a lap ahead, but for the header of one that was not
   in yet. *)
LEMMA CopyKeeps == ASSUME RingIInv, NEW x \in AllWords, CopyWord(x) PROVE Copying'
<1>1. /\ reading'.at = reading.at /\ reading'.seq = reading.seq /\ reading'.early = reading.early
      /\ reading'.todo = reading.todo \ {x} /\ x \in reading.todo
      /\ \A w \in AllWords : reading'.copy[w] =
            IF w = x THEN slots[SlotOf(reading.seq)][x] ELSE reading.copy[w]
      /\ writing' = writing /\ returned' = returned
  BY DEF RingIInv, RingTypeOK, CopyWord, Copied
<1>2. \A w \in AllWords : HasCopied(w)' => w = x \/ HasCopied(w)
  BY <1>1 DEF HasCopied
<1>3. "sequence" \in AllWords /\ "sequence" \notin Words /\ reading.seq \in Nat
  BY RingAssumption DEF AllWords, Header, RingIInv, RingTypeOK
<1>4. \A w \in AllWords : Done(w)' = Done(w)
  BY <1>1 DEF Done
<1>5. HasCopied("sequence")' /\ reading'.copy["sequence"] = reading.seq => reading.seq <= Done("sequence")
  <2>1. slots[SlotOf(reading.seq)]["sequence"] <= Done("sequence")
    BY <1>3, Slot DEF RingIInv, PayloadFirst
  <2> QED BY <1>1, <1>2, <1>3, <2>1 DEF RingIInv, Copying
<1>6. reading.at = "payload" => reading'.todo \subseteq Words /\ reading'.copy["sequence"] = reading.seq
  BY <1>1, <1>3 DEF RingIInv, Copying
<1>7. ASSUME writing.seq < reading.seq + Slots, NEW w \in AllWords, HasCopied(w)'
      PROVE  reading'.copy[w] = reading.seq \/ (reading.early /\ w \in Header)
  <2>1. CASE w = x /\ ~(reading.early /\ w \in Header)
    <3>1. /\ 0 < reading.seq /\ reading.at \in {"header", "payload"}
          /\ ~reading.early => reading.seq <= returned
      BY <1>1, <1>7 DEF RingIInv, Copying, HasCopied
    <3>2. CASE ~reading.early
      <4>1. reading.seq <= Done(w)
        BY <1>3, <3>1, <3>2, ReturnedIsIn DEF RingIInv
      <4> QED BY <1>1, <1>3, <1>7, <2>1, <3>1, <4>1, StillIn DEF RingIInv
    <3>3. CASE reading.early
      <4>1. w \in Words /\ reading.at = "payload"
        BY <1>1, <2>1, <3>1, <3>3 DEF RingIInv, Copying, AllWords
      <4>2. HasCopied("sequence") /\ reading.copy["sequence"] = reading.seq
        BY <1>3, <4>1 DEF RingIInv, Copying, HasCopied
      <4>3. reading.seq <= Done("sequence") /\ Done("sequence") <= Done(w)
        BY <4>1, <4>2, PayloadIsIn DEF RingIInv, Copying
      <4>4. reading.seq <= Done(w)
        BY <1>3, <4>3 DEF RingIInv, RingTypeOK, Done
      <4> QED BY <1>1, <1>3, <1>7, <2>1, <3>1, <4>4, StillIn DEF RingIInv
    <3> QED BY <3>2, <3>3
  <2>2. CASE w # x
    BY <1>1, <1>2, <1>7, <2>2 DEF RingIInv, Copying
  <2> QED BY <2>1, <2>2
<1>8. /\ reading.at \in {"header", "payload"} => 0 < reading.seq
      /\ reading.at \in {"header", "payload"} /\ ~reading.early => reading.seq <= returned
      /\ reading.at = "header" => reading'.todo \subseteq Header
  BY <1>1 DEF RingIInv, Copying
<1> QED BY <1>1, <1>3, <1>4, <1>5, <1>6, <1>7, <1>8 DEF Copying

(* A reader that stands still has copied what it had, *)
LEMMA ReaderWaits ==
    ASSUME RingTypeOK, Copying, reading' = reading, returned' \in Nat, writing'.seq \in Nat,
           returned <= returned', writing.seq <= writing'.seq,
           \A w \in AllWords : Done(w)' = Done(w)
    PROVE  Copying'
<1>1. /\ \A w \in AllWords : HasCopied(w)' <=> HasCopied(w)
      /\ "sequence" \in AllWords
  BY DEF HasCopied, AllWords, Header
<1>2. /\ reading.seq \in Nat /\ returned \in Nat /\ writing.seq \in Nat
      /\ writing'.seq < reading.seq + Slots => writing.seq < reading.seq + Slots
      /\ reading.seq <= returned => reading.seq <= returned'
  BY RingAssumption DEF RingTypeOK
<1> QED BY <1>1, <1>2 DEF Copying

(* and one that is not reading nothing. *)
LEMMA ReaderIdles == ASSUME reading'.at \notin {"header", "payload"} PROVE Copying'
BY DEF Copying, HasCopied

(* Every step of writer and reader keeps it. *)
LEMMA RingStepKeeps == RingIInv /\ [RingNext]_ringVars => RingIInv'
<1> SUFFICES ASSUME RingIInv, [RingNext]_ringVars PROVE RingIInv'
  OBVIOUS
<1>1. CASE Publish
  <2>1. /\ writing' = [seq |-> writing.seq + 1, todo |-> AllWords] /\ writing.todo = {}
        /\ UNCHANGED <<slots, returned, reading>> /\ returned = writing.seq
    BY <1>1 DEF Publish
  <2>2. \A w \in AllWords : Done(w)' = Done(w)
    BY <2>1 DEF RingIInv, RingTypeOK, Done
  <2>3. RingTypeOK' /\ Returned'
    BY <2>1 DEF RingIInv, RingTypeOK, Returned
  <2>4. Written' /\ PayloadFirst'
    BY <2>1, <2>2 DEF RingIInv, Written, PayloadFirst, SlotOf, AllWords
  <2>5. Copying'
    <3>1. writing'.seq \in Nat /\ writing.seq <= writing'.seq /\ returned' \in Nat /\ returned <= returned'
      BY <2>1 DEF RingIInv, RingTypeOK
    <3> QED BY <2>1, <2>2, <3>1, ReaderWaits DEF RingIInv
  <2> QED BY <2>3, <2>4, <2>5 DEF RingIInv
<1>2. ASSUME NEW w \in AllWords, WriteWord(w) PROVE RingIInv'
  <2>1. RingTypeOK'
    BY <1>2, Slot DEF RingIInv, RingTypeOK, WriteWord
  <2>2. Returned'
    BY <1>2 DEF RingIInv, RingTypeOK, Returned, WriteWord, NextWords
  <2> QED BY <1>2, <2>1, <2>2, WriteKeeps, WriteFollows DEF RingIInv
<1>3. CASE PublishReturns
  <2>1. writing' = writing /\ slots' = slots /\ reading' = reading /\ returned' = writing.seq
    BY <1>3 DEF PublishReturns
  <2>2. RingTypeOK' /\ Returned'
    BY <1>3, <2>1 DEF RingIInv, RingTypeOK, Returned, PublishReturns
  <2>3. \A w \in AllWords : Done(w)' = Done(w)
    BY <2>1 DEF Done
  <2>4. Written' /\ PayloadFirst'
    BY <2>1, <2>3 DEF RingIInv, Written, PayloadFirst, SlotOf
  <2>5. Copying'
    <3>1. writing'.seq \in Nat /\ writing.seq <= writing'.seq /\ returned' \in Nat /\ returned <= returned'
      BY <2>1 DEF RingIInv, RingTypeOK, Returned
    <3> QED BY <2>1, <2>3, <3>1, ReaderWaits DEF RingIInv
  <2> QED BY <2>2, <2>4, <2>5 DEF RingIInv
<1>4. ASSUME slots' = slots, writing' = writing, returned' = returned,
             reading' \in [seq : Nat, at : {"idle", "header", "payload", "accepted"},
                           todo : SUBSET AllWords, early : BOOLEAN, copy : [AllWords -> Nat]],
             Copying'
      PROVE  RingIInv'
  <2>1. RingTypeOK' /\ Returned'
    BY <1>4 DEF RingIInv, RingTypeOK, Returned
  <2>2. Written' /\ PayloadFirst'
    BY <1>4 DEF RingIInv, Written, PayloadFirst, Done, SlotOf
  <2> QED BY <1>4, <2>1, <2>2 DEF RingIInv
<1>5. ASSUME NEW seq \in 1..MaxSeq, Read(seq) PROVE RingIInv'
  <2>1. reading' = [seq |-> seq, at |-> "header", todo |-> Header, early |-> seq > returned,
                    copy |-> [w \in AllWords |-> 0]]
    BY <1>5 DEF Read, Idle
  <2>2. seq \in Nat /\ 0 < seq /\ returned \in Nat /\ returned' = returned /\ seq \in 1..MaxSeq
    BY <1>5, RingAssumption DEF Read, RingIInv, RingTypeOK
  <2>3. \A w \in AllWords : ~HasCopied(w)'
    BY <2>1 DEF HasCopied
  <2>4. "sequence" \in AllWords
    BY DEF AllWords, Header
  <2>5. /\ reading'.at = "header" /\ reading'.seq = seq /\ reading'.todo = Header
        /\ ~reading'.early => seq <= returned
    <3>1. ~(seq > returned) => seq <= returned
      BY <2>2
    <3>2. reading'.early = (seq > returned)
      BY <2>1
    <3> QED BY <2>1, <3>1, <3>2
  <2>6. Copying'
    BY <2>2, <2>3, <2>4, <2>5 DEF Copying
  <2>7. UNCHANGED <<slots, writing, returned>> /\ Header \in SUBSET AllWords /\ (seq > returned) \in BOOLEAN
    BY <1>5 DEF Read, AllWords
  <2>8. reading' \in [seq : Nat, at : {"idle", "header", "payload", "accepted"},
                      todo : SUBSET AllWords, early : BOOLEAN, copy : [AllWords -> Nat]]
    BY <2>1, <2>2, <2>7
  <2> QED BY <1>4, <2>6, <2>7, <2>8
<1>6. ASSUME NEW w \in AllWords, CopyWord(w) PROVE RingIInv'
  <2>1. reading' = Copied(w) /\ slots[SlotOf(reading.seq)][w] \in Nat
    BY <1>6, Slot DEF CopyWord, RingIInv, RingTypeOK
  <2>2. reading' \in [seq : Nat, at : {"idle", "header", "payload", "accepted"},
                      todo : SUBSET AllWords, early : BOOLEAN, copy : [AllWords -> Nat]]
    BY <2>1 DEF Copied, RingIInv, RingTypeOK
  <2>3. Copying'
    BY <1>6, CopyKeeps
  <2> QED BY <1>4, <1>6, <2>2, <2>3 DEF CopyWord
<1>7. CASE HeaderCopied
  <2>1. UNCHANGED <<slots, writing, returned>>
    BY <1>7 DEF HeaderCopied
  <2>2. CASE reading' = Idle
    BY <1>4, <2>1, <2>2, ReaderIdles DEF Idle
  <2>3. CASE /\ reading.at = "header" /\ reading.todo = {} /\ reading.copy["sequence"] = reading.seq
             /\ reading' = [reading EXCEPT !.at = "payload", !.todo = Words]
    <3>1. /\ reading'.at = "payload" /\ reading'.todo = Words /\ reading'.seq = reading.seq
          /\ reading'.early = reading.early /\ reading'.copy = reading.copy
      BY <2>3 DEF RingIInv, RingTypeOK
    <3>2. \A w \in AllWords : HasCopied(w)' => HasCopied(w)
      BY <2>3, <3>1 DEF HasCopied, AllWords
    <3>3. HasCopied("sequence")
      BY <2>3 DEF HasCopied, Header
    <3>4. Done("sequence")' = Done("sequence")
      BY <2>1 DEF Done
    <3>5. Copying'
      BY <2>1, <2>3, <3>1, <3>2, <3>3, <3>4 DEF RingIInv, Copying
    <3>6. reading' \in [seq : Nat, at : {"idle", "header", "payload", "accepted"},
                        todo : SUBSET AllWords, early : BOOLEAN, copy : [AllWords -> Nat]]
      BY <2>3 DEF RingIInv, RingTypeOK, AllWords
    <3> QED BY <1>4, <2>1, <3>5, <3>6
  <2> QED BY <1>7, <2>2, <2>3 DEF HeaderCopied
<1>8. CASE ReadAgain \/ Accepted
  <2>1. \/ reading' = Idle
        \/ reading' = [reading EXCEPT !.at = "accepted"]
    BY <1>8 DEF ReadAgain, Accepted
  <2>2. Copying'
    BY <2>1, ReaderIdles DEF RingIInv, RingTypeOK, Idle
  <2>3. UNCHANGED <<slots, writing, returned>>
    BY <1>8 DEF ReadAgain, Accepted
  <2>4. reading' \in [seq : Nat, at : {"idle", "header", "payload", "accepted"},
                      todo : SUBSET AllWords, early : BOOLEAN, copy : [AllWords -> Nat]]
    <3>1. CASE reading' = Idle
      BY <3>1 DEF Idle
    <3>2. CASE reading' = [reading EXCEPT !.at = "accepted"]
      BY <3>2 DEF RingIInv, RingTypeOK
    <3> QED BY <2>1, <3>1, <3>2
  <2> QED BY <1>4, <2>2, <2>3, <2>4
<1>9. CASE UNCHANGED ringVars
  <2>1. slots' = slots /\ writing' = writing /\ returned' = returned /\ reading' = reading
    BY <1>9 DEF ringVars
  <2>2. Copying'
    BY <2>1, ReaderWaits DEF RingIInv, RingTypeOK, Done
  <2>3. reading' \in [seq : Nat, at : {"idle", "header", "payload", "accepted"},
                      todo : SUBSET AllWords, early : BOOLEAN, copy : [AllWords -> Nat]]
    BY <2>1 DEF RingIInv, RingTypeOK
  <2> QED BY <1>4, <2>1, <2>2, <2>3
<1> QED
  BY <1>1, <1>2, <1>3, <1>5, <1>6, <1>7, <1>8, <1>9 DEF RingNext

-----------------------------------------------------------------------------
(* However fast the writer laps the reader, wherever it stops inside a slot, and
   however early a number is asked for, a sample that is handed out is that which
   was published under its number, or the writer had begun to overwrite it when the
   reader looked at the sequence number for the second time, or the number had been
   asked for before it was there and all is its own but the rest of the header. *)
THEOREM AcceptedStaysWhole == RingSpec => AcceptedIsWhole
<1> DEFINE foreign == {w \in AllWords : reading'.copy[w] # reading'.seq}
           sound == \/ foreign = {}
                    \/ foreign = {Rest} /\ reading.early
                    \/ writing.seq = reading.seq + Slots /\ writing.todo # {}
<1>1. ASSUME RingIInv, [RingNext]_ringVars, reading.at # "accepted", reading'.at = "accepted"
      PROVE  sound
  <2>1. ReadAgain /\ StillThere(reading.seq) /\ reading' = [reading EXCEPT !.at = "accepted"]
    <3>1. ~UNCHANGED ringVars
      BY <1>1 DEF ringVars
    <3>2. ~(\E w \in AllWords : WriteWord(w) \/ CopyWord(w))
      BY <1>1 DEF RingIInv, RingTypeOK, WriteWord, CopyWord, Copied
    <3>3. ~(\E seq \in 1..MaxSeq : Read(seq))
      BY <1>1 DEF Read, Idle
    <3>4. ~HeaderCopied
      <4> DEFINE going == [reading EXCEPT !.at = "payload", !.todo = Words]
      <4>1. HeaderCopied => reading' = Idle \/ reading' = going
        BY DEF HeaderCopied
      <4>2. going.at = "payload" /\ Idle.at = "idle"
        BY <1>1 DEF RingIInv, RingTypeOK, Idle
      <4> QED BY <1>1, <4>1, <4>2
    <3>5. ~Publish /\ ~PublishReturns /\ ~Accepted
      BY <1>1 DEF Publish, PublishReturns, Accepted
    <3>6. ReadAgain
      BY <1>1, <3>1, <3>2, <3>3, <3>4, <3>5 DEF RingNext
    <3> QED BY <1>1, <3>6 DEF ReadAgain, Idle
  <2>2. /\ reading.seq \in Nat /\ 0 < reading.seq
        /\ reading'.seq = reading.seq /\ reading'.copy = reading.copy
        /\ \A w \in AllWords : HasCopied(w)
        /\ reading.copy["sequence"] = reading.seq
    BY <1>1, <2>1 DEF ReadAgain, RingIInv, RingTypeOK, Copying, HasCopied
  <2>3. CASE writing.seq < reading.seq + Slots
    <3>1. \A w \in foreign : reading.early /\ w \in Header /\ w # "sequence"
      BY <1>1, <2>2, <2>3 DEF RingIInv, Copying
    <3> QED BY <3>1 DEF Header
  <2>4. CASE writing.seq >= reading.seq + Slots
    <3>1. "sequence" \in AllWords /\ writing.seq \in Nat
      BY <1>1 DEF AllWords, Header, RingIInv, RingTypeOK
    <3>2. slots[SlotOf(reading.seq)]["sequence"] = reading.seq
      BY <2>1 DEF StillThere
    <3>3. ~(reading.seq + Slots <= Done("sequence"))
      BY <1>1, <2>2, <3>1, <3>2 DEF RingIInv, Written
    <3> QED BY <2>2, <2>4, <3>1, <3>3, RingAssumption DEF Done
  <2> QED BY <1>1, <2>2, <2>3, <2>4, RingAssumption DEF RingIInv, RingTypeOK
<1>2. RingIInv /\ [RingNext]_ringVars =>
        [reading.at # "accepted" /\ reading'.at = "accepted" => sound]_ringVars
  BY <1>1
<1> QED BY <1>2, RingInitKeeps, RingStepKeeps, PTL DEF RingSpec, AcceptedIsWhole

-----------------------------------------------------------------------------
(***************************************************************************)
(* UpdateStager, for any roles and any number of versions.                 *)
(*                                                                         *)
(* A state.json that has been emptied says nothing, so the invariant is    *)
(* about the state a stage has in hand as well as about the one recorded.  *)
(***************************************************************************)
(* State f names what was staged, or something newer, and has its artifacts. *)
Covers(f) ==
    /\ \A a \in staged : a.version <= f[a.role]
    /\ \A r \in Roles : f[r] > 0 => [role |-> r, version |-> f[r]] \in artifacts

StagerTypeOK ==
    /\ artifacts \subseteq Artifact /\ staged \subseteq Artifact
    /\ recorded \in [Roles -> Nat] /\ loaded \in [Roles -> Nat]
    /\ readable \in BOOLEAN
    /\ step \in {"idle", "place", "empty", "write"}
    /\ step # "idle" => staging \in Artifact

StagerIInv ==
    /\ StagerTypeOK
    /\ readable => Covers(recorded)
    /\ step # "idle" => Covers(loaded) /\ staging.version > loaded[staging.role]
    /\ step \in {"empty", "write"} => staging \in artifacts

(* Before anything is staged the invariant holds. *)
LEMMA StagerInitIsSound == StagerInit => StagerIInv
BY DEF StagerInit, StagerIInv, StagerTypeOK, Covers, Artifact

(* Every step of the stager keeps it, wherever it stops. *)
LEMMA StagerStepKeeps == StagerIInv /\ [StagerNext]_stagerVars => StagerIInv'
<1> SUFFICES ASSUME StagerIInv, [StagerNext]_stagerVars PROVE StagerIInv'
  OBVIOUS
<1> USE DEF StagerIInv, StagerTypeOK
<1>1. ASSUME NEW a \in Artifact, Stage(a) PROVE StagerIInv'
  BY <1>1 DEF Stage, Newer, Covers
<1>2. CASE PlaceArtifact
  BY <1>2 DEF PlaceArtifact, Covers
<1>3. CASE EmptyState
  BY <1>3 DEF EmptyState, Covers
(* What is recorded is what was loaded, with the newer version of one role,
   whose artifact was put in place before. *)
<1>4. CASE WriteState
  <2> DEFINE next == [loaded EXCEPT ![staging.role] = staging.version]
  <2>1. staging \in Artifact /\ staging.role \in Roles /\ staging.version \in Nat
    BY <1>4 DEF WriteState, Artifact
  <2>2. next \in [Roles -> Nat] /\ \A r \in Roles : next[r] >= loaded[r]
    BY <1>4, <2>1 DEF WriteState
  <2>3. \A a \in staged' : a.version <= next[a.role]
    <3> SUFFICES ASSUME NEW a \in staged' PROVE a.version <= next[a.role]
      OBVIOUS
    <3>1. CASE a = staging
      BY <2>1, <2>2, <3>1
    <3>2. CASE a \in staged
      <4>1. a.role \in Roles /\ a.version \in Nat
        BY <3>2 DEF Artifact
      <4>2. a.version <= loaded[a.role]
        BY <1>4, <3>2 DEF WriteState, Covers
      <4> QED BY <2>2, <4>1, <4>2
    <3> QED BY <1>4, <3>1, <3>2 DEF WriteState
  <2>4. \A r \in Roles : next[r] > 0 => [role |-> r, version |-> next[r]] \in artifacts
    <3> SUFFICES ASSUME NEW r \in Roles, next[r] > 0
                 PROVE  [role |-> r, version |-> next[r]] \in artifacts
      OBVIOUS
    <3>1. CASE r = staging.role
      <4>1. staging = [role |-> r, version |-> next[r]]
        BY <2>1, <3>1 DEF Artifact
      <4> QED BY <1>4, <4>1 DEF WriteState
    <3>2. CASE r # staging.role
      BY <1>4, <3>2 DEF WriteState, Covers
    <3> QED BY <3>1, <3>2
  <2> QED BY <1>4, <2>1, <2>2, <2>3, <2>4 DEF WriteState, Covers
<1>5. CASE Killed
  BY <1>5 DEF Killed, Covers
<1>6. CASE UNCHANGED stagerVars
  BY <1>6 DEF stagerVars, Covers
<1> QED
  BY <1>1, <1>2, <1>3, <1>4, <1>5, <1>6 DEF StagerNext

(* Wherever the process is killed, state.json, if it can be read, goes back
   behind nothing that was staged, and has the artifacts it names. *)
THEOREM StagedStaysRecorded == StagerSpec => []StagedIsRecorded
<1>1. StagerIInv => StagedIsRecorded
  BY DEF StagerIInv, Covers, StagedIsRecorded
<1> QED BY <1>1, StagerInitIsSound, StagerStepKeeps, PTL DEF StagerSpec

-----------------------------------------------------------------------------
(* FleetCatalog, for any number of exports, profiles and vehicles. *)
Exporting == [Exports -> [pc : {"idle", "reading", "published"}, profiles : SUBSET Profiles]]

(* All that the verification needs to know of the exports and the registry. *)
CatalogIInv ==
    /\ inRegistry \subseteq Profiles
    /\ exporter \in Exporting
    /\ PublishedIsAcceptable

(* Every step of the exports and of the registry keeps the invariant. *)
LEMMA CatalogStepKeeps == CatalogIInv /\ [CatalogNext]_catalogVars => CatalogIInv'
<1> SUFFICES ASSUME CatalogIInv, [CatalogNext]_catalogVars PROVE CatalogIInv'
  OBVIOUS
<1> DEFINE Verifying == \E x \in Exports : exporter[x].pc = "published"
<1> USE DEF CatalogIInv, Exporting
<1>0. Verifying \/ published = NoCatalog \/ PeerAccepts(published)
  BY DEF PublishedIsAcceptable
<1>1. ASSUME NEW p \in Profiles, InstallProfile(p) PROVE CatalogIInv'
  BY <1>0, <1>1 DEF InstallProfile, PublishedIsAcceptable, PeerAccepts
<1>2. ASSUME NEW p \in Profiles, NEW v \in Fleet, GiveVehicle(v, p) PROVE CatalogIInv'
  BY <1>0, <1>2 DEF GiveVehicle, PublishedIsAcceptable, PeerAccepts
<1>3. ASSUME NEW x \in Exports, ReadProfiles(x) PROVE CatalogIInv'
  <2>1. exporter' \in Exporting /\ inRegistry' \subseteq Profiles
    BY <1>3 DEF ReadProfiles
  <2>2. Verifying => Verifying'
    BY <1>3 DEF ReadProfiles
  <2>3. published' = published
    BY <1>3 DEF ReadProfiles
  <2> QED BY <1>0, <2>1, <2>2, <2>3 DEF PublishedIsAcceptable, PeerAccepts
<1>4. ASSUME NEW x \in Exports, PutInPlace(x) PROVE CatalogIInv'
  <2>1. exporter' \in Exporting /\ inRegistry' \subseteq Profiles
    BY <1>4 DEF PutInPlace
  <2>2. Verifying'
    BY <1>4 DEF PutInPlace
  <2> QED BY <2>1, <2>2 DEF PublishedIsAcceptable
<1>5. ASSUME NEW x \in Exports, ExportFails(x) PROVE CatalogIInv'
  <2>1. exporter' \in Exporting /\ inRegistry' \subseteq Profiles
    BY <1>5 DEF ExportFails, AtRest
  <2> QED BY <1>5, <2>1 DEF ExportFails, PublishedIsAcceptable
(* The last one to verify leaves a catalog that is accepted, or none. *)
<1>6. ASSUME NEW x \in Exports, Verify(x) PROVE CatalogIInv'
  <2>1. exporter' \in Exporting /\ inRegistry' \subseteq Profiles
    BY <1>6 DEF Verify, AtRest
  <2>2. published' = NoCatalog \/ (published' = published /\ PeerAccepts(published))
    BY <1>6 DEF Verify
  <2> QED BY <2>1, <2>2 DEF PublishedIsAcceptable, PeerAccepts
<1>7. CASE UNCHANGED catalogVars
  BY <1>0, <1>7 DEF catalogVars, PublishedIsAcceptable, PeerAccepts
<1> QED
  BY <1>1, <1>2, <1>3, <1>4, <1>5, <1>6, <1>7 DEF CatalogNext

(* However many exports publish to one path while profiles and vehicles are
   added, a catalog that nobody is still to verify is one that peers accept. *)
THEOREM PublishedStaysAcceptable == CatalogSpec => []PublishedIsAcceptable
<1>1. CatalogInit => CatalogIInv
  BY DEF CatalogInit, CatalogIInv, Exporting, AtRest, PublishedIsAcceptable
<1>2. CatalogIInv => PublishedIsAcceptable
  BY DEF CatalogIInv
<1> QED BY <1>1, <1>2, CatalogStepKeeps, PTL DEF CatalogSpec

-----------------------------------------------------------------------------
(***************************************************************************)
(* DoipClient, for any number of requests and packets.                     *)
(*                                                                         *)
(* Nothing tells the client which request an answer is for.  It is its own *)
(* as long as every earlier read of the connection has got its final       *)
(* answer: no other one is then owed or under way, and the final one comes *)
(* once and after those that call it pending.                              *)
(***************************************************************************)
Packets == [type : Unasked \cup Answers \cup {"routing activation"}, to : Nat]
AnswersUnderWay == {i \in 1..Len(stream) : stream[i].type \in Answers}

DoipTypeOK ==
    /\ calling \in {"none", "connect", "read", "prove"}
    /\ waiting \in {"none", "routing", "answer"}
    /\ stream \in Seq(Packets)
    /\ owed \in SUBSET Nat
    /\ sent \in Nat
    /\ clean \in BOOLEAN

(* Only a read goes over a connection that a read has failed on. *)
ConnectionOfItsOwn ==
    /\ calling = "none" => waiting = "none"
    /\ calling = "connect" => waiting = "routing"
    /\ calling = "prove" \/ waiting = "routing" => clean
    /\ waiting = "answer" => sent > 0

(* What may still come on a connection whose reads have all been answered. *)
NothingElsePending ==
    clean => IF waiting = "answer"
             THEN /\ owed \subseteq {0, sent}
                  /\ \A i \in AnswersUnderWay :
                        /\ stream[i].to = sent
                        /\ stream[i].type = "answer" =>
                              sent \notin owed /\ \A j \in AnswersUnderWay : j <= i
             ELSE owed \subseteq {0} /\ AnswersUnderWay = {}

DoipIInv == DoipTypeOK /\ ConnectionOfItsOwn /\ NothingElsePending

(* What a packet put at the end, or taken from the front, leaves. *)
LEMMA PacketComes ==
    ASSUME stream \in Seq(Packets), NEW packet \in Packets, stream' = Append(stream, packet)
    PROVE  /\ stream' \in Seq(Packets)
           /\ \A i \in AnswersUnderWay' :
                \/ i \in AnswersUnderWay /\ stream'[i] = stream[i] /\ i <= Len(stream)
                \/ packet.type \in Answers /\ i = Len(stream) + 1 /\ stream'[i] = packet
<1>1. /\ stream' \in Seq(Packets) /\ Len(stream') = Len(stream) + 1
      /\ \A i \in 1..Len(stream) : stream'[i] = stream[i]
      /\ stream'[Len(stream) + 1] = packet
  OBVIOUS
<1> QED BY <1>1 DEF AnswersUnderWay

(* Taking the first packet moves the others up by one place. *)
LEMMA PacketGoes ==
    ASSUME stream \in Seq(Packets), stream # <<>>, stream' = Tail(stream)
    PROVE  /\ stream' \in Seq(Packets)
           /\ \A i \in AnswersUnderWay' :
                i + 1 \in AnswersUnderWay /\ stream'[i] = stream[i + 1] /\ i \in Nat /\ i > 0
           /\ Head(stream).type \in Answers => 1 \in AnswersUnderWay
           /\ Head(stream) = stream[1]
<1>1. /\ stream' \in Seq(Packets) /\ Len(stream') = Len(stream) - 1
      /\ \A i \in 1..Len(stream) - 1 : stream'[i] = stream[i + 1]
      /\ Head(stream) = stream[1] /\ Len(stream) \in Nat /\ Len(stream) > 0
  OBVIOUS
<1> QED BY <1>1 DEF AnswersUnderWay

(* Only an answer to a request is of the type of one. *)
LEMMA PacketTypes ==
    /\ Activation \in Packets /\ Activation.type \notin Answers
    /\ \A n \in Nat : Answer(n) \in Packets /\ Answer(n).type = "answer" /\ Answer(n).to = n
    /\ \A n \in Nat : /\ Pending(n) \in Packets /\ Pending(n).to = n
                      /\ Pending(n).type \in Answers /\ Pending(n).type # "answer"
    /\ \A kind \in Unasked : Unsolicited(kind) \in Packets /\ Unsolicited(kind).type \notin Answers
BY DEF Activation, Answer, Pending, Answers, Unsolicited, Unasked, Packets

(* On a new connection, and on none, no answer is under way. *)
LEMMA EmptyConnection ==
    ASSUME Closed \/ (stream' = <<>> /\ owed' \in SUBSET {0})
    PROVE  stream' \in Seq(Packets) /\ owed' \in SUBSET Nat /\ owed' \subseteq {0} /\ AnswersUnderWay' = {}
<1>1. stream' = <<>> /\ owed' \in SUBSET {0}
  BY DEF Closed
<1>2. stream' \in Seq(Packets) /\ Len(stream') = 0
  BY <1>1
<1> QED BY <1>1, <1>2 DEF AnswersUnderWay

(* Every step of the client and of the gateway keeps the invariant. *)
LEMMA DoipKeeps == ASSUME DoipIInv, [DoipNext]_doipVars PROVE DoipIInv'
<1> USE DEF DoipIInv, DoipTypeOK, ConnectionOfItsOwn
<1>1. ASSUME NEW call \in {"connect", "read", "prove"}, Connect(call) PROVE DoipIInv'
  <2>1. owed' \in SUBSET {0} /\ stream' = <<>>
    BY <1>1 DEF Connect
  <2> QED BY <1>1, <2>1, EmptyConnection DEF Connect, NothingElsePending
<1>2. ASSUME ReadOpen PROVE DoipIInv'
  <2>1. AnswersUnderWay' = AnswersUnderWay
    BY <1>2 DEF ReadOpen, AnswersUnderWay
  <2> QED BY <1>2, <2>1 DEF ReadOpen, Send, NothingElsePending
<1>3. ASSUME Fail, UNCHANGED sent, ~(waiting = "routing" \/ calling = "prove") => stream' \in Seq(Packets)
      PROVE  DoipIInv'
  <2>1. CASE waiting = "routing" \/ calling = "prove"
    BY <1>3, <2>1, EmptyConnection DEF Fail, Return, Closed, NothingElsePending
  <2>2. CASE ~(waiting = "routing" \/ calling = "prove")
    BY <1>3, <2>2 DEF Fail, Return, NothingElsePending
  <2> QED BY <2>1, <2>2
<1>5. ASSUME PassOver PROVE DoipIInv'
  <2>1. stream # <<>> /\ stream' = Tail(stream) /\ UNCHANGED <<calling, waiting, owed, sent, clean>>
    BY <1>5 DEF PassOver, Arriving, Taken
  <2>2. /\ stream' \in Seq(Packets)
        /\ \A i \in AnswersUnderWay' : i + 1 \in AnswersUnderWay /\ stream'[i] = stream[i + 1] /\ i \in Nat
    BY <2>1, PacketGoes
  <2>3. CASE waiting = "answer"
    <3>1. ASSUME clean, NEW i \in AnswersUnderWay'
          PROVE  stream'[i].to = sent
      BY <2>2, <2>3, <3>1 DEF NothingElsePending
    <3>2. ASSUME clean, NEW i \in AnswersUnderWay', NEW j \in AnswersUnderWay', stream'[i].type = "answer"
          PROVE  sent \notin owed /\ j <= i
      <4>1. i + 1 \in AnswersUnderWay /\ j + 1 \in AnswersUnderWay /\ i \in Nat /\ j \in Nat
        BY <2>2
      <4>2. stream[i + 1].type = "answer"
        BY <2>2, <3>2
      <4>3. sent \notin owed /\ j + 1 <= i + 1
        BY <2>3, <3>2, <4>1, <4>2 DEF NothingElsePending
      <4> QED BY <4>1, <4>3
    <3>3. ASSUME clean, NEW i \in AnswersUnderWay', stream'[i].type = "answer" PROVE sent \notin owed
      BY <3>2, <3>3
    <3> QED BY <2>1, <2>2, <2>3, <3>1, <3>2, <3>3 DEF NothingElsePending
  <2>4. CASE waiting # "answer"
    BY <2>1, <2>2, <2>4 DEF NothingElsePending
  <2> QED BY <2>3, <2>4
<1>6. ASSUME RoutingActivated PROVE DoipIInv'
  <2>1. stream # <<>> /\ stream' = Tail(stream) /\ waiting = "routing" /\ UNCHANGED clean
    BY <1>6 DEF RoutingActivated, Arriving, Taken
  <2>2. AnswersUnderWay = {} /\ owed \subseteq {0} /\ clean
    BY <2>1 DEF NothingElsePending
  <2>3. AnswersUnderWay' = {} /\ stream' \in Seq(Packets)
    BY <2>1, <2>2, PacketGoes
  <2>4. CASE calling = "connect"
    <3>1. calling' = "none" /\ waiting' = "none" /\ UNCHANGED <<sent, owed, clean>>
      BY <1>6, <2>4 DEF RoutingActivated, Return
    <3> QED BY <2>2, <2>3, <3>1 DEF NothingElsePending
  <2>5. CASE calling # "connect"
    <3>1. /\ calling' = calling /\ waiting' = "answer" /\ UNCHANGED clean
          /\ sent' = sent + 1 /\ owed' = owed \cup {sent + 1}
      BY <1>6, <2>5 DEF RoutingActivated, Send
    <3>2. calling' # "connect" /\ calling' # "none"
      BY <2>1, <2>5, <3>1
    <3> QED BY <2>1, <2>2, <2>3, <3>1, <3>2 DEF NothingElsePending
  <2> QED BY <2>4, <2>5
<1>7. ASSUME AnswerTaken PROVE DoipIInv'
  <2>1. CASE calling = "prove"
    BY <1>7, <2>1, EmptyConnection DEF AnswerTaken, Return, Closed, NothingElsePending
  <2>2. CASE calling # "prove"
    <3>1. /\ waiting = "answer" /\ stream # <<>> /\ Head(stream).type \in Answers
          /\ stream' = Tail(stream) /\ calling' = "none" /\ waiting' = "none"
          /\ clean' = (clean /\ Head(stream).type = "answer")
          /\ UNCHANGED <<owed, sent>>
      BY <1>7, <2>2 DEF AnswerTaken, Arriving, Taken, Return
    <3>2. /\ stream' \in Seq(Packets) /\ 1 \in AnswersUnderWay /\ Head(stream) = stream[1]
          /\ \A i \in AnswersUnderWay' : i + 1 \in AnswersUnderWay /\ i \in Nat /\ i > 0
      BY <3>1, PacketGoes
    <3>3. ASSUME clean' PROVE owed \subseteq {0} /\ AnswersUnderWay' = {}
      <4>1. clean /\ stream[1].type = "answer"
        BY <3>1, <3>2, <3>3
      <4>2. sent \notin owed /\ \A j \in AnswersUnderWay : j <= 1
        BY <3>1, <3>2, <4>1 DEF NothingElsePending
      <4>3. owed \subseteq {0}
        BY <3>1, <4>1, <4>2 DEF NothingElsePending
      <4>4. ASSUME NEW i \in AnswersUnderWay' PROVE FALSE
        BY <3>2, <4>2
      <4> QED BY <4>3, <4>4
    <3> QED BY <3>1, <3>2, <3>3 DEF NothingElsePending
  <2> QED BY <2>1, <2>2
<1>8. ASSUME Refused PROVE DoipIInv'
  BY <1>3, <1>8, PacketGoes DEF Refused, Arriving, Taken
<1>9. ASSUME TimesOut PROVE DoipIInv'
  BY <1>3, <1>9 DEF TimesOut
<1>10. ASSUME Close PROVE DoipIInv'
  BY <1>10, EmptyConnection DEF Close, Closed, NothingElsePending
<1>11. ASSUME GatewayAnswers PROVE DoipIInv'
  <2>1. PICK n \in owed : /\ stream' = Append(stream, IF n = 0 THEN Activation ELSE Answer(n))
                          /\ owed' = owed \ {n}
    BY <1>11 DEF GatewayAnswers
  <2>2. UNCHANGED <<calling, waiting, sent, clean>> /\ n \in Nat
    BY <1>11 DEF GatewayAnswers
  <2>3. CASE n = 0
    <3>1. stream' = Append(stream, Activation) /\ Activation \in Packets /\ Activation.type \notin Answers
      BY <2>1, <2>3, PacketTypes
    <3>2. /\ stream' \in Seq(Packets)
          /\ \A i \in AnswersUnderWay' : i \in AnswersUnderWay /\ stream'[i] = stream[i]
      BY <3>1, PacketComes
    <3>3. CASE waiting = "answer"
      BY <2>1, <2>2, <3>2, <3>3 DEF NothingElsePending
    <3>4. CASE waiting # "answer"
      BY <2>1, <2>2, <3>2, <3>4 DEF NothingElsePending
    <3> QED BY <3>3, <3>4
  <2>4. CASE n # 0
    <3>1. clean => waiting = "answer" /\ n = sent
      BY <2>1, <2>2, <2>4 DEF NothingElsePending
    <3>2. Answer(n) \in Packets /\ Answer(n).type = "answer" /\ Answer(n).to = n
      BY <2>2, PacketTypes
    <3>3. /\ stream' \in Seq(Packets)
          /\ \A i \in AnswersUnderWay' :
                \/ i \in AnswersUnderWay /\ stream'[i] = stream[i] /\ i <= Len(stream)
                \/ i = Len(stream) + 1 /\ stream'[i] = Answer(n)
      BY <2>1, <2>4, <3>2, PacketComes
    <3>4. CASE clean
      <4>1. \A i \in AnswersUnderWay : stream[i].to = sent /\ stream[i].type # "answer"
        BY <2>1, <3>1, <3>4 DEF NothingElsePending
      <4>2. \A i \in AnswersUnderWay' : stream'[i].to = sent
        BY <3>1, <3>2, <3>3, <3>4, <4>1
      <4>3. \A i \in AnswersUnderWay' : stream'[i].type = "answer" => i = Len(stream) + 1
        BY <3>3, <4>1
      <4>4. \A i \in AnswersUnderWay' : i <= Len(stream) + 1
        <5>1. Len(stream) \in Nat /\ \A i \in AnswersUnderWay' : i \in Int
          BY DEF AnswersUnderWay
        <5> QED BY <3>3, <5>1
      <4>5. sent \notin owed' /\ owed' \subseteq {0, sent} /\ waiting' = "answer" /\ sent' = sent
        BY <2>1, <2>2, <3>1, <3>4 DEF NothingElsePending
      <4>6. NothingElsePending'
        BY <4>2, <4>3, <4>4, <4>5 DEF NothingElsePending
      <4> QED BY <2>1, <2>2, <3>3, <4>6
    <3>5. CASE ~clean
      BY <2>1, <2>2, <3>3, <3>5 DEF NothingElsePending
    <3> QED BY <3>4, <3>5
  <2> QED BY <2>3, <2>4
<1>14. ASSUME GatewayDefers PROVE DoipIInv'
  <2>1. PICK n \in owed \ {0} : stream' = Append(stream, Pending(n))
    BY <1>14 DEF GatewayDefers
  <2>2. UNCHANGED <<calling, waiting, owed, sent, clean>> /\ n \in Nat
    BY <1>14 DEF GatewayDefers
  <2>3. /\ stream' \in Seq(Packets)
        /\ \A i \in AnswersUnderWay' :
              \/ i \in AnswersUnderWay /\ stream'[i] = stream[i]
              \/ stream'[i] = Pending(n)
    BY <2>1, <2>2, PacketTypes, PacketComes
  <2>4. CASE clean
    <3>1. waiting = "answer" /\ n = sent /\ owed \subseteq {0, sent}
      BY <2>1, <2>2, <2>4 DEF NothingElsePending
    <3>2. \A i \in AnswersUnderWay : stream[i].to = sent /\ stream[i].type # "answer"
      BY <2>1, <2>4, <3>1 DEF NothingElsePending
    <3>3. \A i \in AnswersUnderWay' : stream'[i].to = sent /\ stream'[i].type # "answer"
      BY <2>2, <2>3, <3>1, <3>2, PacketTypes
    <3>4. NothingElsePending'
      BY <2>2, <3>1, <3>3 DEF NothingElsePending
    <3> QED BY <2>2, <2>3, <3>4
  <2>5. CASE ~clean
    BY <2>2, <2>3, <2>5 DEF NothingElsePending
  <2> QED BY <2>4, <2>5
<1>12. ASSUME GatewaySends PROVE DoipIInv'
  <2>1. PICK kind \in Unasked : stream' = Append(stream, Unsolicited(kind))
    BY <1>12 DEF GatewaySends
  <2>2. Unsolicited(kind) \in Packets /\ Unsolicited(kind).type \notin Answers
    BY PacketTypes
  <2>3. UNCHANGED <<calling, waiting, sent, clean, owed>>
    BY <1>12 DEF GatewaySends
  <2> QED BY <2>1, <2>2, <2>3, PacketComes DEF NothingElsePending
<1>13. CASE UNCHANGED doipVars
  BY <1>13 DEF doipVars, NothingElsePending, AnswersUnderWay
<1> QED
  BY <1>1, <1>2, <1>5, <1>6, <1>7, <1>8, <1>9, <1>10, <1>11, <1>12, <1>13, <1>14
     DEF DoipNext, ReadConnecting, Prove

(* The invariant holds in every state. *)
LEMMA DoipInvariance == DoipSpec => []DoipIInv
<1>1. DoipInit => DoipIInv
  BY DEF DoipInit, DoipIInv, DoipTypeOK, ConnectionOfItsOwn, NothingElsePending, AnswersUnderWay
<1> QED BY <1>1, DoipKeeps, PTL DEF DoipSpec

(* However late, often or out of order the gateway answers, and whatever it sends
   unasked, an answer that prove_readonly_session returns is to its own request, and
   so is one that read_uds returns unless an earlier read of the connection has
   raised or was handed a response that is pending. *)
THEOREM AnswersStayApart == DoipSpec => AnswersOwnRequest
<1>1. ASSUME DoipIInv, [DoipNext]_doipVars
      PROVE  [waiting = "answer" /\ waiting' = "none" /\ result' # Raised =>
                result'.answer = result'.request \/ (calling = "read" /\ ~clean)]_doipVars
  <2> SUFFICES ASSUME DoipNext, waiting = "answer", waiting' = "none", result' # Raised, calling # "read" \/ clean
               PROVE  result'.answer = result'.request
    BY <1>1
  <2>1. clean
    BY <1>1 DEF DoipIInv, DoipTypeOK, ConnectionOfItsOwn
  <2>2. AnswerTaken
    BY <1>1 DEF DoipNext, Connect, ReadConnecting, ReadOpen, Prove, Close, Closed, Send, PassOver,
            RoutingActivated, Refused, TimesOut, Fail, Return, GatewayAnswers, GatewayDefers, GatewaySends,
            DoipIInv, DoipTypeOK, ConnectionOfItsOwn
  <2>3. result' = [request |-> sent, answer |-> Head(stream).to] /\ Head(stream) = stream[1] /\ 1 \in AnswersUnderWay
    BY <1>1, <2>2 DEF AnswerTaken, Return, Arriving, AnswersUnderWay, DoipIInv, DoipTypeOK
  <2> QED BY <1>1, <2>1, <2>3 DEF DoipIInv, NothingElsePending
<1> QED BY <1>1, DoipInvariance, PTL DEF DoipSpec, AnswersOwnRequest

-----------------------------------------------------------------------------
(***************************************************************************)
(* IsoTpAssembler, for any keys, lengths and sequence numbers.             *)
(*                                                                         *)
(* A stream is in lockstep with its sender until a frame is missed; from   *)
(* then on the number it waits for is not the next frame's, whether the    *)
(* sender is still at the same message or at a later one.                  *)
(***************************************************************************)
Parts == [msg : Nat, index : Nat]

(* A sender that has put a message on the bus, in part or whole. *)
Sending(s) == s.length \in Lengths /\ s.next \in 1..s.length

IsoTypeOK ==
    /\ sender \in [Keys -> [msg : Nat, length : Nat, next : Nat]]
    /\ streams \in [Keys -> [total : Nat, payload : Seq(Parts), nextSeq : Nat]]
    /\ missed \in [Keys -> Nat]
    /\ unbroken \in [Keys -> BOOLEAN]

(* The stream of key k, and where its sender has come since. *)
Follows(k) ==
    LET s == sender[k]
        st == streams[k]
        j == Len(st.payload) IN
    /\ Sending(s) \/ (s.length = 0 /\ s.next = 0 /\ st = NoStream /\ ~unbroken[k])
    /\ missed[k] <= MaxBurst
    /\ unbroken[k] => /\ missed[k] = 0
                      /\ s.next < s.length => (s.length <= MaxPayload <=> st # NoStream)
    /\ st # NoStream =>
          /\ missed[k] = 0 => unbroken[k]
          /\ st.total \in Lengths /\ st.total <= MaxPayload
          /\ j > 0 /\ j < st.total /\ st.nextSeq = j % Modulus
          /\ \/ st.payload = Message(s.msg, j) /\ st.total = s.length /\ s.next = j + missed[k]
             \/ st.total - j + s.next <= missed[k]

IsoIInv == IsoTypeOK /\ (\A k \in Keys : Follows(k)) /\ delivered = received

(* Numbers that are less than Modulus apart are told apart. *)
LEMMA Remainder ==
    ASSUME NEW s \in Nat
    PROVE  /\ s \div Modulus \in Int /\ s % Modulus \in Nat
           /\ s = Modulus * (s \div Modulus) + (s % Modulus)
           /\ 0 <= s % Modulus /\ s % Modulus < Modulus
<1>1. Modulus \in Nat /\ Modulus > 0
  BY IsoTpAssumption
<1> QED BY <1>1

(* Less than Modulus frames apart, the numbers differ. *)
LEMMA NumbersDiffer ==
    ASSUME NEW s \in Nat, NEW d \in Nat, d > 0, d < Modulus
    PROVE  (s + d) % Modulus # s % Modulus
<1> DEFINE t == s + d
           k == (t \div Modulus) - (s \div Modulus)
<1> SUFFICES ASSUME t % Modulus = s % Modulus PROVE FALSE
  OBVIOUS
<1>1. Modulus \in Nat /\ Modulus > 0 /\ t \in Nat
  BY IsoTpAssumption
<1>2. k \in Int /\ d = Modulus * k
  BY <1>1, Remainder
<1>3. k <= 0 => Modulus * k <= 0
  BY <1>1, <1>2
<1>4. k >= 1 => Modulus * k >= Modulus
  BY <1>1, <1>2
<1> QED BY <1>1, <1>2, <1>3, <1>4

(* Equal numbers are a multiple of Modulus apart. *)
LEMMA NumbersAgree ==
    ASSUME NEW i \in Nat, NEW j \in Nat, i % Modulus = j % Modulus
    PROVE  (j - i) % Modulus = 0
<1> DEFINE k == (j \div Modulus) - (i \div Modulus)
<1>1. Modulus \in Nat /\ Modulus > 0
  BY IsoTpAssumption
<1>2. k \in Int /\ j - i = Modulus * k
  BY <1>1, Remainder
<1>3. \A m \in Int : (Modulus * m) % Modulus = 0
  BY <1>1
<1> QED BY <1>2, <1>3

(* What has been assembled of a message is extended by its next part. *)
LEMMA MessageGrows ==
    ASSUME NEW m \in Nat, NEW j \in Nat
    PROVE  /\ Message(m, j) \in Seq(Parts) /\ Len(Message(m, j)) = j
           /\ Part(m, j) \in Parts
           /\ Append(Message(m, j), Part(m, j)) = Message(m, j + 1)
           /\ <<Part(m, 0)>> = Message(m, 1)
<1>1. \A i \in Nat : Part(m, i) \in Parts
  BY DEF Part, Parts
<1>2. \A n \in Nat : Message(m, n) \in Seq(Parts) /\ Len(Message(m, n)) = n
                     /\ \A i \in 1..n : Message(m, n)[i] = Part(m, i - 1)
  BY <1>1 DEF Message
<1> HIDE DEF Message, Part
<1>3. Append(Message(m, j), Part(m, j)) = Message(m, j + 1)
  <2> DEFINE a == Append(Message(m, j), Part(m, j))
             b == Message(m, j + 1)
  <2>1. a \in Seq(Parts) /\ Len(a) = j + 1 /\ a[j + 1] = Part(m, j)
        /\ \A i \in 1..j : a[i] = Message(m, j)[i]
    BY <1>1, <1>2
  <2>2. b \in Seq(Parts) /\ Len(b) = j + 1 /\ \A i \in 1..j + 1 : b[i] = Part(m, i - 1)
    BY <1>2
  <2>3. \A i \in 1..j : a[i] = Part(m, i - 1)
    BY <1>2, <2>1
  <2> HIDE DEF a, b
  <2>4. ASSUME NEW i \in 1..j + 1 PROVE a[i] = b[i]
    <3>1. CASE i = j + 1
      BY <2>1, <2>2, <3>1
    <3>2. CASE i # j + 1
      <4>1. i \in 1..j
        BY <3>2
      <4> QED BY <2>2, <2>3, <4>1
    <3> QED BY <3>1, <3>2
  <2> QED BY <2>1, <2>2, <2>4, SeqEqual DEF a, b
<1>4. <<Part(m, 0)>> = Message(m, 1)
  <2> DEFINE a == <<Part(m, 0)>>
             b == Message(m, 1)
  <2>1. b \in Seq(Parts) /\ Len(b) = 1 /\ \A i \in 1..1 : b[i] = Part(m, i - 1)
    BY <1>2
  <2>2. b[1] = Part(m, 0)
    BY <2>1
  <2>3. a \in Seq(Parts) /\ Len(a) = 1 /\ a[1] = Part(m, 0)
    BY <1>1
  <2> HIDE DEF a, b
  <2>4. \A i \in 1..1 : a[i] = b[i]
    BY <2>2, <2>3
  <2> QED BY <2>1, <2>3, <2>4, SeqEqual DEF a, b
<1> QED BY <1>1, <1>2, <1>3, <1>4

(* The next frame goes on with the message, or begins one when it is whole. *)
LEMMA FrameComes ==
    ASSUME IsoIInv, NEW k \in Keys, NEW f \in NextFrames(k)
    PROVE  /\ f \in [msg : Nat, length : Nat, next : Nat] /\ Sending(f)
           /\ \/ /\ Sending(sender[k]) /\ f.next = sender[k].next + 1 /\ f.next > 1
                 /\ f.msg = sender[k].msg /\ f.length = sender[k].length /\ sender[k].next < sender[k].length
              \/ f.next = 1 /\ sender[k].next = sender[k].length
<1>1. /\ sender[k] \in [msg : Nat, length : Nat, next : Nat]
      /\ Sending(sender[k]) \/ (sender[k].length = 0 /\ sender[k].next = 0)
  BY DEF IsoIInv, IsoTypeOK, Follows
<1>2. CASE sender[k].next < sender[k].length
  <2>1. f = [sender[k] EXCEPT !.next = @ + 1] /\ Sending(sender[k])
    BY <1>1, <1>2 DEF NextFrames
  <2> QED BY <1>1, <1>2, <2>1 DEF Sending
<1>3. CASE ~(sender[k].next < sender[k].length)
  <2>1. PICK n \in Lengths : f = [msg |-> sender[k].msg + 1, length |-> n, next |-> 1]
    BY <1>3 DEF NextFrames
  <2>2. n \in Nat /\ n > 0
    BY IsoTpAssumption
  <2> QED BY <1>1, <1>3, <2>1, <2>2 DEF Sending
<1> QED BY <1>2, <1>3

(* A frame that has the number waited for is the next one of the same message. *)
LEMMA MatchesItsOwn ==
    ASSUME IsoIInv, NEW k \in Keys, NEW f \in NextFrames(k), f.next > 1,
           streams[k] # NoStream, Matches(streams[k], f)
    PROVE  /\ unbroken[k]
           /\ streams[k].payload = Message(f.msg, f.next - 1) /\ streams[k].total = f.length
<1> DEFINE s == sender[k]
           st == streams[k]
           j == Len(st.payload)
<1>1. /\ s \in [msg : Nat, length : Nat, next : Nat] /\ st \in [total : Nat, payload : Seq(Parts), nextSeq : Nat]
      /\ j \in Nat /\ missed[k] \in Nat /\ MaxBurst \in Nat /\ Modulus \in Nat /\ Modulus > 0 /\ MaxBurst < Modulus
  BY IsoTpAssumption DEF IsoIInv, IsoTypeOK
<1>2. /\ Sending(s) /\ f.next = s.next + 1 /\ f.msg = s.msg /\ f.length = s.length
  BY FrameComes
<1>3. /\ missed[k] <= MaxBurst /\ (missed[k] = 0 => unbroken[k])
      /\ st.total \in Lengths /\ st.total <= MaxPayload /\ j > 0 /\ j < st.total /\ st.nextSeq = j % Modulus
      /\ \/ st.payload = Message(s.msg, j) /\ st.total = s.length /\ s.next = j + missed[k]
         \/ st.total - j + s.next <= missed[k]
  BY DEF IsoIInv, Follows
<1>4. s.next % Modulus = j % Modulus
  <2>1. (f.next - 1) % Modulus = st.nextSeq
    BY DEF Matches
  <2>2. f.next - 1 = s.next
    BY <1>1, <1>2
  <2> HIDE DEF s, st, j
  <2> QED BY <1>3, <2>1, <2>2
<1> HIDE DEF s, st, j
<1>5. CASE st.payload = Message(s.msg, j) /\ st.total = s.length /\ s.next = j + missed[k]
  <2>1. ~(missed[k] > 0)
    <3> SUFFICES ASSUME missed[k] > 0 PROVE FALSE
      OBVIOUS
    <3>1. missed[k] < Modulus
      BY <1>1, <1>3
    <3>2. (j + missed[k]) % Modulus # j % Modulus
      BY <1>1, <3>1, NumbersDiffer
    <3> QED BY <1>4, <1>5, <3>2
  <2>2. missed[k] = 0 /\ s.next = j /\ f.next - 1 = j
    BY <1>1, <1>2, <1>5, <2>1
  <2> QED BY <1>2, <1>3, <1>5, <2>2 DEF st
<1>6. CASE st.total - j + s.next <= missed[k]
  <2> DEFINE lost == st.total - j + s.next
  <2>1. st.total \in Nat /\ s.next \in Nat /\ s.next > 0
    BY <1>1, <1>2 DEF Sending
  <2>2. lost \in 2..MaxBurst /\ st.total > 1 /\ st.total - lost = j - s.next
    <3> DEFINE total == st.total  next == s.next  some == missed[k]
    <3>1. total \in Nat /\ next \in Nat /\ j \in Nat /\ some \in Nat /\ MaxBurst \in Nat
      BY <1>1, <2>1
    <3>2. next > 0 /\ j > 0 /\ j < total /\ some <= MaxBurst /\ lost = total - j + next
      BY <1>3, <2>1
    <3>3. lost <= some
      BY <1>6
    <3> HIDE DEF total, next, some, lost
    <3>4. lost \in 2..MaxBurst /\ total > 1 /\ total - lost = j - next
      BY <3>1, <3>2, <3>3
    <3> QED BY <3>4 DEF total, next
  <2>3. (j - s.next) % Modulus = 0
    BY <1>1, <1>4, <2>1, NumbersAgree
  <2> HIDE DEF lost
  <2>4. (st.total - lost) % Modulus # 0
    BY <1>3, <2>2, IsoTpAssumption
  <2> QED BY <2>2, <2>3, <2>4
<1> QED BY <1>3, <1>5, <1>6

(* What a frame of key k does to the other keys. *)
LEMMA OthersFollow ==
    ASSUME IsoIInv, NEW k \in Keys, NEW f \in [msg : Nat, length : Nat, next : Nat],
           NEW st \in [total : Nat, payload : Seq(Parts), nextSeq : Nat], NEW on \in BOOLEAN,
           streams' = [Kept EXCEPT ![k] = st],
           sender' = [sender EXCEPT ![k] = f],
           missed' = [missed EXCEPT ![k] = 0],
           unbroken' = [j \in Keys |-> IF j = k THEN on ELSE unbroken[j] /\ ~Expired(j)]
    PROVE  /\ IsoTypeOK'
           /\ sender'[k] = f /\ streams'[k] = st /\ missed'[k] = 0 /\ unbroken'[k] = on
           /\ \A j \in Keys \ {k} : Follows(j)'
<1>1. NoStream \in [total : Nat, payload : Seq(Parts), nextSeq : Nat]
  BY DEF NoStream
<1> HIDE DEF NoStream
<1>2. Kept \in [Keys -> [total : Nat, payload : Seq(Parts), nextSeq : Nat]]
  BY <1>1 DEF Kept, IsoIInv, IsoTypeOK
<1>3. /\ IsoTypeOK' /\ sender'[k] = f /\ streams'[k] = st /\ missed'[k] = 0 /\ unbroken'[k] = on
  BY <1>2 DEF IsoIInv, IsoTypeOK
<1>4. ASSUME NEW j \in Keys \ {k} PROVE Follows(j)'
  <2>1. /\ sender'[j] = sender[j] /\ missed'[j] = missed[j] /\ unbroken'[j] = (unbroken[j] /\ ~Expired(j))
        /\ streams'[j] = IF Expired(j) THEN NoStream ELSE streams[j]
    BY <1>2 DEF IsoIInv, IsoTypeOK, Kept
  <2>2. Follows(j)
    BY DEF IsoIInv
  <2>3. CASE Expired(j)
    <3>1. streams'[j] = NoStream /\ ~unbroken'[j]
      BY <2>1, <2>3
    <3> QED BY <2>1, <2>2, <3>1 DEF Follows
  <2>4. CASE ~Expired(j)
    <3>1. streams'[j] = streams[j] /\ unbroken'[j] = unbroken[j]
      BY <2>1, <2>4 DEF IsoIInv, IsoTypeOK
    <3> QED BY <2>1, <2>2, <3>1 DEF Follows
  <2> QED BY <2>3, <2>4
<1> QED BY <1>3, <1>4

(* The frame that opens a message. *)
LEMMA OpeningKeeps ==
    ASSUME IsoIInv, NEW k \in Keys, NEW f \in NextFrames(k), f.next = 1, Consume(k, f)
    PROVE  IsoIInv'
<1> DEFINE st == IF f.length = 1 \/ f.length > MaxPayload THEN NoStream
                 ELSE [total |-> f.length, payload |-> <<Part(f.msg, 0)>>, nextSeq |-> 1 % Modulus]
<1>1. f \in [msg : Nat, length : Nat, next : Nat] /\ Sending(f) /\ 1 % Modulus \in Nat /\ MaxPayload \in Nat
  BY FrameComes, Remainder, IsoTpAssumption
<1>2. /\ streams' = [Kept EXCEPT ![k] = st]
      /\ sender' = [sender EXCEPT ![k] = f]
      /\ missed' = [missed EXCEPT ![k] = 0]
      /\ unbroken' = [j \in Keys |-> IF j = k THEN TRUE ELSE unbroken[j] /\ ~Expired(j)]
  BY DEF Consume, Opening
<1>3. delivered' = received'
  <2>1. CASE f.length = 1
    BY <2>1 DEF Consume, Opening, IsoIInv
  <2>2. CASE f.length # 1
    BY <1>1, <2>2 DEF Consume, Opening, IsoIInv
  <2> QED BY <2>1, <2>2
<1>4. CASE st = NoStream
  <2>1. NoStream \in [total : Nat, payload : Seq(Parts), nextSeq : Nat]
    BY DEF NoStream
  <2>2. f.next < f.length => ~(f.length <= MaxPayload)
    BY <1>1, <1>4 DEF NoStream, Sending
  <2> HIDE DEF st
  <2>3. /\ IsoTypeOK' /\ sender'[k] = f /\ streams'[k] = NoStream /\ missed'[k] = 0 /\ unbroken'[k]
        /\ \A j \in Keys \ {k} : Follows(j)'
    BY <1>1, <1>2, <1>4, <2>1, OthersFollow
  <2>4. Follows(k)'
    BY <1>1, <2>2, <2>3, IsoTpAssumption DEF Follows
  <2> QED BY <1>3, <2>3, <2>4 DEF IsoIInv
<1>5. CASE st # NoStream
  <2>1. /\ st = [total |-> f.length, payload |-> Message(f.msg, 1), nextSeq |-> 1 % Modulus]
        /\ f.length # 1 /\ f.length <= MaxPayload
    <3>1. ~(f.length = 1 \/ f.length > MaxPayload)
      BY <1>5
    <3>2. f.msg \in Nat /\ f.length \in Nat
      BY <1>1
    <3>3. <<Part(f.msg, 0)>> = Message(f.msg, 1)
      BY <3>2, MessageGrows
    <3> QED BY <1>1, <3>1, <3>2, <3>3
  <2> HIDE DEF st
  <2>2. Message(f.msg, 1) \in Seq(Parts) /\ Len(Message(f.msg, 1)) = 1
    BY <1>1, MessageGrows
  <2>3. st \in [total : Nat, payload : Seq(Parts), nextSeq : Nat]
    <3>1. f.length \in Nat
      BY <1>1
    <3> QED BY <1>1, <2>1, <2>2, <3>1
  <2>4. st.total = f.length /\ st.payload = Message(f.msg, 1) /\ st.nextSeq = 1 % Modulus
    BY <2>1
  <2>5. /\ IsoTypeOK' /\ sender'[k] = f /\ streams'[k] = st /\ missed'[k] = 0 /\ unbroken'[k]
        /\ \A j \in Keys \ {k} : Follows(j)'
    BY <1>2, <1>1, <2>3, OthersFollow
  <2>6. Follows(k)'
    <3>1. f.length \in Lengths /\ f.length > 1 /\ 1 = 1 + 0
      BY <1>1, <2>1 DEF Sending
    <3>2. Len(st.payload) = 1 /\ f.length \in Nat /\ f.next = 1 /\ 0 <= MaxBurst
      BY <1>1, <2>2, <2>4, IsoTpAssumption
    <3> DEFINE now == streams'[k]
    <3>3. now # NoStream /\ now.total = f.length /\ now.payload = Message(f.msg, 1)
          /\ now.nextSeq = 1 % Modulus /\ Len(now.payload) = 1
      BY <1>5, <2>4, <2>5, <3>2
    <3> HIDE DEF NoStream, now
    <3>4. /\ 1 > 0 /\ 1 < f.length /\ f.next = 1 + 0 /\ f.next < f.length
      BY <3>1, <3>2
    <3> QED BY <1>1, <2>1, <2>5, <3>1, <3>2, <3>3, <3>4 DEF Follows, now
  <2> QED BY <1>3, <2>5, <2>6 DEF IsoIInv
<1> QED BY <1>4, <1>5

(* The frame that goes on with a message. *)
LEMMA ContinuingKeeps ==
    ASSUME IsoIInv, NEW k \in Keys, NEW f \in NextFrames(k), f.next > 1, Consume(k, f)
    PROVE  IsoIInv'
<1> DEFINE s == streams[k]
           on == unbroken[k] /\ ~Expired(k)
           follows == Kept[k] # NoStream /\ Matches(Kept[k], f)
<1>1. /\ f \in [msg : Nat, length : Nat, next : Nat] /\ Sending(f) /\ Sending(sender[k])
      /\ f.next = sender[k].next + 1 /\ f.msg = sender[k].msg /\ f.length = sender[k].length
      /\ sender[k].next < sender[k].length
  BY FrameComes
<1>2. /\ s \in [total : Nat, payload : Seq(Parts), nextSeq : Nat] /\ on \in BOOLEAN /\ unbroken[k] \in BOOLEAN
      /\ Kept[k] = IF Expired(k) THEN NoStream ELSE s
      /\ NoStream \in [total : Nat, payload : Seq(Parts), nextSeq : Nat] /\ Modulus \in Nat /\ Modulus > 0
  BY IsoTpAssumption DEF IsoIInv, IsoTypeOK, Kept, NoStream
<1>3. /\ sender' = [sender EXCEPT ![k] = f]
      /\ missed' = [missed EXCEPT ![k] = 0]
      /\ unbroken' = [j \in Keys |-> IF j = k THEN on ELSE unbroken[j] /\ ~Expired(j)]
      /\ received' = IF on /\ f.next = f.length /\ f.length <= MaxPayload
                     THEN [received EXCEPT ![k] = Append(@, Message(f.msg, f.length))]
                     ELSE received
      /\ Continuing(k, f) /\ ~(f.next = 1)
  <2>1. ~(f.next = 1) /\ f.length # 1
    BY <1>1 DEF Sending
  <2> QED BY <2>1 DEF Consume
(* The frame follows exactly when nothing of the message has been missed. *)
<1>4. follows => on /\ s # NoStream /\ s.payload = Message(f.msg, f.next - 1) /\ s.total = f.length
  <2> SUFFICES ASSUME follows PROVE on /\ s # NoStream /\ s.payload = Message(f.msg, f.next - 1) /\ s.total = f.length
    OBVIOUS
  <2>1. ~Expired(k) /\ Kept[k] = s
    BY <1>2
  <2> QED BY <2>1, MatchesItsOwn
<1>5. on /\ f.length <= MaxPayload => follows
  <2> SUFFICES ASSUME unbroken[k], ~Expired(k), f.length <= MaxPayload PROVE follows
    OBVIOUS
  <2>1. Follows(k) /\ Kept[k] = s
    BY <1>2 DEF IsoIInv
  <2>2. s # NoStream /\ missed[k] = 0
    BY <1>1, <2>1 DEF Follows
  <2>3. /\ s.nextSeq = Len(s.payload) % Modulus /\ s.total \in Lengths /\ Len(s.payload) < s.total
        /\ \/ sender[k].next = Len(s.payload) + missed[k]
           \/ s.total - Len(s.payload) + sender[k].next <= missed[k]
    BY <2>1, <2>2 DEF Follows
  <2>4. Len(s.payload) \in Nat /\ s.total \in Nat /\ sender[k].next \in Nat
    BY <1>2 DEF IsoIInv, IsoTypeOK
  <2> HIDE DEF s
  <2>5. sender[k].next = Len(s.payload) /\ f.next - 1 = Len(s.payload)
    <3> DEFINE total == s.total  next == sender[k].next  j == Len(s.payload)
    <3>1. total \in Nat /\ next \in Nat /\ j \in Nat /\ j < total /\ (next = j + 0 \/ total - j + next <= 0)
      BY <2>2, <2>3, <2>4
    <3> HIDE DEF total, next, j
    <3>2. next = j
      BY <3>1
    <3>3. f.next = next + 1
      BY <1>1 DEF next
    <3>4. f.next - 1 = j
      BY <3>1, <3>2, <3>3
    <3> QED BY <3>2, <3>4 DEF next, j
  <2> QED BY <2>1, <2>2, <2>3, <2>5 DEF Matches
<1>6. on => (f.length <= MaxPayload <=> follows)
  <2>1. s # NoStream => s.total <= MaxPayload
    BY DEF IsoIInv, Follows
  <2> QED BY <1>4, <1>5, <2>1
<1>7. /\ Message(f.msg, f.next - 1) \in Seq(Parts) /\ Len(Message(f.msg, f.next - 1)) = f.next - 1
      /\ Append(Message(f.msg, f.next - 1), Part(f.msg, f.next - 1)) = Message(f.msg, f.next)
      /\ Message(f.msg, f.next) \in Seq(Parts) /\ Len(Message(f.msg, f.next)) = f.next
  <2>1. f.next - 1 \in Nat /\ f.msg \in Nat /\ f.next \in Nat /\ f.next - 1 + 1 = f.next
    BY <1>1
  <2> QED BY <2>1, MessageGrows
<1> HIDE DEF on
<1>10. /\ sender' = [sender EXCEPT ![k] = f] /\ missed' = [missed EXCEPT ![k] = 0]
       /\ unbroken' = [j \in Keys |-> IF j = k THEN on ELSE unbroken[j] /\ ~Expired(j)]
       /\ on \in BOOLEAN /\ f \in [msg : Nat, length : Nat, next : Nat]
  BY <1>1, <1>2, <1>3
<1>8. CASE ~follows
  <2>1. streams' = [Kept EXCEPT ![k] = NoStream] /\ UNCHANGED delivered
    <3>1. CASE Kept[k] = NoStream
      <4>1. Kept = [Kept EXCEPT ![k] = NoStream]
        BY <3>1 DEF Kept
      <4> QED BY <1>3, <3>1, <4>1 DEF Continuing
    <3>2. CASE ~Matches(Kept[k], f) /\ Kept[k] # NoStream
      BY <1>3, <3>2 DEF Continuing
    <3> QED BY <1>8, <3>1, <3>2
  <2>2. delivered' = received'
    BY <1>3, <1>6, <1>8, <2>1 DEF IsoIInv
  <2>3. /\ IsoTypeOK' /\ sender'[k] = f /\ streams'[k] = NoStream /\ missed'[k] = 0 /\ unbroken'[k] = on
        /\ \A j \in Keys \ {k} : Follows(j)'
    <3>1. NoStream \in [total : Nat, payload : Seq(Parts), nextSeq : Nat]
      BY <1>2
    <3> HIDE DEF NoStream
    <3> QED BY <1>10, <2>1, <3>1, OthersFollow
  <2>4. Follows(k)'
    <3>1. on => ~(f.length <= MaxPayload)
      BY <1>6, <1>8
    <3> HIDE DEF NoStream, follows, s
    <3>2. 0 <= MaxBurst
      BY IsoTpAssumption
    <3> QED BY <1>1, <2>3, <3>1, <3>2 DEF Follows
  <2> QED BY <2>2, <2>3, <2>4 DEF IsoIInv
<1>9. CASE follows
  <2>1. /\ Kept[k] = s /\ on /\ f.length <= MaxPayload /\ s # NoStream
        /\ s.payload = Message(f.msg, f.next - 1) /\ s.total = f.length
    BY <1>2, <1>4, <1>6, <1>9
  <2>2. Append(s.payload, Part(f.msg, f.next - 1)) = Message(f.msg, f.next)
    BY <1>7, <2>1
  <2>3. Len(Message(f.msg, f.next)) >= s.total <=> f.next = f.length
    BY <1>1, <1>7, <2>1 DEF Sending
  <2> DEFINE st == IF f.next = f.length THEN NoStream
                   ELSE [s EXCEPT !.payload = Message(f.msg, f.next), !.nextSeq = f.next % Modulus]
  <2>4. /\ streams' = [Kept EXCEPT ![k] = st]
        /\ delivered' = IF f.next = f.length THEN [delivered EXCEPT ![k] = Append(@, Message(f.msg, f.next))]
                        ELSE delivered
    BY <1>3, <1>9, <2>1, <2>2, <2>3 DEF Continuing
  <2>5. delivered' = received'
    BY <1>3, <2>1, <2>4 DEF IsoIInv
  <2>6. st \in [total : Nat, payload : Seq(Parts), nextSeq : Nat]
        /\ (f.next # f.length => /\ st.total = f.length /\ st.payload = Message(f.msg, f.next)
                                 /\ st.nextSeq = f.next % Modulus)
    <3>1. f.next % Modulus \in Nat
      BY <1>1, Remainder
    <3>2. CASE f.next = f.length
      BY <1>2, <3>2
    <3>3. CASE f.next # f.length
      <4> DEFINE w == [s EXCEPT !.payload = Message(f.msg, f.next), !.nextSeq = f.next % Modulus]
      <4>1. w \in [total : Nat, payload : Seq(Parts), nextSeq : Nat]
            /\ w.total = f.length /\ w.payload = Message(f.msg, f.next) /\ w.nextSeq = f.next % Modulus
        BY <1>2, <1>7, <2>1, <3>1
      <4>2. st = w
        BY <3>3
      <4> QED BY <3>3, <4>1, <4>2
    <3> QED BY <3>2, <3>3
  <2>7. f.next = f.length => st = NoStream
    OBVIOUS
  <2> HIDE DEF st
  <2>8. /\ IsoTypeOK' /\ sender'[k] = f /\ streams'[k] = st /\ missed'[k] = 0 /\ unbroken'[k] = on
        /\ \A j \in Keys \ {k} : Follows(j)'
    <3>1. st \in [total : Nat, payload : Seq(Parts), nextSeq : Nat] /\ streams' = [Kept EXCEPT ![k] = st]
      BY <2>4, <2>6
    <3>2. /\ f \in [msg : Nat, length : Nat, next : Nat] /\ on \in BOOLEAN
          /\ sender' = [sender EXCEPT ![k] = f] /\ missed' = [missed EXCEPT ![k] = 0]
          /\ unbroken' = [j \in Keys |-> IF j = k THEN on ELSE unbroken[j] /\ ~Expired(j)]
      BY <1>10
    <3> HIDE DEF on
    <3> QED BY <3>1, <3>2, OthersFollow, Zenon
  <2>9. Follows(k)'
    <3>1. CASE f.next = f.length
      <4> HIDE DEF NoStream
      <4>1. streams'[k] = NoStream /\ ~(f.next < f.length) /\ 0 <= MaxBurst
        BY <1>1, <2>7, <2>8, <3>1, IsoTpAssumption
      <4> QED BY <1>1, <2>8, <4>1 DEF Follows
    <3>2. CASE f.next # f.length
      <4> DEFINE now == streams'[k]
      <4>1. /\ now.total = f.length /\ now.payload = Message(f.msg, f.next) /\ now.nextSeq = f.next % Modulus
            /\ Len(now.payload) = f.next
        BY <1>7, <2>6, <2>8, <3>2
      <4>2. /\ f.length \in Lengths /\ f.next > 0 /\ f.next < f.length /\ f.next = f.next + 0
            /\ 0 <= MaxBurst
        BY <1>1, <3>2, IsoTpAssumption DEF Sending
      <4>3. now # NoStream
        BY <1>1, <4>1, <4>2 DEF NoStream
      <4> HIDE DEF NoStream, now
      <4> QED BY <1>1, <2>1, <2>8, <4>1, <4>2, <4>3 DEF Follows, now
    <3> QED BY <3>1, <3>2
  <2> QED BY <2>5, <2>8, <2>9 DEF IsoIInv
<1> QED BY <1>8, <1>9

(* A frame the listener misses. *)
LEMMA MissKeeps ==
    ASSUME IsoIInv, NEW k \in Keys, NEW f \in NextFrames(k), Miss(k, f)
    PROVE  IsoIInv'
<1>1. /\ f \in [msg : Nat, length : Nat, next : Nat] /\ Sending(f)
      /\ \/ /\ f.next = sender[k].next + 1 /\ f.msg = sender[k].msg /\ f.length = sender[k].length
         \/ f.next = 1 /\ sender[k].next = sender[k].length
  BY FrameComes
<1>2. /\ IsoTypeOK' /\ delivered' = received' /\ missed[k] + 1 <= MaxBurst
      /\ sender'[k] = f /\ streams' = streams /\ missed'[k] = missed[k] + 1 /\ ~unbroken'[k]
      /\ \A j \in Keys \ {k} : sender'[j] = sender[j] /\ missed'[j] = missed[j] /\ unbroken'[j] = unbroken[j]
  <2>1. /\ sender' = [sender EXCEPT ![k] = f] /\ missed' = [missed EXCEPT ![k] = @ + 1]
        /\ unbroken' = [unbroken EXCEPT ![k] = FALSE] /\ streams' = streams
        /\ delivered' = delivered /\ received' = received /\ missed[k] < MaxBurst
    BY DEF Miss
  <2>2. IsoTypeOK /\ delivered = received
    BY DEF IsoIInv
  <2>3. sender' \in [Keys -> [msg : Nat, length : Nat, next : Nat]] /\ sender'[k] = f
        /\ \A j \in Keys \ {k} : sender'[j] = sender[j]
    BY <1>1, <2>1, <2>2 DEF IsoTypeOK
  <2>4. missed' \in [Keys -> Nat] /\ missed'[k] = missed[k] + 1
        /\ \A j \in Keys \ {k} : missed'[j] = missed[j]
    BY <2>1, <2>2 DEF IsoTypeOK
  <2>5. unbroken' \in [Keys -> BOOLEAN] /\ ~unbroken'[k]
        /\ \A j \in Keys \ {k} : unbroken'[j] = unbroken[j]
    BY <2>1, <2>2 DEF IsoTypeOK
  <2>6. missed[k] + 1 <= MaxBurst
    BY <2>1, <2>2, IsoTpAssumption DEF IsoTypeOK
  <2>7. IsoTypeOK'
    BY <2>1, <2>2, <2>3, <2>4, <2>5 DEF IsoTypeOK
  <2> QED BY <2>1, <2>2, <2>3, <2>4, <2>5, <2>6, <2>7
<1>3. \A j \in Keys \ {k} : Follows(j)'
  <2>1. ASSUME NEW j \in Keys \ {k} PROVE Follows(j)'
    <3>1. Follows(j)
      BY DEF IsoIInv
    <3> QED BY <1>2, <3>1 DEF Follows
  <2> QED BY <2>1
<1>4. Follows(k)'
  <2> DEFINE s == sender[k]
             st == streams[k]
             j == Len(st.payload)
  <2>1. Follows(k) /\ j \in Nat /\ st.total \in Nat /\ s.next \in Nat /\ missed[k] \in Nat /\ s.length \in Nat
    BY DEF IsoIInv, IsoTypeOK
  <2>2. st # NoStream =>
          /\ st.total \in Lengths /\ st.total <= MaxPayload
          /\ j > 0 /\ j < st.total /\ st.nextSeq = j % Modulus
          /\ \/ st.payload = Message(s.msg, j) /\ st.total = s.length /\ s.next = j + missed[k]
             \/ st.total - j + s.next <= missed[k]
          /\ Sending(s)
    BY <2>1 DEF Follows
  <2>3. st # NoStream =>
          \/ st.payload = Message(f.msg, j) /\ st.total = f.length /\ f.next = j + (missed[k] + 1)
          \/ st.total - j + f.next <= missed[k] + 1
    <3> SUFFICES ASSUME st # NoStream
                 PROVE  \/ st.payload = Message(f.msg, j) /\ st.total = f.length /\ f.next = j + (missed[k] + 1)
                        \/ st.total - j + f.next <= missed[k] + 1
      OBVIOUS
    <3>1. s.next > 0
      BY <2>1, <2>2 DEF Sending
    <3> HIDE DEF s, st, j
    <3>2. CASE st.payload = Message(s.msg, j) /\ st.total = s.length /\ s.next = j + missed[k]
      <4>1. CASE f.next = s.next + 1 /\ f.msg = s.msg /\ f.length = s.length
        BY <2>1, <3>2, <4>1
      <4>2. CASE f.next = 1 /\ s.next = s.length
        BY <2>1, <3>2, <4>2
      <4> QED BY <1>1, <4>1, <4>2 DEF s
    <3>3. CASE st.total - j + s.next <= missed[k]
      <4>1. f.next <= s.next + 1 /\ f.next \in Nat
        BY <1>1, <2>1, <3>1 DEF s
      <4> QED BY <2>1, <3>3, <4>1
    <3> QED BY <2>2, <3>2, <3>3
  <2>4. missed[k] + 1 # 0
    BY <2>1
  <2> HIDE DEF NoStream
  <2> QED BY <1>1, <1>2, <2>2, <2>3, <2>4 DEF Follows
<1> QED BY <1>2, <1>3, <1>4 DEF IsoIInv

(* Every frame, heard or missed, and the passing of time keep the invariant. *)
LEMMA IsoKeeps == ASSUME IsoIInv, [IsoTpNext]_isoVars PROVE IsoIInv'
<1>1. ASSUME NEW k \in Keys, NEW f \in NextFrames(k), Consume(k, f) PROVE IsoIInv'
  <2>1. f.next = 1 \/ f.next > 1
    BY FrameComes
  <2> QED BY <1>1, <2>1, OpeningKeeps, ContinuingKeeps
<1>2. CASE IsoTpTick
  <2>1. UNCHANGED <<sender, streams, missed, unbroken, delivered, received>>
    BY <1>2 DEF IsoTpTick
  <2> QED BY <2>1 DEF IsoIInv, IsoTypeOK, Follows
<1>3. CASE UNCHANGED isoVars
  <2>1. UNCHANGED <<sender, streams, missed, unbroken, delivered, received>>
    BY <1>3 DEF isoVars
  <2> QED BY <2>1 DEF IsoIInv, IsoTypeOK, Follows
<1> QED BY <1>1, <1>2, <1>3, MissKeeps DEF IsoTpNext

(* Whatever frames are missed, in bursts the numbers can tell, consume gives out
   exactly the messages that arrived whole and in time, each once and in order. *)
THEOREM AssembledStaysReceived == IsoTpSpec => []AssembledAsReceived
<1>1. IsoTpInit => IsoIInv
  <2> SUFFICES ASSUME IsoTpInit PROVE IsoIInv
    OBVIOUS
  <2>1. NoStream \in [total : Nat, payload : Seq(Parts), nextSeq : Nat]
    BY DEF NoStream
  <2> HIDE DEF NoStream
  <2>2. IsoTypeOK
    BY <2>1 DEF IsoTpInit, IsoTypeOK
  <2>3. \A k \in Keys : Follows(k)
    <3>1. 0 <= MaxBurst
      BY IsoTpAssumption
    <3>2. ASSUME NEW k \in Keys PROVE Follows(k)
      <4>1. /\ sender[k] = [msg |-> 0, length |-> 0, next |-> 0] /\ streams[k] = NoStream
            /\ missed[k] = 0 /\ unbroken[k] = FALSE
        BY DEF IsoTpInit
      <4> QED BY <3>1, <4>1 DEF Follows
    <3> QED BY <3>2
  <2> QED BY <2>2, <2>3 DEF IsoTpInit, IsoIInv
<1>2. IsoIInv => AssembledAsReceived
  BY DEF IsoIInv, AssembledAsReceived
<1> QED BY <1>1, <1>2, IsoKeeps, PTL DEF IsoTpSpec

-----------------------------------------------------------------------------
(***************************************************************************)
(* LiveDecoder, for any database and any number of values kept.            *)
(*                                                                         *)
(* A value stays active only until the next frame of its message has been  *)
(* decoded, whether or not that frame carries its signal.                  *)
(***************************************************************************)
Signals == UNION UNION {Layouts[m] : m \in DOMAIN Layouts}
Value == [message : DOMAIN Layouts, signal : Signals, frame : Nat, age : Nat,
          active : BOOLEAN, valid : BOOLEAN]

OneToASignal(all) == \A v, w \in all : v.message = w.message /\ v.signal = w.signal => v = w

DecoderIInv ==
    /\ values \subseteq Value /\ fed \in Nat
    /\ newest \in [DOMAIN Layouts -> Nat]
    /\ OneToASignal(values)
    /\ \A v \in values : v.active => v.frame = newest[v.message]

(* The values of the message are absent now, and all else is as it was. *)
LEMMA PassiveStays ==
    ASSUME DecoderIInv, NEW m
    PROVE  /\ Passive(m) \subseteq Value /\ OneToASignal(Passive(m))
           /\ \A v \in Passive(m) : v.active => v.message # m /\ v.frame = newest[v.message]
<1> DEFINE absent(v) == IF v.message = m THEN [v EXCEPT !.active = FALSE] ELSE v
<1>1. \A v \in values : /\ absent(v) \in Value
                        /\ absent(v).message = v.message /\ absent(v).signal = v.signal
                        /\ absent(v).frame = v.frame
                        /\ absent(v).active => v.active /\ v.message # m
  BY DEF DecoderIInv, Value
<1>2. Passive(m) = {absent(v) : v \in values}
  BY DEF Passive
<1> HIDE DEF absent
<1>3. OneToASignal(Passive(m))
  BY <1>1, <1>2 DEF DecoderIInv, OneToASignal
<1>4. \A v \in Passive(m) : v.active => v.message # m /\ v.frame = newest[v.message]
  BY <1>1, <1>2 DEF DecoderIInv
<1> QED BY <1>1, <1>2, <1>3, <1>4

LEMMA FeedKeeps ==
    ASSUME DecoderIInv, NEW m \in DOMAIN Layouts, NEW signals \in Layouts[m], NEW valid,
           Feed(m, signals, valid)
    PROVE  DecoderIInv'
<1> DEFINE others == {v \in Passive(m) : v.message # m \/ v.signal \notin signals}
           new == {[message |-> m, signal |-> s, frame |-> fed + 1, age |-> 0,
                    active |-> TRUE, valid |-> s \in valid] : s \in signals}
<1>1. /\ fed' = fed + 1 /\ newest' = [newest EXCEPT ![m] = fed + 1]
      /\ values' \subseteq others \cup new
  BY DEF Feed, MadeRoom
<1> DEFINE fresh(s) == [message |-> m, signal |-> s, frame |-> fed + 1, age |-> 0,
                       active |-> TRUE, valid |-> s \in valid]
<1>2. \A s \in signals : /\ fresh(s) \in Value /\ fresh(s).message = m
                         /\ fresh(s).signal = s /\ fresh(s).frame = fed + 1
  <2> SUFFICES ASSUME NEW s \in signals PROVE fresh(s) \in Value
    OBVIOUS
  <2>1. s \in Signals /\ fed + 1 \in Nat
    BY DEF Signals, DecoderIInv
  <2>2. (s \in valid) \in BOOLEAN
    OBVIOUS
  <2> QED BY <2>1, <2>2, Zenon DEF Value
<1>3. new = {fresh(s) : s \in signals}
  OBVIOUS
<1> HIDE DEF new, fresh
<1>4. OneToASignal(new)
  BY <1>2, <1>3 DEF OneToASignal
<1>5. /\ others \subseteq Value /\ OneToASignal(others)
      /\ \A v \in others : v.message # m \/ v.signal \notin signals
      /\ \A v \in others : v.active => v.message # m /\ v.frame = newest[v.message]
  BY PassiveStays DEF OneToASignal
<1> HIDE DEF others
<1>6. fed' \in Nat /\ newest' \in [DOMAIN Layouts -> Nat]
  BY <1>1 DEF DecoderIInv
<1>7. values' \subseteq Value
  BY <1>1, <1>2, <1>3, <1>5
<1>8. OneToASignal(values')
  BY <1>1, <1>2, <1>3, <1>5, <1>4 DEF OneToASignal
<1>9. \A v \in others \cup new : v.active => v.frame = newest'[v.message]
  <2>1. newest'[m] = fed + 1 /\ \A n \in DOMAIN Layouts \ {m} : newest'[n] = newest[n]
    BY <1>1 DEF DecoderIInv
  <2>2. \A v \in others : v.message \in DOMAIN Layouts
    BY <1>5 DEF Value
  <2> QED BY <1>2, <1>3, <1>5, <2>1, <2>2
<1> QED BY <1>1, <1>6, <1>7, <1>8, <1>9 DEF DecoderIInv, OneToASignal

LEMMA DecoderKeeps == DecoderIInv /\ [DecoderNext]_decoderVars => DecoderIInv'
<1> SUFFICES ASSUME DecoderIInv, [DecoderNext]_decoderVars PROVE DecoderIInv'
  OBVIOUS
<1>1. ASSUME DecoderTick PROVE DecoderIInv'
  <2> DEFINE aged(v) == IF v.age > Freshness THEN v ELSE [v EXCEPT !.age = @ + 1]
  <2>1. \A v \in values : /\ aged(v) \in Value
                          /\ aged(v).message = v.message /\ aged(v).signal = v.signal
                          /\ aged(v).frame = v.frame /\ aged(v).active = v.active
    BY DecoderAssumption DEF DecoderIInv, Value
  <2>2. values' = {aged(v) : v \in values} /\ UNCHANGED <<fed, newest>>
    BY <1>1 DEF DecoderTick
  <2> HIDE DEF aged
  <2>3. OneToASignal(values')
    BY <2>1, <2>2 DEF DecoderIInv, OneToASignal
  <2> QED BY <2>1, <2>2, <2>3 DEF DecoderIInv, OneToASignal
<1>2. ASSUME UNCHANGED decoderVars PROVE DecoderIInv'
  BY <1>2 DEF decoderVars, DecoderIInv, OneToASignal
<1> QED BY <1>1, <1>2, FeedKeeps DEF DecoderNext, DecodeFails

(* Whatever frames are decoded or not, and whatever is thrown out for room, no two
   values that snapshot shows as fresh are of different frames of one message. *)
THEOREM FreshStaysNewest == DecoderSpec => []FreshIsNewest
<1>1. DecoderInit => DecoderIInv
  BY DEF DecoderInit, DecoderIInv, OneToASignal
<1>2. DecoderIInv => FreshIsNewest
  BY DEF DecoderIInv, FreshIsNewest, OneToASignal, Stale
<1> QED BY <1>1, <1>2, DecoderKeeps, PTL DEF DecoderSpec

-----------------------------------------------------------------------------
(***************************************************************************)
(* BundleExchange, for any creators, trust stores and orders.  Whoever     *)
(* packs a bundle anew may leave out, repeat or change members of it, but  *)
(* not make a signature: so every signature at the path is one that was    *)
(* made (IsArchive), and what an import goes by is what it verified as     *)
(* long as the path was not given another bundle (ReadIsSigned).           *)
(***************************************************************************)

(* An archive is a sequence of members, and every signature in it has been made. *)
IsMember(m, made) ==
    /\ m = [at |-> m.at, holds |-> m.holds]
    /\ m.at = SignatureAt => [pair |-> m.holds.pair, manifest |-> m.holds.of] \in made
IsArchive(archive, made) ==
    /\ archive \in Seq({archive[i] : i \in DOMAIN archive})
    /\ \A i \in DOMAIN archive : IsMember(archive[i], made)

(* What an import knows of the bundle it has read, unless it was swapped. *)
ImportingTypeOK ==
    /\ DOMAIN importing = {"pc", "manifest", "digest", "swapped"}
    /\ importing.pc \in {"idle", "read", "digested"} /\ importing.swapped \in BOOLEAN
ReadIsSigned ==
    importing.pc # "idle" =>
        /\ OwnerSigned(importing.manifest)
        /\ ~importing.swapped =>
              IsBundleOf(IF importing.pc = "read" THEN bundle ELSE importing.digest, importing.manifest)

ExchangeIInv == IsArchive(bundle, signed) /\ ImportingTypeOK /\ ReadIsSigned /\ InstalledIsSigned

(* A sequence of members is an archive. *)
LEMMA Archived ==
    ASSUME NEW made, NEW S, \A m \in S : IsMember(m, made), NEW archive \in Seq(S)
    PROVE  IsArchive(archive, made)
<1>1. archive \in Seq({archive[i] : i \in DOMAIN archive})
  OBVIOUS
<1>2. \A i \in DOMAIN archive : archive[i] \in S
  OBVIOUS
<1> QED BY <1>1, <1>2 DEF IsArchive

(* What has been signed stays signed. *)
LEMMA StaysSigned ==
    ASSUME NEW made, NEW more, made \subseteq more
    PROVE  /\ \A m : IsMember(m, made) => IsMember(m, more)
           /\ \A archive : IsArchive(archive, made) => IsArchive(archive, more)
<1>1. \A m : IsMember(m, made) => IsMember(m, more)
  BY DEF IsMember
<1> QED BY <1>1 DEF IsArchive

(* What Held finds at a place is the only member there. *)
LEMMA HeldIs ==
    ASSUME NEW archive, NEW i \in DOMAIN archive,
           \A j, k \in DOMAIN archive : archive[j].at = archive[k].at => j = k
    PROVE  Held(archive, archive[i].at) = archive[i].holds
<1>1. archive[i] \in Range(archive)
  BY DEF Range
<1>2. \A m \in Range(archive) : m.at = archive[i].at => m = archive[i]
  BY DEF Range
<1>3. (CHOOSE m \in Range(archive) : m.at = archive[i].at) = archive[i]
  BY <1>1, <1>2
<1> QED BY <1>3 DEF Held

(* A bundle that is created is an archive once its signature has been made. *)
LEMMA BuiltIsArchive ==
    ASSUME NEW o \in Orders, NEW made, [pair |-> o.pair, manifest |-> ManifestFor(o)] \in made
    PROVE  IsArchive(Built(o), made)
<1> DEFINE evidence == [i \in DOMAIN o.evidence |-> Member("evidence", o.evidence[i].name, o.evidence[i].file)]
           profile == Member("", "profile.json", o.profile)
           manifest == Member("", "manifest.json", ManifestFor(o))
           signature == Member("", "signature.ed25519", Signature(o))
           S == {evidence[i] : i \in DOMAIN o.evidence} \cup {profile, manifest, signature}
<1>1. \A i \in DOMAIN o.evidence : IsMember(evidence[i], made)
  BY DEF Member, IsMember, SignatureAt
<1>2. IsMember(profile, made) /\ IsMember(manifest, made)
  BY DEF Member, IsMember, SignatureAt
<1>3. IsMember(signature, made)
  BY DEF Member, IsMember, SignatureAt, Signature
<1>4. evidence \in Seq(S)
  <2>1. DOMAIN o.evidence = 1..Len(o.evidence) /\ Len(o.evidence) \in Nat
    BY OrdersAssumption
  <2>2. \A i \in DOMAIN o.evidence : evidence[i] \in S
    OBVIOUS
  <2>3. evidence = [i \in 1..Len(o.evidence) |-> evidence[i]]
    BY <2>1
  <2> HIDE DEF S, evidence
  <2>4. evidence \in [1..Len(o.evidence) -> S]
    BY <2>1, <2>2, <2>3
  <2> QED BY <2>1, <2>4
<1>5. \A m \in S : IsMember(m, made)
  BY <1>1, <1>2, <1>3
<1>6. Built(o) = <<manifest>> \o (<<profile>> \o evidence) \o <<signature>>
  BY DEF Built, Content
<1>7. <<manifest>> \in Seq(S) /\ <<profile>> \in Seq(S) /\ <<signature>> \in Seq(S)
  OBVIOUS
<1> HIDE DEF evidence, manifest, profile, signature, S
<1>8. Built(o) \in Seq(S)
  BY <1>4, <1>6, <1>7
<1> QED BY <1>5, <1>8, Archived

(* The signature is neither the manifest nor evidence. *)
LEMMA SignatureElsewhere ==
    /\ SignatureAt # ManifestAt
    /\ \A at : at.dir = "evidence" => at # SignatureAt /\ at # ManifestAt
<1>1. /\ SignatureAt.dir = "" /\ SignatureAt.name = "signature.ed25519"
      /\ ManifestAt.dir = "" /\ ManifestAt.name = "manifest.json"
  BY DEF SignatureAt, ManifestAt
<1> QED BY <1>1

LEMMA MemberHas ==
    ASSUME NEW made, NEW m, IsMember(m, made) PROVE DOMAIN m = {"at", "holds"}
<1> DEFINE copy == [at |-> m.at, holds |-> m.holds]
<1>1. m = copy
  BY DEF IsMember
<1>2. DOMAIN copy = {"at", "holds"}
  OBVIOUS
<1> HIDE DEF copy
<1> QED BY <1>1, <1>2

(* A member that is no signature may hold something else. *)
LEMMA StillMember ==
    ASSUME NEW made, NEW m, IsMember(m, made), m.at # SignatureAt,
           NEW p, p.at = m.at, DOMAIN p = DOMAIN m, p = [x \in DOMAIN p |-> p[x]]
    PROVE  IsMember(p, made)
<1>1. DOMAIN p = {"at", "holds"}
  BY MemberHas
<1>2. p = [at |-> p.at, holds |-> p.holds]
  BY <1>1
<1> QED BY <1>2 DEF IsMember

(* So is what is packed anew: nobody else can make a signature. *)
LEMMA PackedIsArchive ==
    ASSUME NEW made, NEW archive, IsArchive(archive, made), Len(archive) > 2,
           NEW packed \in PackedAnew(archive)
    PROVE  IsArchive(packed, made)
<1> DEFINE Members == {archive[i] : i \in DOMAIN archive}
           evidence == Member("evidence", "b", [bytes |-> 1, text |-> "x"])
           newer(m) == IF m.at = ManifestAt THEN [m EXCEPT !.holds.version = @ + 1] ELSE m
           other(m) == IF m.at.dir = "evidence" THEN [m EXCEPT !.holds.text = "x"] ELSE m
<1>1. archive \in Seq(Members) /\ \A m \in Members : IsMember(m, made)
  BY DEF IsArchive
<1>2. archive[2] \in Members /\ DOMAIN archive = 1..Len(archive) /\ Len(archive) \in Nat
  BY <1>1
<1>3. IsMember(evidence, made)
  BY DEF Member, IsMember, SignatureAt
<1>4. \A m \in Members : IsMember(newer(m), made)
  <2>1. SUFFICES ASSUME NEW m \in Members, m.at = ManifestAt
                 PROVE  IsMember([m EXCEPT !.holds.version = @ + 1], made)
    BY <1>1
  <2> DEFINE p == [m EXCEPT !.holds.version = @ + 1]
  <2>2. DOMAIN m = {"at", "holds"}
    BY <1>1, MemberHas
  <2>3. p.at = m.at /\ DOMAIN p = DOMAIN m /\ p = [x \in DOMAIN p |-> p[x]]
    BY <2>2
  <2> HIDE DEF p
  <2>4. IsMember(p, made)
    BY <1>1, <2>1, <2>3, SignatureElsewhere, StillMember
  <2> QED BY <2>4 DEF p
<1>5. \A m \in Members : IsMember(other(m), made)
  <2>1. SUFFICES ASSUME NEW m \in Members, m.at.dir = "evidence"
                 PROVE  IsMember([m EXCEPT !.holds.text = "x"], made)
    BY <1>1
  <2> DEFINE p == [m EXCEPT !.holds.text = "x"]
  <2>2. DOMAIN m = {"at", "holds"}
    BY <1>1, MemberHas
  <2>3. p.at = m.at /\ DOMAIN p = DOMAIN m /\ p = [x \in DOMAIN p |-> p[x]]
    BY <2>2
  <2> HIDE DEF p
  <2>4. IsMember(p, made)
    BY <1>1, <2>1, <2>3, SignatureElsewhere, StillMember
  <2> QED BY <2>4 DEF p
<1> HIDE DEF evidence
<1>6. CASE \E i \in DOMAIN archive : packed = RemoveAt(archive, i)
  <2>1. PICK i \in DOMAIN archive : packed = SubSeq(archive, 1, i - 1) \o SubSeq(archive, i + 1, Len(archive))
    BY <1>6 DEF RemoveAt
  <2> HIDE DEF Members
  <2>2. i \in 1..Len(archive)
    BY <1>2, <2>1
  <2>3. SubSeq(archive, 1, i - 1) \in Seq(Members) /\ SubSeq(archive, i + 1, Len(archive)) \in Seq(Members)
    BY <1>1, <1>2, <2>2
  <2>4. packed \in Seq(Members)
    BY <2>1, <2>3
  <2> QED BY <1>1, <2>4, Archived
<1>7. CASE packed = Append(archive, archive[2]) \/ packed = Append(archive, evidence)
  <2> DEFINE S == Members \cup {evidence}
  <2> HIDE DEF Members
  <2>1. packed \in Seq(S)
    BY <1>1, <1>2, <1>7
  <2>2. \A m \in S : IsMember(m, made)
    BY <1>1, <1>3
  <2> QED BY <2>1, <2>2, Archived
<1>8. CASE packed = [i \in DOMAIN archive |-> newer(archive[i])]
  <2> DEFINE S == {newer(m) : m \in Members}
  <2>1. \A i \in 1..Len(archive) : newer(archive[i]) \in S
    BY <1>2
  <2>2. \A m \in S : IsMember(m, made)
    BY <1>4
  <2> HIDE DEF S, newer
  <2>3. packed \in Seq(S)
    BY <1>2, <1>8, <2>1
  <2> QED BY <2>2, <2>3, Archived
<1>9. CASE packed = [i \in DOMAIN archive |-> other(archive[i])]
  <2> DEFINE S == {other(m) : m \in Members}
  <2>1. \A i \in 1..Len(archive) : other(archive[i]) \in S
    BY <1>2
  <2>2. \A m \in S : IsMember(m, made)
    BY <1>5
  <2> HIDE DEF S, other
  <2>3. packed \in Seq(S)
    BY <1>2, <1>9, <2>1
  <2> QED BY <2>2, <2>3, Archived
<1> QED BY <1>6, <1>7, <1>8, <1>9 DEF PackedAnew, evidence

(* What verification lets pass is the bundle of its manifest. *)
LEMMA VerifiedIsBundle ==
    ASSUME NEW made, NEW archive, IsArchive(archive, made), NEW store \in Stores, Verifies(archive, store)
    PROVE  IsBundleOf(archive, ManifestOf(archive))
<1> DEFINE manifest == ManifestOf(archive)
           files == manifest.files
           listed == {[at |-> at, holds |-> files[at]] : at \in DOMAIN files}
           itself == [at |-> ManifestAt, holds |-> manifest]
           others == {m \in Range(archive) : m.at # SignatureAt}
<1>1. \A j, k \in DOMAIN archive : archive[j].at = archive[k].at => j = k
  BY DEF Verifies, WithinLimits
<1>2. \A m \in Range(archive) : m = [at |-> m.at, holds |-> Held(archive, m.at)]
  <2>1. ASSUME NEW i \in DOMAIN archive
        PROVE  archive[i] = [at |-> archive[i].at, holds |-> Held(archive, archive[i].at)]
    BY <1>1, HeldIs DEF IsArchive, IsMember
  <2> QED BY <2>1 DEF Range
<1>3. /\ {m.at : m \in Range(archive)} = DOMAIN files \cup {ManifestAt, SignatureAt}
      /\ \A at \in DOMAIN files : Held(archive, at) = files[at]
      /\ \A at \in DOMAIN files : at = ProfileAt \/ at.dir = "evidence"
  BY DEF Verifies, AsListed
<1>4. \A at \in DOMAIN files : at # SignatureAt
  <2>1. ProfileAt # SignatureAt
    <3>1. ProfileAt.name = "profile.json" /\ SignatureAt.name = "signature.ed25519"
      BY DEF ProfileAt, SignatureAt
    <3> QED BY <3>1
  <2> QED BY <1>3, <2>1, SignatureElsewhere
<1>5. Held(archive, ManifestAt) = manifest
  BY DEF ManifestOf
<1> HIDE DEF manifest, files
<1>6. others \subseteq listed \cup {itself}
  <2>1. SUFFICES ASSUME NEW m \in Range(archive), m.at # SignatureAt PROVE m \in listed \cup {itself}
    OBVIOUS
  <2>2. m = [at |-> m.at, holds |-> Held(archive, m.at)]
    BY <1>2
  <2>3. m.at \in DOMAIN files \/ m.at = ManifestAt
    BY <1>3, <2>1
  <2>4. CASE m.at \in DOMAIN files
    <3>1. m = [at |-> m.at, holds |-> files[m.at]]
      BY <1>3, <2>2, <2>4
    <3> QED BY <2>4, <3>1
  <2>5. CASE m.at = ManifestAt
    BY <1>5, <2>2, <2>5
  <2> QED BY <2>3, <2>4, <2>5
<1>7. listed \cup {itself} \subseteq others
  <2>1. ASSUME NEW at \in DOMAIN files \cup {ManifestAt}
        PROVE  [at |-> at, holds |-> Held(archive, at)] \in others
    <3>1. PICK m \in Range(archive) : m.at = at
      BY <1>3
    <3>2. m = [at |-> at, holds |-> Held(archive, at)]
      BY <1>2, <3>1
    <3> QED BY <1>4, <3>1, <3>2, SignatureElsewhere
  <2> QED BY <1>3, <1>5, <2>1
<1>8. others = listed \cup {itself}
  BY <1>6, <1>7
<1> QED BY <1>8 DEF IsBundleOf, manifest, files

(* Its manifest was signed by the publisher that the store trusts. *)
LEMMA VerifiedIsSigned ==
    ASSUME NEW archive, IsArchive(archive, signed), NEW store \in Stores, Verifies(archive, store)
    PROVE  OwnerSigned(ManifestOf(archive))
<1> DEFINE manifest == ManifestOf(archive)
<1>1. PICK i \in DOMAIN archive : archive[i].at = SignatureAt
  BY DEF Verifies, WithinLimits, Range
<1>2. archive[i].holds = [pair |-> store[manifest.key].pair, of |-> manifest]
  BY <1>1, HeldIs DEF Verifies, WithinLimits, SignedBy
<1>3. [pair |-> archive[i].holds.pair, manifest |-> archive[i].holds.of] \in signed
  BY <1>1 DEF IsArchive, IsMember
<1>4. Resolves(store, manifest)
  BY DEF Verifies, SignedBy
<1> HIDE DEF manifest
<1>5. archive[i].holds.pair = store[manifest.key].pair /\ archive[i].holds.of = manifest
  BY <1>2
<1> QED BY <1>3, <1>4, <1>5 DEF OwnerSigned, manifest

LEMMA ExchangeBegins == ExchangeInit => ExchangeIInv
<1>1. SUFFICES ASSUME ExchangeInit PROVE ExchangeIInv
  OBVIOUS
<1>2. IsArchive(bundle, signed)
  BY <1>1 DEF ExchangeInit, Absent, IsArchive
<1> QED BY <1>1, <1>2 DEF ExchangeInit, ExchangeIInv, ImportingTypeOK, ReadIsSigned, NotImporting, InstalledIsSigned

(* While nothing is installed and no signature withdrawn, what is put in the place
   of the bundle need only be an archive. *)
LEMMA ReplacedKeeps ==
    ASSUME ExchangeIInv, NEW archive, Replaced(archive), IsArchive(archive, signed'),
           signed \subseteq signed', UNCHANGED installed
    PROVE  ExchangeIInv'
<1>1. \A manifest : OwnerSigned(manifest) => OwnerSigned(manifest)'
  BY DEF OwnerSigned
<1>2. IsArchive(bundle, signed)'
  BY DEF Replaced
<1>3. InstalledIsSigned'
  BY <1>1 DEF ExchangeIInv, InstalledIsSigned
<1>4. /\ DOMAIN importing' = DOMAIN importing
      /\ importing'.swapped = (importing.swapped \/ importing.pc = "read")
      /\ importing'.pc = importing.pc /\ importing'.manifest = importing.manifest
      /\ importing'.digest = importing.digest
  BY DEF ExchangeIInv, ImportingTypeOK, Replaced
<1>5. ImportingTypeOK'
  BY <1>4 DEF ExchangeIInv, ImportingTypeOK
<1>6. ReadIsSigned'
  BY <1>1, <1>4, <1>5 DEF ExchangeIInv, ReadIsSigned, ImportingTypeOK
<1> QED BY <1>2, <1>3, <1>5, <1>6 DEF ExchangeIInv

LEMMA SameBundle ==
    ASSUME ExchangeIInv, UNCHANGED <<bundle, signed, importing, installed>> PROVE ExchangeIInv'
<1> QED BY DEF ExchangeIInv, ImportingTypeOK, ReadIsSigned, InstalledIsSigned, OwnerSigned

LEMMA CreateKeeps ==
    ASSUME ExchangeIInv, NEW c \in Creators, NEW o \in Orders, Create(c, o) PROVE ExchangeIInv'
<1>1. UNCHANGED installed
  BY DEF Create
<1>2. CASE Creatable(o)
  <2>1. Replaced(Built(o)) /\ signed' = signed \cup {[pair |-> o.pair, manifest |-> ManifestFor(o)]}
    BY <1>2 DEF Create
  <2>2. IsArchive(Built(o), signed')
    BY <2>1, BuiltIsArchive
  <2> QED BY <1>1, <2>1, <2>2, ReplacedKeeps
<1>3. CASE ~Creatable(o)
  <2>1. Replaced(Absent) /\ UNCHANGED signed
    BY <1>3 DEF Create
  <2>2. IsArchive(Absent, signed')
    BY DEF Absent, IsArchive
  <2> QED BY <1>1, <2>1, <2>2, ReplacedKeeps
<1> QED BY <1>2, <1>3

LEMMA CheckKeeps ==
    ASSUME ExchangeIInv, NEW c \in Creators, Check(c) PROVE ExchangeIInv'
<1>1. UNCHANGED <<signed, installed>>
  BY DEF Check
<1>2. CASE Verifies(bundle, creating[c].store)
  BY <1>1, <1>2, SameBundle DEF Check
<1>3. CASE ~Verifies(bundle, creating[c].store)
  <2>1. Replaced(Absent)
    BY <1>3 DEF Check
  <2>2. IsArchive(Absent, signed')
    BY DEF Absent, IsArchive
  <2> QED BY <1>1, <2>1, <2>2, ReplacedKeeps
<1> QED BY <1>2, <1>3

LEMMA PackAnewKeeps ==
    ASSUME ExchangeIInv, PackAnew PROVE ExchangeIInv'
<1>1. PICK archive \in PackedAnew(bundle) : Replaced(archive)
  BY DEF PackAnew
<1>2. Len(bundle) > 2 /\ UNCHANGED <<signed, installed>>
  BY DEF PackAnew
<1>3. IsArchive(archive, signed')
  BY <1>2, PackedIsArchive DEF ExchangeIInv
<1> QED BY <1>1, <1>2, <1>3, ReplacedKeeps

LEMMA ReadBundleKeeps ==
    ASSUME ExchangeIInv, NEW store \in Stores, ReadBundle(store) PROVE ExchangeIInv'
<1>1. UNCHANGED <<bundle, signed, installed>>
  BY DEF ReadBundle
<1>2. OwnerSigned(ManifestOf(bundle)) /\ IsBundleOf(bundle, ManifestOf(bundle))
  BY VerifiedIsSigned, VerifiedIsBundle DEF ReadBundle, ExchangeIInv
<1>3. /\ DOMAIN importing' = {"pc", "manifest", "digest", "swapped"}
      /\ importing'.pc = "read" /\ importing'.manifest = ManifestOf(bundle) /\ importing'.swapped = FALSE
  BY DEF ReadBundle
<1>4. ImportingTypeOK'
  BY <1>3 DEF ImportingTypeOK
<1>5. ReadIsSigned'
  BY <1>1, <1>2, <1>3 DEF ReadIsSigned, OwnerSigned
<1> QED BY <1>1, <1>4, <1>5 DEF ExchangeIInv, InstalledIsSigned, OwnerSigned

LEMMA TakeDigestKeeps ==
    ASSUME ExchangeIInv, TakeDigest PROVE ExchangeIInv'
<1>1. UNCHANGED <<bundle, signed, installed>>
  BY DEF TakeDigest
<1>2. CASE importing' = NotImporting
  BY <1>1, <1>2 DEF ExchangeIInv, InstalledIsSigned, OwnerSigned, NotImporting, ImportingTypeOK, ReadIsSigned
<1>3. CASE importing' = [importing EXCEPT !.pc = "digested", !.digest = bundle]
  <2>1. /\ DOMAIN importing' = DOMAIN importing
        /\ importing'.pc = "digested" /\ importing'.digest = bundle
        /\ importing'.manifest = importing.manifest /\ importing'.swapped = importing.swapped
    BY <1>3 DEF ExchangeIInv, ImportingTypeOK
  <2>2. ImportingTypeOK'
    BY <2>1 DEF ExchangeIInv, ImportingTypeOK
  <2>3. ReadIsSigned'
    BY <1>1, <2>1 DEF ExchangeIInv, ReadIsSigned, OwnerSigned, TakeDigest
  <2> QED BY <1>1, <2>2, <2>3 DEF ExchangeIInv, InstalledIsSigned, OwnerSigned
<1> QED BY <1>2, <1>3 DEF TakeDigest

LEMMA CopyAndInsertKeeps ==
    ASSUME ExchangeIInv, CopyAndInsert PROVE ExchangeIInv'
<1>1. importing.pc = "digested" /\ importing' = NotImporting /\ UNCHANGED <<bundle, signed>>
  BY DEF CopyAndInsert
<1>2. ASSUME NEW row \in installed', row \notin installed
      PROVE  row = [manifest |-> importing.manifest, file |-> importing.digest, swapped |-> importing.swapped]
  BY <1>2 DEF CopyAndInsert, BytesCopied
<1>3. OwnerSigned(importing.manifest)
      /\ (~importing.swapped => IsBundleOf(importing.digest, importing.manifest))
  BY <1>1 DEF ExchangeIInv, ReadIsSigned
<1>4. \A row \in installed' :
          OwnerSigned(row.manifest) /\ (~row.swapped => IsBundleOf(row.file, row.manifest))
  <2>1. SUFFICES ASSUME NEW row \in installed'
                 PROVE  OwnerSigned(row.manifest) /\ (~row.swapped => IsBundleOf(row.file, row.manifest))
    OBVIOUS
  <2>2. CASE row \in installed
    BY <2>2 DEF ExchangeIInv, InstalledIsSigned
  <2>3. CASE row \notin installed
    BY <1>2, <1>3, <2>3
  <2> QED BY <2>2, <2>3
<1>5. InstalledIsSigned'
  BY <1>1, <1>4 DEF InstalledIsSigned, OwnerSigned
<1> QED BY <1>1, <1>5 DEF ExchangeIInv, NotImporting, ImportingTypeOK, ReadIsSigned

LEMMA ExchangeKeeps == ExchangeIInv /\ [ExchangeNext]_exchangeVars => ExchangeIInv'
<1>1. ASSUME ExchangeIInv, UNCHANGED exchangeVars PROVE ExchangeIInv'
  BY <1>1, SameBundle DEF exchangeVars
<1> QED BY <1>1, CreateKeeps, CheckKeeps, PackAnewKeeps, ReadBundleKeeps, TakeDigestKeeps, CopyAndInsertKeeps
        DEF ExchangeNext

(* Whatever is created, packed anew and imported at one path, a registry holds what
   the owner of a trusted key has signed, and all of it. *)
THEOREM InstalledStaysSigned == ExchangeSpec => []InstalledIsSigned
<1>1. ExchangeIInv => InstalledIsSigned
  BY DEF ExchangeIInv
<1> QED BY <1>1, ExchangeBegins, ExchangeKeeps, PTL DEF ExchangeSpec

-----------------------------------------------------------------------------
(***************************************************************************)
(* Orchestrator, for any number of workflows and endpoints.                *)
(*                                                                         *)
(* A workflow that awaits holds the lock, so what it finds when it comes   *)
(* back is what it left, but for the runtime, which others may change.     *)
(***************************************************************************)
(* What a workflow has left behind while it awaits. *)
Awaiting(t) ==
    /\ task[t] # "idle" => lock = t
    /\ task[t] = "discovery" => session.source = None /\ ~session.diagnosticsRead
    /\ task[t] = "proof" =>
          session.source = "doip" /\ session.state = "initialising" /\ ~session.diagnosticsRead
    /\ task[t] = "frames" => session.source # "doip"

SessionIInv ==
    /\ ProofsAreOwn
    /\ \A t \in Tasks : Awaiting(t)
    /\ session.source = "doip" /\ session.state = "ready" => session.diagnosticsRead

-----------------------------------------------------------------------------
LEMMA SessionBegins == Init => SessionIInv
BY OrchestratorAssumption
   DEF Init, SessionIInv, ProofsAreOwn, TypeOK, DiagnosticsAreBound, ReadyOnOwnExchange,
       EndpointFollowsSession, VehicleReady, HealthSource, ProvenOver, Awaiting, NewSession, Stopped,
       States, Session, Proof

(* The fields of the session a step leaves. *)
LEMMA Fields ==
    ASSUME NEW state \in States
    PROVE  /\ NewSession(state) \in Session
           /\ NewSession(state).source = None /\ NewSession(state).state = state
           /\ ~NewSession(state).diagnosticsRead
           /\ \A source \in {"simulator", "socketcan", "doip"} :
                LET s == [NewSession(state) EXCEPT !.source = source] IN
                s \in Session /\ s.source = source /\ s.state = state /\ ~s.diagnosticsRead
BY DEF NewSession, Session

(* A workflow that begins and ends in one step, or begins to await. *)
LEMMA EnterKeeps ==
    ASSUME SessionIInv, lock = None, session' \in Session, endpoint' \in Endpoints \cup {None},
           proof' \in Proof \cup {None},
           runtime' \in [running : BOOLEAN, kind : SourceKinds \cup {None}, frames : BOOLEAN],
           \/ UNCHANGED <<lock, task>>
           \/ \E t \in Tasks, what \in {"discovery", "proof", "frames"} :
                 /\ Await(t, what)
                 /\ what = "discovery" => session'.source = None
                 /\ what = "proof" => session'.source = "doip" /\ session'.state = "initialising"
                 /\ what = "frames" => session'.source # "doip",
           ~session'.diagnosticsRead, session'.source = "doip" => session'.state # "ready",
           endpoint' # None <=> session'.source = "doip"
    PROVE  SessionIInv'
<1>1. \A t \in Tasks : task[t] = "idle"
  BY OrchestratorAssumption DEF SessionIInv, Awaiting
<1>2. lock' \in Tasks \cup {None} /\ task' \in [Tasks -> {"idle", "discovery", "proof", "frames"}]
  BY DEF SessionIInv, ProofsAreOwn, TypeOK, Await
<1>3. \A t \in Tasks : Awaiting(t)'
  <2>1. CASE UNCHANGED <<lock, task>>
    BY <1>1, <2>1 DEF Awaiting
  <2>2. CASE ~UNCHANGED <<lock, task>>
    BY <1>1, <2>2 DEF Awaiting, Await, SessionIInv, ProofsAreOwn, TypeOK
  <2> QED BY <2>1, <2>2
<1>4. TypeOK'
  BY <1>2 DEF TypeOK
<1>5. DiagnosticsAreBound' /\ EndpointFollowsSession' /\ ReadyOnOwnExchange'
  BY DEF DiagnosticsAreBound, EndpointFollowsSession, ReadyOnOwnExchange, VehicleReady
<1> QED BY <1>3, <1>4, <1>5 DEF SessionIInv, ProofsAreOwn

(* A workflow that comes back gives the lock away; no other one awaits. *)
LEMMA ResumeKeeps ==
    ASSUME SessionIInv, NEW t \in Tasks, NEW what \in {"discovery", "proof", "frames"},
           ResumedFrom(t, what), session' \in Session, endpoint' = endpoint,
           proof' \in Proof \cup {None},
           runtime' \in [running : BOOLEAN, kind : SourceKinds \cup {None}, frames : BOOLEAN],
           session'.source = "doip" /\ session'.state = "ready" => session'.diagnosticsRead,
           endpoint # None <=> session'.source = "doip", DiagnosticsAreBound'
    PROVE  SessionIInv'
<1>1. lock' = None /\ task' \in [Tasks -> {"idle", "discovery", "proof", "frames"}]
      /\ \A u \in Tasks : task'[u] = IF u = t THEN "idle" ELSE task[u]
  BY DEF SessionIInv, ProofsAreOwn, TypeOK, ResumedFrom
<1>2. \A u \in Tasks : u # t => task[u] = "idle"
  BY DEF SessionIInv, Awaiting, ResumedFrom
<1>3. \A u \in Tasks : Awaiting(u)'
  BY <1>1, <1>2 DEF Awaiting
<1>4. TypeOK'
  BY <1>1 DEF SessionIInv, ProofsAreOwn, TypeOK
<1>5. EndpointFollowsSession' /\ ReadyOnOwnExchange'
  BY OrchestratorAssumption DEF DiagnosticsAreBound, EndpointFollowsSession, ReadyOnOwnExchange, VehicleReady,
         HealthSource, ProvenOver
<1> QED BY <1>3, <1>4, <1>5 DEF SessionIInv, ProofsAreOwn

-----------------------------------------------------------------------------
LEMMA RuntimeIsTyped ==
    /\ Stopped \in [running : BOOLEAN, kind : SourceKinds \cup {None}, frames : BOOLEAN]
    /\ \A kind \in SourceKinds :
          Connected(kind) \in [running : BOOLEAN, kind : SourceKinds \cup {None}, frames : BOOLEAN]
BY DEF Stopped, Connected

LEMMA ConnectKeeps ==
    ASSUME SessionIInv,
           \/ ConnectSimulation \/ Disconnect
           \/ \E t \in Tasks : ConnectPassive(t) \/ \E e \in Endpoints : ConnectDoip(t, e)
    PROVE  SessionIInv'
<1> USE OrchestratorAssumption
<1>0. /\ endpoint \in Endpoints \cup {None} /\ proof \in Proof \cup {None}
      /\ runtime \in [running : BOOLEAN, kind : SourceKinds \cup {None}, frames : BOOLEAN]
      /\ "ready" \in States /\ "offline" \in States /\ "discovering" \in States /\ "initialising" \in States
  BY DEF SessionIInv, ProofsAreOwn, TypeOK, States
<1>1. CASE ConnectSimulation
  <2>1. session' \in Session /\ session'.source = "simulator" /\ ~session'.diagnosticsRead
    BY <1>0, <1>1, Fields DEF ConnectSimulation
  <2>2. runtime' \in [running : BOOLEAN, kind : SourceKinds \cup {None}, frames : BOOLEAN]
    BY <1>1, RuntimeIsTyped DEF ConnectSimulation, SourceKinds
  <2> QED BY <1>1, <2>1, <2>2, EnterKeeps DEF ConnectSimulation, Enter
<1>2. CASE Disconnect
  <2>1. session' \in Session /\ session'.source = None /\ ~session'.diagnosticsRead
    BY <1>0, <1>2, Fields DEF Disconnect
  <2> QED BY <1>2, <2>1, RuntimeIsTyped, EnterKeeps DEF Disconnect, Enter
<1>3. ASSUME NEW t \in Tasks, ConnectPassive(t) PROVE SessionIInv'
  <2>1. session' \in Session /\ session'.source = None /\ ~session'.diagnosticsRead
    BY <1>0, <1>3, Fields DEF ConnectPassive
  <2>2. \E u \in Tasks, what \in {"discovery", "proof", "frames"} :
            Await(u, what) /\ what = "discovery"
    BY <1>3 DEF ConnectPassive
  <2> QED BY <1>0, <1>3, <2>1, <2>2, EnterKeeps DEF ConnectPassive, Enter
<1>4. ASSUME NEW t \in Tasks, NEW e \in Endpoints, ConnectDoip(t, e) PROVE SessionIInv'
  <2>1. session' \in Session /\ session'.source = "doip" /\ session'.state = "initialising"
        /\ ~session'.diagnosticsRead
    BY <1>0, <1>4, Fields DEF ConnectDoip
  <2>2. \E u \in Tasks, what \in {"discovery", "proof", "frames"} :
            Await(u, what) /\ what = "proof"
    BY <1>4 DEF ConnectDoip
  <2> QED BY <1>0, <1>4, <2>1, <2>2, RuntimeIsTyped, EnterKeeps DEF ConnectDoip, Enter
<1> QED BY <1>1, <1>2, <1>3, <1>4

(* Identification and learning are for sessions that are no DoIP ones. *)
LEMMA ObserveKeeps == ASSUME SessionIInv, Learn \/ \E t \in Tasks : Identify(t) PROVE SessionIInv'
<1>0. /\ endpoint \in Endpoints \cup {None} /\ proof \in Proof \cup {None} /\ session \in Session
      /\ runtime \in [running : BOOLEAN, kind : SourceKinds \cup {None}, frames : BOOLEAN]
      /\ session.diagnosticsRead => session.source = "doip"
      /\ endpoint # None <=> session.source = "doip"
  BY DEF SessionIInv, ProofsAreOwn, TypeOK, DiagnosticsAreBound, EndpointFollowsSession
<1>1. \A state \in States : LET s == [session EXCEPT !.state = state] IN
        s \in Session /\ s.source = session.source /\ s.diagnosticsRead = session.diagnosticsRead
  BY <1>0 DEF Session
<1>2. CASE Learn
  <2>1. PICK state \in {"ready", "learning"} : session' = [session EXCEPT !.state = state]
    BY <1>2 DEF Learn
  <2>2. state \in States
    BY DEF States
  <2>3. session' \in Session /\ session'.source = session.source
        /\ session'.diagnosticsRead = session.diagnosticsRead
    BY <1>1, <2>1, <2>2
  <2> QED BY <1>0, <1>2, <2>3, EnterKeeps DEF Learn, Enter
<1>3. ASSUME NEW t \in Tasks, Identify(t) PROVE SessionIInv'
  <2>1. "identifying" \in States /\ session' = [session EXCEPT !.state = "identifying"]
    BY <1>3 DEF Identify, States
  <2>2. session' \in Session /\ session'.source = session.source
        /\ session'.diagnosticsRead = session.diagnosticsRead
    BY <1>1, <2>1
  <2>3. session.source # "doip"
    BY <1>0, <1>3 DEF Identify, BoundToDoip
  <2>4. \E u \in Tasks, what \in {"discovery", "proof", "frames"} :
            Await(u, what) /\ what = "frames"
    BY <1>3 DEF Identify
  <2> QED BY <1>0, <1>3, <2>2, <2>3, <2>4, EnterKeeps DEF Identify, Enter
<1> QED BY <1>2, <1>3

LEMMA ReturnKeeps == ASSUME SessionIInv, NEW t \in Tasks, Resume(t) PROVE SessionIInv'
<1>0. /\ endpoint \in Endpoints \cup {None} /\ proof \in Proof \cup {None} /\ session \in Session
      /\ runtime \in [running : BOOLEAN, kind : SourceKinds \cup {None}, frames : BOOLEAN]
      /\ session.diagnosticsRead => session.source = "doip"
      /\ endpoint # None <=> session.source = "doip"
      /\ Awaiting(t)
  BY DEF SessionIInv, ProofsAreOwn, TypeOK, DiagnosticsAreBound, EndpointFollowsSession
<1>1. CASE Discovered(t)
  <2>1. session.source = None /\ ~session.diagnosticsRead /\ ResumedFrom(t, "discovery")
    BY <1>0, <1>1 DEF Discovered, ResumedFrom, Awaiting
  <2>2. /\ session' \in Session /\ session'.source \in {None, "socketcan"}
        /\ ~session'.diagnosticsRead
    BY <1>0, <1>1, <2>1 DEF Discovered, Session, States
  <2>3. runtime' \in [running : BOOLEAN, kind : SourceKinds \cup {None}, frames : BOOLEAN]
    BY <1>0, <1>1, RuntimeIsTyped DEF Discovered, SourceKinds
  <2>4. DiagnosticsAreBound' /\ session'.source # "doip" /\ session.source # "doip"
    BY <2>1, <2>2, OrchestratorAssumption DEF DiagnosticsAreBound
  <2> QED BY <1>0, <1>1, <2>1, <2>2, <2>3, <2>4, ResumeKeeps DEF Discovered
<1>2. CASE Proven(t)
  <2>1. session.source = "doip" /\ ~session.diagnosticsRead /\ ResumedFrom(t, "proof")
        /\ endpoint \in Endpoints
    BY <1>0, <1>2 DEF Proven, ResumedFrom, Awaiting
  <2>2. PICK exchange \in BOOLEAN :
            /\ proof' = [of |-> endpoint, exchange |-> exchange]
            /\ \/ session' = [session EXCEPT !.state = "error"]
               \/ session' = [session EXCEPT !.state = "ready", !.diagnosticsRead = TRUE,
                                             !.vehicle = "doip"]
    BY <1>2 DEF Proven
  <2>3. proof' \in Proof /\ proof'.of = endpoint
    BY <2>1, <2>2 DEF Proof
  <2>4. /\ session' \in Session /\ session'.source = "doip"
        /\ session'.diagnosticsRead => session'.state = "ready" /\ session'.vehicle = "doip"
        /\ session'.state = "ready" => session'.diagnosticsRead
    <3>1. CASE session' = [session EXCEPT !.state = "error"]
      <4>1. session' \in Session
        BY <1>0, <3>1 DEF Session, States
      <4>2. session'.source = session.source /\ session'.state = "error"
            /\ session'.diagnosticsRead = session.diagnosticsRead
        BY <1>0, <3>1 DEF Session
      <4> QED BY <2>1, <4>1, <4>2
    <3>2. CASE session' = [session EXCEPT !.state = "ready", !.diagnosticsRead = TRUE, !.vehicle = "doip"]
      <4>1. session' \in Session
        BY <1>0, <3>2 DEF Session, States
      <4>2. session'.source = session.source /\ session'.state = "ready"
            /\ session'.diagnosticsRead = TRUE /\ session'.vehicle = "doip"
        BY <1>0, <3>2 DEF Session
      <4> QED BY <2>1, <4>1, <4>2
    <3> QED BY <2>2, <3>1, <3>2
  <2>5. proof' # None /\ DiagnosticsAreBound'
    <3>1. proof' # None
      BY <2>3, OrchestratorAssumption DEF Proof
    <3> QED BY <1>0, <1>2, <2>1, <2>3, <2>4, <3>1 DEF DiagnosticsAreBound, Proven
  <2> QED BY <1>0, <1>2, <2>1, <2>3, <2>4, <2>5, ResumeKeeps DEF Proven
<1>3. CASE Identified(t)
  <2>1. session.source # "doip" /\ ~session.diagnosticsRead /\ ResumedFrom(t, "frames")
    BY <1>0, <1>3 DEF Identified, ResumedFrom, Awaiting
  <2>2. /\ session' \in Session /\ session'.source = session.source
        /\ ~session'.diagnosticsRead
    <3> DEFINE vehicle == IF runtime.kind = "simulator" THEN "simulation" ELSE "observed"
    <3>1. PICK state \in {"ready", "identifying"} :
              session' = [session EXCEPT !.state = state, !.vehicle = vehicle]
      BY <1>3 DEF Identified
    <3>2. vehicle \in {"observed", "simulation", "doip", None}
      OBVIOUS
    <3> HIDE DEF vehicle
    <3>3. session' \in Session
      BY <1>0, <3>1, <3>2 DEF Session, States
    <3>4. session'.source = session.source /\ session'.diagnosticsRead = session.diagnosticsRead
      BY <1>0, <3>1 DEF Session
    <3> QED BY <2>1, <3>3, <3>4
  <2>3. DiagnosticsAreBound'
    BY <2>2 DEF DiagnosticsAreBound
  <2> QED BY <1>0, <1>3, <2>1, <2>2, <2>3, ResumeKeeps DEF Identified
<1> QED BY <1>1, <1>2, <1>3 DEF Resume

(* The routes that change the source without the orchestrator. *)
LEMMA RuntimeKeeps ==
    ASSUME SessionIInv, (\E kind \in SourceKinds : ApiConnect(kind)) \/ FrameArrives \/ SourceEnds
    PROVE  SessionIInv'
<1>1. UNCHANGED <<lock, task, session, endpoint, proof>>
  BY DEF ApiConnect, FrameArrives, SourceEnds
<1>2. runtime' \in [running : BOOLEAN, kind : SourceKinds \cup {None}, frames : BOOLEAN]
  BY RuntimeIsTyped DEF ApiConnect, FrameArrives, SourceEnds, SessionIInv, ProofsAreOwn, TypeOK
<1>3. TypeOK' /\ DiagnosticsAreBound' /\ EndpointFollowsSession' /\ \A t \in Tasks : Awaiting(t)'
  BY <1>1, <1>2 DEF SessionIInv, ProofsAreOwn, TypeOK, DiagnosticsAreBound, EndpointFollowsSession, Awaiting
<1>4. ReadyOnOwnExchange'
  BY <1>1, OrchestratorAssumption DEF SessionIInv, ProofsAreOwn, ReadyOnOwnExchange, DiagnosticsAreBound, VehicleReady,
              HealthSource, ProvenOver
<1> QED BY <1>1, <1>3, <1>4 DEF SessionIInv, ProofsAreOwn

LEMMA SessionKeeps == SessionIInv /\ [Next]_vars => SessionIInv'
<1> SUFFICES ASSUME SessionIInv, [Next]_vars PROVE SessionIInv'
  OBVIOUS
<1>1. CASE UNCHANGED vars
  BY <1>1 DEF vars, SessionIInv, ProofsAreOwn, TypeOK, DiagnosticsAreBound, EndpointFollowsSession,
              ReadyOnOwnExchange, VehicleReady, HealthSource, ProvenOver, Awaiting
<1>2. CASE Next
  BY <1>2, ConnectKeeps, ObserveKeeps, ReturnKeeps, RuntimeKeeps DEF Next
<1> QED BY <1>1, <1>2

(* For any number of workflows and endpoints, whatever routes change beneath
   them: what is claimed of a DoIP vehicle rests on a proof of the endpoint that
   is bound. *)
THEOREM ProofsStayOwn == Spec => []ProofsAreOwn
<1>1. SessionIInv => ProofsAreOwn
  BY DEF SessionIInv
<1> QED BY <1>1, SessionBegins, SessionKeeps, PTL DEF Spec
=============================================================================
