---------------------------- MODULE RoutesProofs ----------------------------
(***************************************************************************)
(* Proofs about the parts whose rows or files several requests or programs *)
(* change without a lock that would keep them apart.  Each is proved of    *)
(* its own specification, for any value of its constants.                  *)
(***************************************************************************)
EXTENDS ResearchStore, CaptureTransfer,
        Integers, Sequences, SequenceTheorems, TLAPS
LOCAL INSTANCE SequencesExt
Order == INSTANCE WellFoundedInduction

-----------------------------------------------------------------------------
(***************************************************************************)
(* ResearchStore, for any number of researchers and any documents.         *)
(*                                                                         *)
(* Rows are only added, one to a key; so what a request has looked up or   *)
(* put is still there when it is logged, and what it has read of a context *)
(* still stored when the report is made.                                   *)
(***************************************************************************)
(* What a sequence of documents holds. *)
Held(s) == {s[i] : i \in DOMAIN s}

AnyDocument == Documents \cup Held(Seed)
ReadContexts == {NoContext} \cup {[stored |-> TRUE, content |-> d.content] : d \in AnyDocument}

Comparisons == [pair : Seq(Recorded), known : SUBSET Recorded, contexts : Seq(ReadContexts)]

ResearchTypeOK ==
    /\ rows \subseteq AnyDocument
    /\ doing \in [Researchers -> {"nothing", "look", "insert", "log", "compare"}]
    /\ bringing \in [Researchers -> Seq(AnyDocument)]
    /\ brought \in [Researchers -> Seq(AnyDocument)]
    /\ comparing \in [Researchers -> Comparisons]

OneToAKey == \A a, b \in rows : a.kind = b.kind /\ a.key = b.key => a = b
SourcesStored == \A d \in rows : \A s \in d.refs : Under("source", s) # {}

(* A request that puts documents: what it no longer brings is stored. *)
Putting(r) ==
    /\ doing[r] \in {"look", "insert"} => bringing[r] # <<>>
    /\ doing[r] \in {"nothing", "compare"} => bringing[r] = <<>> /\ brought[r] = <<>>
    /\ doing[r] = "log" => bringing[r] = <<>>
    /\ doing[r] = "insert" => \A s \in Head(bringing[r]).refs : Under("source", s) # {}
    /\ Held(brought[r]) \subseteq rows \cup Held(bringing[r])

(* A request that compares: what it has read of the contexts is stored, and it has
   found the contexts that were known to be stored. *)
Comparing(r) ==
    LET c == comparing[r] IN
    /\ doing[r] = "compare" => Len(c.pair) = 2 /\ Len(c.contexts) < 2
    /\ Len(c.contexts) <= Len(c.pair)
    /\ \A i \in 1..Len(c.contexts) :
           c.contexts[i].stored => \E d \in Under("context", c.pair[i]) : c.contexts[i].content = d.content
    /\ \A k \in c.known : Under("context", k) # {}
    /\ \A i \in 1..Len(c.contexts) : c.pair[i] \in c.known => c.contexts[i].stored

ResearchIInv ==
    /\ ResearchTypeOK
    /\ OneToAKey /\ SourcesStored
    /\ logged \subseteq rows
    /\ \A r \in Researchers : Putting(r) /\ Comparing(r)

(* What a sequence of documents holds, when one is put or is to be put. *)
LEMMA Members ==
    ASSUME NEW S, NEW s \in Seq(S)
    PROVE  /\ s # <<>> => Tail(s) \in Seq(S) /\ Head(s) \in S /\ Held(s) \subseteq {Head(s)} \cup Held(Tail(s))
           /\ s # <<>> /\ Len(s) = 1 => Tail(s) = <<>>
           /\ s # <<>> /\ Len(s) # 1 => Tail(s) # <<>>
           /\ Held(<<>>) = {}
<1>1. ASSUME s # <<>> PROVE Held(s) \subseteq {Head(s)} \cup Held(Tail(s))
  <2> SUFFICES ASSUME NEW i \in DOMAIN s, i # 1 PROVE s[i] \in Held(Tail(s))
    BY <1>1 DEF Held
  <2>1. i - 1 \in 1..Len(Tail(s)) /\ Tail(s)[i - 1] = s[i]
    BY <1>1
  <2>2. DOMAIN Tail(s) = 1..Len(Tail(s))
    BY <1>1
  <2> QED BY <2>1, <2>2 DEF Held
<1>2. Held(<<>>) = {}
  BY DEF Held
<1>3. s # <<>> /\ Len(s) = 1 => Tail(s) = <<>>
  <2> SUFFICES ASSUME s # <<>>, Len(s) = 1 PROVE Tail(s) = <<>>
    OBVIOUS
  <2>1. Tail(s) \in Seq(S) /\ Len(Tail(s)) = 0
    OBVIOUS
  <2> QED BY <2>1, EmptySeq
<1>4. s # <<>> /\ Len(s) # 1 => Tail(s) # <<>>
  <2> SUFFICES ASSUME s # <<>>, Len(s) # 1 PROVE Len(Tail(s)) # 0
    OBVIOUS
  <2> QED OBVIOUS
<1>5. s # <<>> => Tail(s) \in Seq(S) /\ Head(s) \in S
  OBVIOUS
<1> QED BY <1>1, <1>2, <1>3, <1>4, <1>5

(* What was stored is stored, and a request that does nothing new goes on. *)
LEMMA RowsStay ==
    ASSUME rows \subseteq rows'
    PROVE  /\ \A kind, key : Under(kind, key) \subseteq Under(kind, key)'
           /\ \A r \in Researchers :
                /\ Putting(r) /\ UNCHANGED <<doing[r], bringing[r], brought[r]>> => Putting(r)'
                /\ Comparing(r) /\ UNCHANGED <<doing[r], comparing[r]>> => Comparing(r)'
<1>1. \A kind, key : Under(kind, key) \subseteq Under(kind, key)'
  BY DEF Under
<1>2. ASSUME NEW r \in Researchers, Putting(r), UNCHANGED <<doing[r], bringing[r], brought[r]>> PROVE Putting(r)'
  BY <1>1, <1>2 DEF Putting
<1>3. ASSUME NEW r \in Researchers, Comparing(r), UNCHANGED <<doing[r], comparing[r]>> PROVE Comparing(r)'
  BY <1>1, <1>3 DEF Comparing
<1> QED BY <1>1, <1>2, <1>3

(* A request that puts documents goes on. *)
LEMMA GoesOnPutting ==
    ASSUME ResearchIInv, NEW r \in Researchers, rows \subseteq rows', UNCHANGED comparing,
           NEW todo \in Seq(AnyDocument), NEW put \in Seq(AnyDocument),
           NEW what \in {"nothing", "look", "insert", "log"},
           doing' = [doing EXCEPT ![r] = what],
           bringing' = [bringing EXCEPT ![r] = todo],
           brought' = [brought EXCEPT ![r] = put],
           what \in {"look", "insert"} => todo # <<>>,
           what = "nothing" => todo = <<>> /\ put = <<>>,
           what = "log" => todo = <<>>,
           what = "insert" => \A s \in Head(todo).refs : Under("source", s)' # {},
           Held(put) \subseteq rows' \cup Held(todo)
    PROVE  /\ doing' \in [Researchers -> {"nothing", "look", "insert", "log", "compare"}]
           /\ bringing' \in [Researchers -> Seq(AnyDocument)]
           /\ brought' \in [Researchers -> Seq(AnyDocument)]
           /\ \A q \in Researchers : Putting(q)' /\ Comparing(q)'
<1>1. /\ doing' \in [Researchers -> {"nothing", "look", "insert", "log", "compare"}]
      /\ bringing' \in [Researchers -> Seq(AnyDocument)]
      /\ brought' \in [Researchers -> Seq(AnyDocument)]
      /\ doing'[r] = what /\ bringing'[r] = todo /\ brought'[r] = put
      /\ \A q \in Researchers \ {r} : UNCHANGED <<doing[q], bringing[q], brought[q], comparing[q]>>
  BY DEF ResearchIInv, ResearchTypeOK
<1>2. Putting(r)'
  BY <1>1 DEF Putting
<1>3. Comparing(r)'
  <2>1. \A kind, key : Under(kind, key) \subseteq Under(kind, key)'
    BY RowsStay
  <2> QED BY <1>1, <2>1 DEF Comparing, ResearchIInv
<1>4. \A q \in Researchers \ {r} : Putting(q)' /\ Comparing(q)'
  BY <1>1, RowsStay DEF ResearchIInv
<1> QED BY <1>1, <1>2, <1>3, <1>4

(* It ends. *)
LEMMA EndsPutting ==
    ASSUME ResearchIInv, NEW r \in Researchers, Ends(r), rows \subseteq rows', UNCHANGED comparing
    PROVE  /\ doing' \in [Researchers -> {"nothing", "look", "insert", "log", "compare"}]
           /\ bringing' \in [Researchers -> Seq(AnyDocument)]
           /\ brought' \in [Researchers -> Seq(AnyDocument)]
           /\ \A q \in Researchers : Putting(q)' /\ Comparing(q)'
<1>1. <<>> \in Seq(AnyDocument) /\ Held(<<>>) \subseteq rows'
  BY DEF Held
<1> QED BY <1>1, GoesOnPutting DEF Ends, Now

(* It comes to its next document, when this one is stored. *)
LEMMA NextPutting ==
    ASSUME ResearchIInv, NEW r \in Researchers, doing[r] \in {"look", "insert"}, NextDocument(r),
           rows \subseteq rows', Head(bringing[r]) \in rows', UNCHANGED comparing
    PROVE  /\ doing' \in [Researchers -> {"nothing", "look", "insert", "log", "compare"}]
           /\ bringing' \in [Researchers -> Seq(AnyDocument)]
           /\ brought' \in [Researchers -> Seq(AnyDocument)]
           /\ \A q \in Researchers : Putting(q)' /\ Comparing(q)'
<1> DEFINE todo == Tail(bringing[r])
           what == IF Len(bringing[r]) = 1 THEN "log" ELSE "look"
<1>1. bringing[r] \in Seq(AnyDocument) /\ brought[r] \in Seq(AnyDocument) /\ bringing[r] # <<>>
  BY DEF ResearchIInv, ResearchTypeOK, Putting
<1>2. /\ todo \in Seq(AnyDocument) /\ Held(bringing[r]) \subseteq {Head(bringing[r])} \cup Held(todo)
      /\ what \in {"log", "look"} /\ (what = "log" => todo = <<>>) /\ (what = "look" => todo # <<>>)
  BY <1>1, Members
<1>3. Held(brought[r]) \subseteq rows' \cup Held(todo)
  BY <1>2 DEF ResearchIInv, Putting
<1>4. /\ doing' = [doing EXCEPT ![r] = what] /\ bringing' = [bringing EXCEPT ![r] = todo]
      /\ brought' = [brought EXCEPT ![r] = brought[r]]
  BY <1>1 DEF NextDocument, Now, ResearchIInv, ResearchTypeOK
<1> HIDE DEF todo, what
<1> QED BY <1>1, <1>2, <1>3, <1>4, GoesOnPutting

(* The row that is inserted has a key of its own, and its sources are stored. *)
LEMMA InsertKeeps == ASSUME ResearchIInv, NEW r \in Researchers, InsertImmutable(r) PROVE ResearchIInv'
<1> DEFINE d == Head(bringing[r])
<1>1. /\ bringing[r] \in Seq(AnyDocument) /\ bringing[r] # <<>> /\ doing[r] = "insert"
      /\ \A s \in d.refs : Under("source", s) # {}
  BY DEF InsertImmutable, ResearchIInv, ResearchTypeOK, Putting
<1>2. d \in AnyDocument
  BY <1>1
<1>3. UNCHANGED <<logged, comparing>>
  BY DEF InsertImmutable
<1>4. CASE Under(d.kind, d.key) = {}
  <2>1. rows' = rows \cup {d} /\ NextDocument(r)
    BY <1>4 DEF InsertImmutable
  <2>2. rows \subseteq rows' /\ d \in rows'
    BY <2>1
  <2> HIDE DEF d
  <2>3. OneToAKey'
    BY <1>4, <2>1 DEF ResearchIInv, OneToAKey, Under
  <2>4. SourcesStored'
    BY <1>1, <2>1, <2>2, RowsStay DEF ResearchIInv, SourcesStored
  <2>5. rows' \subseteq AnyDocument
    BY <1>2, <2>1 DEF ResearchIInv, ResearchTypeOK
  <2>6. /\ doing' \in [Researchers -> {"nothing", "look", "insert", "log", "compare"}]
        /\ bringing' \in [Researchers -> Seq(AnyDocument)]
        /\ brought' \in [Researchers -> Seq(AnyDocument)]
        /\ \A q \in Researchers : Putting(q)' /\ Comparing(q)'
    BY <1>1, <1>3, <2>1, <2>2, NextPutting DEF d
  <2> QED BY <1>3, <2>2, <2>3, <2>4, <2>5, <2>6 DEF ResearchIInv, ResearchTypeOK
<1>5. CASE Under(d.kind, d.key) # {}
  <2>1. Ends(r) /\ UNCHANGED rows
    BY <1>5 DEF InsertImmutable
  <2> QED BY <1>3, <2>1, EndsPutting DEF ResearchIInv, ResearchTypeOK, OneToAKey, SourcesStored, Under
<1> QED BY <1>4, <1>5

(* A step of a request that puts leaves the rows as they are. *)
LEMMA RowsKept ==
    ASSUME ResearchIInv, UNCHANGED <<rows, logged, comparing>>,
           doing' \in [Researchers -> {"nothing", "look", "insert", "log", "compare"}],
           bringing' \in [Researchers -> Seq(AnyDocument)],
           brought' \in [Researchers -> Seq(AnyDocument)],
           \A q \in Researchers : Putting(q)' /\ Comparing(q)'
    PROVE  ResearchIInv'
BY DEF ResearchIInv, ResearchTypeOK, OneToAKey, SourcesStored, Under

(* A request comes with documents, of which none is put yet. *)
LEMMA BringsKeeps ==
    ASSUME ResearchIInv, NEW r \in Researchers, NEW documents \in Seq(AnyDocument), documents # <<>>,
           Brings(r, documents)
    PROVE  ResearchIInv'
<1>1. UNCHANGED <<rows, logged, comparing>>
  BY DEF Brings
<1>2. /\ doing' \in [Researchers -> {"nothing", "look", "insert", "log", "compare"}]
      /\ bringing' \in [Researchers -> Seq(AnyDocument)]
      /\ brought' \in [Researchers -> Seq(AnyDocument)]
      /\ \A q \in Researchers : Putting(q)' /\ Comparing(q)'
  BY <1>1, GoesOnPutting DEF Brings, Now
<1> QED BY <1>1, <1>2, RowsKept

(* A document that is there already counts as put. *)
LEMMA LookKeeps == ASSUME ResearchIInv, NEW r \in Researchers, Look(r) PROVE ResearchIInv'
<1> DEFINE d == Head(bringing[r])
           there == Under(d.kind, d.key)
<1>1. /\ bringing[r] \in Seq(AnyDocument) /\ bringing[r] # <<>> /\ doing[r] = "look"
      /\ brought[r] \in Seq(AnyDocument) /\ Held(brought[r]) \subseteq rows \cup Held(bringing[r])
  BY DEF Look, ResearchIInv, ResearchTypeOK, Putting
<1>2. UNCHANGED <<rows, logged, comparing>>
  BY DEF Look
<1>3. \/ Ends(r)
      \/ d \in rows /\ NextDocument(r)
      \/ /\ \A s \in d.refs : Under("source", s) # {}
         /\ Now(r, "insert") /\ UNCHANGED <<bringing, brought>>
  BY DEF Look, Under
<1>4. /\ doing' \in [Researchers -> {"nothing", "look", "insert", "log", "compare"}]
      /\ bringing' \in [Researchers -> Seq(AnyDocument)]
      /\ brought' \in [Researchers -> Seq(AnyDocument)]
      /\ \A q \in Researchers : Putting(q)' /\ Comparing(q)'
  <2>1. CASE Ends(r)
    BY <1>2, <2>1, EndsPutting
  <2>2. CASE d \in rows /\ NextDocument(r)
    BY <1>1, <1>2, <2>2, NextPutting
  <2>3. CASE /\ \A s \in d.refs : Under("source", s) # {}
             /\ Now(r, "insert") /\ UNCHANGED <<bringing, brought>>
    <3>1. /\ bringing' = [bringing EXCEPT ![r] = bringing[r]] /\ brought' = [brought EXCEPT ![r] = brought[r]]
          /\ doing' = [doing EXCEPT ![r] = "insert"]
      BY <2>3 DEF Now, ResearchIInv, ResearchTypeOK
    <3>2. \A s \in d.refs : Under("source", s)' # {}
      BY <1>2, <2>3 DEF Under
    <3> HIDE DEF d
    <3> QED BY <1>1, <1>2, <3>1, <3>2, GoesOnPutting DEF d
  <2> QED BY <1>3, <2>1, <2>2, <2>3
<1> QED BY <1>2, <1>4, RowsKept

(* All that was to be put is stored when it is logged. *)
LEMMA LogKeeps == ASSUME ResearchIInv, NEW r \in Researchers, Log(r) PROVE ResearchIInv'
<1>1. Ends(r) /\ UNCHANGED <<rows, comparing>> /\ logged' = logged \cup Held(brought[r])
  BY DEF Log, Held
<1>2. Held(brought[r]) \subseteq rows
  BY Members DEF Log, ResearchIInv, ResearchTypeOK, Putting
<1> QED BY <1>1, <1>2, EndsPutting DEF ResearchIInv, ResearchTypeOK, OneToAKey, SourcesStored, Under

(* An event is logged without any document. *)
LEMMA AppendEventKeeps == ASSUME ResearchIInv, NEW r \in Researchers, AppendEvent(r) PROVE ResearchIInv'
<1>1. UNCHANGED <<rows, logged, comparing, bringing, brought>> /\ doing[r] = "nothing" /\ Now(r, "log")
  BY DEF AppendEvent
<1>2. bringing[r] = <<>> /\ brought[r] = <<>>
  BY <1>1 DEF ResearchIInv, Putting
<1>3. /\ bringing' = [bringing EXCEPT ![r] = <<>>] /\ brought' = [brought EXCEPT ![r] = <<>>]
      /\ doing' = [doing EXCEPT ![r] = "log"]
  BY <1>1, <1>2 DEF Now, ResearchIInv, ResearchTypeOK
<1>4. <<>> \in Seq(AnyDocument) /\ Held(<<>>) = {}
  BY DEF Held
<1> QED BY <1>1, <1>3, <1>4, GoesOnPutting, RowsKept

(* A comparison reads contexts that are stored, or none. *)
LEMMA ReadContextKeeps == ASSUME ResearchIInv, NEW r \in Researchers, ReadContext(r) PROVE ResearchIInv'
<1> DEFINE c == comparing[r]
           found == Under("context", c.pair[Len(c.contexts) + 1])
           one == IF found = {} THEN NoContext
                  ELSE [stored |-> TRUE, content |-> (CHOOSE d \in found : TRUE).content]
           read == Append(c.contexts, one)
           what == IF Len(c.contexts) = 1 THEN "nothing" ELSE "compare"
<1>1. /\ c \in Comparisons
      /\ c.contexts \in Seq(ReadContexts) /\ Len(c.pair) = 2 /\ Len(c.contexts) < 2 /\ Len(c.contexts) \in Nat
      /\ \A i \in 1..Len(c.contexts) :
            c.contexts[i].stored => \E d \in Under("context", c.pair[i]) : c.contexts[i].content = d.content
      /\ \A k \in c.known : Under("context", k) # {}
      /\ \A i \in 1..Len(c.contexts) : c.pair[i] \in c.known => c.contexts[i].stored
      /\ bringing[r] = <<>> /\ brought[r] = <<>>
  BY DEF ReadContext, ResearchIInv, ResearchTypeOK, Comparisons, Putting, Comparing
<1>2. /\ UNCHANGED <<rows, bringing, brought, logged>>
      /\ comparing' = [comparing EXCEPT ![r].contexts = read]
      /\ doing' = [doing EXCEPT ![r] = what]
  BY DEF ReadContext, Now
<1>3. /\ one \in ReadContexts /\ (one.stored => \E d \in found : one.content = d.content)
      /\ found # {} => one.stored
  <2>1. CASE found = {}
    BY <2>1 DEF ReadContexts, NoContext
  <2>2. CASE found # {}
    <3> DEFINE d == CHOOSE d \in found : TRUE
    <3>1. d \in found
      BY <2>2
    <3>2. d \in AnyDocument
      BY <3>1 DEF Under, ResearchIInv, ResearchTypeOK
    <3>3. one = [stored |-> TRUE, content |-> d.content]
      BY <2>2
    <3> HIDE DEF d, found, one
    <3> QED BY <3>1, <3>2, <3>3 DEF ReadContexts
  <2> QED BY <2>1, <2>2
<1>4. /\ comparing' \in [Researchers -> Comparisons]
      /\ comparing'[r].pair = c.pair /\ comparing'[r].known = c.known /\ comparing'[r].contexts = read
      /\ \A q \in Researchers \ {r} : comparing'[q] = comparing[q]
  <2> HIDE DEF one
  <2>1. read \in Seq(ReadContexts)
    BY <1>1, <1>3
  <2> HIDE DEF read
  <2> QED BY <1>2, <2>1 DEF ResearchIInv, ResearchTypeOK, Comparisons
<1>5. /\ doing' \in [Researchers -> {"nothing", "look", "insert", "log", "compare"}]
      /\ doing'[r] = what /\ what \in {"nothing", "compare"}
      /\ \A q \in Researchers \ {r} : doing'[q] = doing[q]
  BY <1>2 DEF ResearchIInv, ResearchTypeOK
<1>6. Comparing(r)'
  <2> HIDE DEF one, found
  <2>1. Len(read) = Len(c.contexts) + 1 /\ read[Len(c.contexts) + 1] = one
        /\ \A i \in 1..Len(c.contexts) : read[i] = c.contexts[i]
    BY <1>1, <1>3
  <2>2. what = "compare" => Len(c.contexts) = 0
    <3>1. Len(c.contexts) \in Nat /\ Len(c.contexts) < 2
      BY <1>1
    <3>2. what = "compare" => Len(c.contexts) # 1
      OBVIOUS
    <3> HIDE DEF what, c
    <3>3. \A n \in Nat : n < 2 /\ n # 1 => n = 0
      OBVIOUS
    <3>4. Len(c.contexts) # 1 => Len(c.contexts) = 0
      BY <3>1, <3>3, Zenon
    <3> QED BY <3>2, <3>4
  <2> HIDE DEF read, what
  <2>3. \A i \in 1..Len(read) :
            read[i].stored => \E d \in Under("context", c.pair[i]) : read[i].content = d.content
    BY <1>1, <1>3, <2>1 DEF found
  <2>4. comparing'[r].pair = c.pair /\ comparing'[r].known = c.known /\ comparing'[r].contexts = read
    BY <1>4
  <2>5. \A i \in 1..Len(read) : read[i].stored =>
            \E d \in rows' : d.kind = "context" /\ d.key = c.pair[i] /\ read[i].content = d.content
    BY <1>2, <2>3 DEF Under
  <2>6. Len(c.pair) = 2 /\ Len(read) <= 2 /\ (what = "compare" => Len(read) < 2)
    BY <1>1, <2>1, <2>2
  <2>7. \A k \in c.known : \E d \in rows' : d.kind = "context" /\ d.key = k
    BY <1>1, <1>2 DEF Under
  <2>8. \A i \in 1..Len(read) : c.pair[i] \in c.known => read[i].stored
    <3>1. SUFFICES ASSUME NEW i \in 1..Len(read), c.pair[i] \in c.known PROVE read[i].stored
      OBVIOUS
    <3>2. CASE i \in 1..Len(c.contexts)
      BY <1>1, <2>1, <3>1, <3>2
    <3>3. CASE i = Len(c.contexts) + 1
      BY <1>1, <1>3, <2>1, <3>1, <3>3 DEF found
    <3>4. i \in 1..Len(c.contexts) \/ i = Len(c.contexts) + 1
      BY <1>1, <2>1
    <3> QED BY <3>2, <3>3, <3>4
  <2> HIDE DEF c
  <2> QED BY <1>5, <2>4, <2>5, <2>6, <2>7, <2>8 DEF Comparing, Under
<1>7. \A q \in Researchers : Putting(q)'
  <2> HIDE DEF what
  <2>1. ASSUME NEW q \in Researchers PROVE Putting(q)'
    <3>1. Putting(q)
      BY DEF ResearchIInv
    <3> QED BY <1>1, <1>2, <1>5, <3>1 DEF Putting, Under
  <2> QED BY <2>1
<1>8. \A q \in Researchers \ {r} : Comparing(q)'
  BY <1>2, <1>4, <1>5, RowsStay DEF ResearchIInv
<1> HIDE DEF what, read, one, found, c
<1> QED BY <1>2, <1>4, <1>5, <1>6, <1>7, <1>8 DEF ResearchIInv, ResearchTypeOK, OneToAKey, SourcesStored, Under

(* A comparison begins with nothing read. *)
LEMMA CompareKeeps == ASSUME ResearchIInv, NEW r \in Researchers, Compare(r) PROVE ResearchIInv'
<1> DEFINE stored(a, b) == {k \in {a, b} : \E d \in logged : d.kind = "context" /\ d.key = k}
<1>1. PICK a, b \in Recorded :
        comparing' = [comparing EXCEPT ![r] = [pair |-> <<a, b>>, known |-> stored(a, b), contexts |-> <<>>]]
  BY DEF Compare
<1>0. stored(a, b) \in SUBSET Recorded /\ \A k \in stored(a, b) : Under("context", k) # {}
  BY DEF Under, ResearchIInv
<1> HIDE DEF stored
<1>2. /\ UNCHANGED <<rows, bringing, brought, logged>> /\ doing' = [doing EXCEPT ![r] = "compare"]
      /\ bringing[r] = <<>> /\ brought[r] = <<>>
  BY DEF Compare, Now, ResearchIInv, Putting
<1>3. /\ comparing' \in [Researchers -> Comparisons]
      /\ comparing'[r].pair = <<a, b>> /\ comparing'[r].known = stored(a, b) /\ comparing'[r].contexts = <<>>
      /\ \A q \in Researchers \ {r} : comparing'[q] = comparing[q]
  <2> DEFINE c == [pair |-> <<a, b>>, known |-> stored(a, b), contexts |-> <<>>]
  <2>1. c \in Comparisons /\ c.pair = <<a, b>> /\ c.known = stored(a, b) /\ c.contexts = <<>>
    BY <1>0 DEF Comparisons
  <2> HIDE DEF c
  <2> QED BY <1>1, <2>1 DEF c, ResearchIInv, ResearchTypeOK
<1>4. /\ doing' \in [Researchers -> {"nothing", "look", "insert", "log", "compare"}]
      /\ doing'[r] = "compare"
      /\ \A q \in Researchers \ {r} : doing'[q] = doing[q]
  BY <1>2 DEF ResearchIInv, ResearchTypeOK
<1>5. Comparing(r)'
  <2>1. Len(<<a, b>>) = 2 /\ Len(<<>>) = 0
    OBVIOUS
  <2>2. \A k \in stored(a, b) : \E d \in rows' : d.kind = "context" /\ d.key = k
    BY <1>0, <1>2 DEF Under
  <2> QED BY <1>3, <2>1, <2>2 DEF Comparing, Under
<1>6. \A q \in Researchers : Putting(q)'
  <2>1. ASSUME NEW q \in Researchers PROVE Putting(q)'
    <3>1. Putting(q)
      BY DEF ResearchIInv
    <3> QED BY <1>2, <1>4, <3>1 DEF Putting, Under
  <2> QED BY <2>1
<1>7. \A q \in Researchers \ {r} : Comparing(q)'
  BY <1>2, <1>3, <1>4, RowsStay DEF ResearchIInv
<1> QED BY <1>2, <1>3, <1>4, <1>5, <1>6, <1>7 DEF ResearchIInv, ResearchTypeOK, OneToAKey, SourcesStored, Under

(* What is under way when the server is killed is forgotten, the rows stay. *)
LEMMA KilledKeeps == ASSUME ResearchIInv, ServerKilled PROVE ResearchIInv'
<1>1. /\ UNCHANGED <<rows, logged>>
      /\ \A r \in Researchers : /\ doing'[r] = "nothing" /\ bringing'[r] = <<>> /\ brought'[r] = <<>>
                                /\ comparing'[r].contexts = <<>> /\ comparing'[r].pair = <<>>
                                /\ comparing'[r].known = {}
  BY DEF ServerKilled, NoComparison
<1>2. /\ doing' \in [Researchers -> {"nothing", "look", "insert", "log", "compare"}]
      /\ bringing' \in [Researchers -> Seq(AnyDocument)]
      /\ brought' \in [Researchers -> Seq(AnyDocument)]
      /\ comparing' \in [Researchers -> Comparisons]
  BY DEF ServerKilled, NoComparison, Comparisons
<1>3. Held(<<>>) = {} /\ Len(<<>>) = 0
  BY DEF Held
<1>4. ASSUME NEW r \in Researchers PROVE Putting(r)' /\ Comparing(r)'
  BY <1>1, <1>3 DEF Putting, Comparing
<1> QED BY <1>1, <1>2, <1>4 DEF ResearchIInv, ResearchTypeOK, OneToAKey, SourcesStored, Under

(* Every statement of every request, and a kill, keep the invariant. *)
LEMMA ResearchKeeps == ASSUME ResearchIInv, [ResearchNext]_researchVars PROVE ResearchIInv'
<1>1. ASSUME NEW r \in Researchers, Put(r) PROVE ResearchIInv'
  <2>1. PICK d \in Documents : Brings(r, <<d>>)
    BY <1>1 DEF Put
  <2>2. <<d>> \in Seq(AnyDocument) /\ <<d>> # <<>>
    BY DEF AnyDocument
  <2> QED BY <2>1, <2>2, BringsKeeps
<1>2. ASSUME NEW r \in Researchers, PutSeed(r) PROVE ResearchIInv'
  <2>1. Seed \in Seq(AnyDocument) /\ Seed # <<>>
    BY SeedAssumption DEF AnyDocument, Held
  <2> QED BY <1>2, <2>1, BringsKeeps DEF PutSeed
<1>3. ASSUME NEW r \in Researchers, Raises(r) PROVE ResearchIInv'
  BY <1>3, EndsPutting, RowsKept DEF Raises
<1>4. CASE UNCHANGED researchVars
  <2>1. UNCHANGED <<rows, doing, bringing, brought, comparing, logged>>
    BY <1>4 DEF researchVars
  <2>2. \A r \in Researchers : Putting(r)' /\ Comparing(r)'
    BY <2>1, RowsStay DEF ResearchIInv
  <2> QED BY <2>1, <2>2, RowsKept DEF ResearchIInv, ResearchTypeOK
<1>5. CASE ResearchNext
  BY <1>1, <1>2, <1>3, <1>5, KilledKeeps, LookKeeps, InsertKeeps, AppendEventKeeps, LogKeeps,
     CompareKeeps, ReadContextKeeps DEF ResearchNext
<1> QED BY <1>4, <1>5

(* The invariant holds in every state. *)
LEMMA ResearchInvariance == ResearchSpec => []ResearchIInv
<1>1. ResearchInit => ResearchIInv
  <2> SUFFICES ASSUME ResearchInit PROVE ResearchIInv
    OBVIOUS
  <2>1. ResearchTypeOK
    BY DEF ResearchInit, ResearchTypeOK, Comparisons, NoComparison
  <2>2. Held(<<>>) = {} /\ Len(<<>>) = 0
    BY DEF Held
  <2>3. ASSUME NEW r \in Researchers PROVE Putting(r) /\ Comparing(r)
    BY <2>2 DEF ResearchInit, Putting, Comparing, NoComparison
  <2> QED BY <2>1, <2>3 DEF ResearchInit, ResearchIInv, OneToAKey, SourcesStored
<1> QED BY <1>1, ResearchKeeps, PTL DEF ResearchSpec

(* Whatever requests put at the same time, and wherever the process is killed, what
   was logged as put is stored under its key, alone, beside the sources it names. *)
THEOREM LoggedStaysStored == ResearchSpec => []AnsweredIsStored
<1>1. ResearchIInv => AnsweredIsStored
  BY DEF ResearchIInv, OneToAKey, SourcesStored, AnsweredIsStored, Under
<1> QED BY <1>1, ResearchInvariance, PTL

(* Two contexts weigh the same either way round. *)
LEMMA ScoreIsSymmetric ==
    ASSUME NEW a, NEW b
    PROVE  Differing(a, b) = Differing(b, a) /\ ContextScore(a, b) = ContextScore(b, a)
<1>1. Differing(a, b) = Differing(b, a)
  BY DEF Differing
<1>2. AmbientDiffers(a, b) <=> AmbientDiffers(b, a)
  BY DEF AmbientDiffers
<1> QED BY <1>1, <1>2 DEF ContextScore

(* Contexts of the same recordings, found by two reports, weigh the same. *)
LEMMA FoundAgree ==
    ASSUME ResearchIInv, NEW r \in Researchers, NEW q \in Researchers, FoundBoth(r), FoundBoth(q),
           {comparing[r].pair[1], comparing[r].pair[2]} = {comparing[q].pair[1], comparing[q].pair[2]}
    PROVE  LET mine == comparing[r].contexts
               theirs == comparing[q].contexts IN
           /\ Comparable(mine) <=> Comparable(theirs)
           /\ ContextScore(mine[1].content, mine[2].content)
                = ContextScore(theirs[1].content, theirs[2].content)
<1> DEFINE mine == comparing[r].contexts
           theirs == comparing[q].contexts
<1>1. /\ mine \in Seq(ReadContexts) /\ theirs \in Seq(ReadContexts) /\ Len(mine) = 2 /\ Len(theirs) = 2
      /\ \A i \in 1..2 : mine[i].stored /\ theirs[i].stored
  BY DEF FoundBoth, Reported, ResearchIInv, ResearchTypeOK, Comparisons
<1>2. \A i, j \in 1..2 :
        /\ comparing[r].pair[i] = comparing[q].pair[j] => mine[i].content = theirs[j].content
        /\ comparing[r].pair[i] = comparing[r].pair[j] => mine[i].content = mine[j].content
        /\ comparing[q].pair[i] = comparing[q].pair[j] => theirs[i].content = theirs[j].content
  <2>1. /\ \A i \in 1..2 : \E d \in rows :
              d.kind = "context" /\ d.key = comparing[r].pair[i] /\ mine[i].content = d.content
        /\ \A i \in 1..2 : \E d \in rows :
              d.kind = "context" /\ d.key = comparing[q].pair[i] /\ theirs[i].content = d.content
    BY <1>1 DEF ResearchIInv, Comparing, Under
  <2> HIDE DEF mine, theirs
  <2> QED BY <2>1 DEF ResearchIInv, OneToAKey
<1>3. \/ mine[1].content = theirs[1].content /\ mine[2].content = theirs[2].content
      \/ mine[1].content = theirs[2].content /\ mine[2].content = theirs[1].content
  <2>1. 1 \in 1..2 /\ 2 \in 1..2
    OBVIOUS
  <2> HIDE DEF mine, theirs
  <2>2. \/ comparing[r].pair[1] = comparing[q].pair[1] /\ comparing[r].pair[2] = comparing[q].pair[2]
        \/ comparing[r].pair[1] = comparing[q].pair[2] /\ comparing[r].pair[2] = comparing[q].pair[1]
    OBVIOUS
  <2> QED BY <1>2, <2>1, <2>2
<1>4. /\ Differing(mine[1].content, mine[2].content) = Differing(theirs[1].content, theirs[2].content)
      /\ ContextScore(mine[1].content, mine[2].content) = ContextScore(theirs[1].content, theirs[2].content)
  <2> HIDE DEF mine, theirs
  <2> QED BY <1>3, ScoreIsSymmetric
<1>5. DOMAIN mine = 1..2 /\ DOMAIN theirs = 1..2
  BY <1>1
<1> HIDE DEF mine, theirs
<1>6. Comparable(mine) <=> Comparable(theirs)
  BY <1>1, <1>4, <1>5 DEF Comparable
<1> QED BY <1>4, <1>6 DEF mine, theirs

(* Reports of the same recordings that have found both contexts agree, whoever asks
   for them and whatever is put in the meantime, and none misses a context that was
   known to be stored: contexts are put once and never replaced. *)
THEOREM ReportsStayInAgreement == ResearchSpec => []ReportsAgree
<1>1. ASSUME ResearchIInv, NEW r \in Researchers, Reported(r)
      PROVE  \A i \in 1..2 : comparing[r].pair[i] \in comparing[r].known => comparing[r].contexts[i].stored
  BY <1>1 DEF ResearchIInv, Comparing, Reported
<1>2. ResearchIInv => ReportsAgree
  BY <1>1, FoundAgree DEF ReportsAgree
<1> QED BY <1>2, ResearchInvariance, PTL


-----------------------------------------------------------------------------
(***************************************************************************)
(* CaptureTransfer, for any files, replaced as often as one likes, and     *)
(* batches, limits and recordings of any size.                             *)
(*                                                                         *)
(* An import that reads has the frames of its file in three places, one    *)
(* after another, and a step moves some from one to the next; an export    *)
(* has the beginning of its recording and looks at it no more.             *)
(***************************************************************************)
(* The order of the naturals is well founded, as a relation among others. *)
LEMMA LessThan == \E R : Order!IsWellFoundedOn(R, Nat) /\ \A i, j \in Nat : i < j => <<i, j>> \in R
<1> DEFINE R == Order!OpToRel(<, Nat)
<1>1. Order!IsWellFoundedOn(R, Nat)
  BY Order!NatLessThanWellFounded
<1>2. \A i, j \in Nat : i < j => <<i, j>> \in R
  BY DEF Order!OpToRel
<1> HIDE DEF R
<1> QED BY <1>1, <1>2

(* A set of naturals that is not empty has a least element. *)
LEMMA Least == ASSUME NEW T \in SUBSET Nat, NEW n \in T PROVE \E m \in T : \A k \in T : m <= k
<1>1. PICK R : Order!IsWellFoundedOn(R, Nat) /\ \A i, j \in Nat : i < j => <<i, j>> \in R
  BY LessThan
<1>2. \E x \in T : \A y \in T : ~(<<y, x>> \in R)
  <2>1. T \subseteq Nat /\ T # {} /\ Order!IsWellFoundedOn(R, Nat)
    BY <1>1
  <2> QED BY <2>1, Order!WFMin, Zenon
<1>3. PICK x \in T : \A y \in T : ~(<<y, x>> \in R)
  BY <1>2
<1>4. \A y \in T : x \in Nat /\ y \in Nat /\ ~(y < x)
  BY <1>1, <1>3
<1> QED BY <1>4

(* A set that has zero and the successor of each of its elements has them all. *)
LEMMA Induct ==
    ASSUME NEW S, 0 \in S, \A n \in Nat : n \in S => n + 1 \in S
    PROVE  Nat \subseteq S
<1> SUFFICES ASSUME NEW n \in Nat, n \notin S PROVE FALSE
  OBVIOUS
<1> DEFINE T == {k \in Nat : k \notin S}
<1>1. PICK m \in T : \A k \in T : m <= k
  BY Least
<1>2. m # 0 /\ m - 1 \in Nat
  BY <1>1
<1>3. m - 1 \in S
  BY <1>1, <1>2
<1>4. (m - 1) + 1 \in S
  BY <1>2, <1>3
<1> QED BY <1>1, <1>4


-----------------------------------------------------------------------------
(* What FlattenSeq computes one step of. *)
Flattens(q, f) == f = [i \in 1..Len(q) |-> IF i = 1 THEN q[i] ELSE f[i - 1] \o q[i]]

LEMMA FlattenFunction ==
    ASSUME NEW S, NEW q \in Seq(Seq(S)), Len(q) # 0
    PROVE  \E f : Flattens(q, f) /\ FlattenSeq(q) = f[Len(q)]
<1> DEFINE Step(f, i) == IF i = 1 THEN q[i] ELSE f[i - 1] \o q[i]
           Upto(m) == \E f : f = [i \in 1..m |-> Step(f, i)]
           N == {m \in Nat : Upto(m)}
<1>1. 0 \in N
  <2> DEFINE f == [i \in 1..0 |-> <<>>]
  <2>1. f = [i \in 1..0 |-> Step(f, i)]
    OBVIOUS
  <2> QED BY <2>1
<1>2. ASSUME NEW m \in Nat, m \in N PROVE m + 1 \in N
  <2>1. PICK f : f = [i \in 1..m |-> Step(f, i)]
    BY <1>2
  <2> DEFINE g == [i \in 1..m + 1 |-> IF i <= m THEN f[i] ELSE Step(f, i)]
  <2>2. \A i \in 1..m : f[i] = Step(f, i)
    BY <2>1
  <2>3. \A i \in 1..m : g[i] = f[i]
    OBVIOUS
  <2>4. \A i \in 1..m + 1 : Step(f, i) = Step(g, i)
    BY <2>3
  <2>5. \A i \in 1..m + 1 : g[i] = Step(g, i)
    BY <2>2, <2>4
  <2>6. g = [i \in 1..m + 1 |-> g[i]]
    OBVIOUS
  <2> HIDE DEF g
  <2>7. g = [i \in 1..m + 1 |-> Step(g, i)]
    BY <2>5, <2>6
  <2> HIDE DEF Step
  <2>8. Upto(m + 1)
    BY <2>7
  <2>9. m + 1 \in Nat
    OBVIOUS
  <2> HIDE DEF Upto
  <2> QED BY <2>8, <2>9
<1>3. Nat \subseteq N
  <2> HIDE DEF N
  <2> QED BY <1>1, <1>2, Induct
<1>4. \E f : Flattens(q, f)
  <2>1. Len(q) \in Nat
    OBVIOUS
  <2>2. Upto(Len(q))
    BY <1>3, <2>1
  <2> QED BY <2>2 DEF Flattens
<1>5. Flattens(q, CHOOSE f : Flattens(q, f))
  BY <1>4
<1>6. FlattenSeq(q) = (CHOOSE f : Flattens(q, f))[Len(q)]
  BY DEF FlattenSeq, Flattens
<1> QED BY <1>5, <1>6

(* Sequences one after another are a sequence. *)
LEMMA FlattenTyped ==
    ASSUME NEW S, NEW q \in Seq(Seq(S)) PROVE FlattenSeq(q) \in Seq(S)
<1>1. CASE Len(q) = 0
  <2>1. q = <<>>
    BY <1>1
  <2>2. FlattenSeq(q) = q
    BY <1>1 DEF FlattenSeq
  <2> HIDE DEF FlattenSeq
  <2>3. <<>> \in Seq(S)
    OBVIOUS
  <2> QED BY <2>1, <2>2, <2>3
<1>2. CASE Len(q) # 0
  <2>1. PICK f : Flattens(q, f) /\ FlattenSeq(q) = f[Len(q)]
    BY <1>2, FlattenFunction
  <2> DEFINE N == {m \in Nat : m + 1 <= Len(q) => f[m + 1] \in Seq(S)}
  <2>2. \A i \in 1..Len(q) : f[i] = IF i = 1 THEN q[i] ELSE f[i - 1] \o q[i]
    BY <2>1 DEF Flattens
  <2>3. \A i \in 1..Len(q) : q[i] \in Seq(S)
    OBVIOUS
  <2>4. 0 \in N
    <3>1. 1 \in 1..Len(q)
      BY <1>2
    <3> QED BY <2>2, <2>3, <3>1
  <2>5. ASSUME NEW m \in Nat, m \in N PROVE m + 1 \in N
    <3> SUFFICES ASSUME (m + 1) + 1 <= Len(q) PROVE f[(m + 1) + 1] \in Seq(S)
      OBVIOUS
    <3>1. (m + 1) + 1 \in 1..Len(q) /\ (m + 1) + 1 # 1 /\ ((m + 1) + 1) - 1 = m + 1
      OBVIOUS
    <3>2. f[(m + 1) + 1] = f[m + 1] \o q[(m + 1) + 1]
      BY <2>2, <3>1
    <3>3. f[m + 1] \in Seq(S) /\ q[(m + 1) + 1] \in Seq(S)
      BY <2>3, <2>5, <3>1
    <3> HIDE DEF N
    <3> QED BY <3>2, <3>3
  <2>6. Nat \subseteq N
    <3> HIDE DEF N
    <3> QED BY <2>4, <2>5, Induct
  <2>7. Len(q) - 1 \in Nat /\ (Len(q) - 1) + 1 = Len(q)
    BY <1>2
  <2>8. f[(Len(q) - 1) + 1] \in Seq(S)
    BY <2>6, <2>7
  <2> QED BY <2>1, <2>7, <2>8
<1> QED BY <1>1, <1>2

-----------------------------------------------------------------------------
(* What a row of an importable group becomes is a frame that is one. *)
LEMMA RowFrame == ASSUME NEW row \in Row PROVE FrameOfRow(row) = Broken \/ ValidFrame(FrameOfRow(row))
<1> SUFFICES ASSUME FrameOfRow(row) # Broken PROVE ValidFrame(FrameOfRow(row))
  OBVIOUS
<1> DEFINE f == FrameOfRow(row)
<1>1. /\ row.half \in Int /\ row.length \in Nat /\ row.bytes \in Seq(Nat) /\ row.edl \in BOOLEAN
      /\ row.ide \in BOOLEAN
  BY DEF Row
<1>2. /\ row.ide \/ row.id % 8 <= StandardTop
      /\ IF row.edl THEN row.length \in LegalFdLengths ELSE row.length <= ClassicBytes
      /\ Len(row.bytes) >= row.length /\ row.half >= 0
      /\ f = [ts |-> StampOf(row.half), bus |-> row.bus, id |-> row.id % 8, extended |-> row.ide,
              fd |-> row.edl, brs |-> row.edl /\ row.brs, esi |-> row.edl /\ row.esi, rtr |-> FALSE,
              error |-> FALSE, direction |-> Direction(row.dir), data |-> SubSeq(row.bytes, 1, row.length)]
  BY Zenon DEF FrameOfRow
<1>3. /\ f.ts = StampOf(row.half) /\ f.id = row.id % 8 /\ f.extended = row.ide /\ f.fd = row.edl
      /\ f.brs = (row.edl /\ row.brs) /\ f.esi = (row.edl /\ row.esi) /\ f.rtr = FALSE
      /\ f.direction = Direction(row.dir) /\ f.data = SubSeq(row.bytes, 1, row.length)
  <2> HIDE DEF f
  <2> QED BY <1>2
<1> HIDE DEF f
<1>4. StampOf(row.half) >= 0
  <2>1. row.half \in Nat /\ row.half \div 2 \in Nat
    BY <1>1, <1>2
  <2> QED BY <2>1 DEF StampOf
<1>5. Direction(row.dir) \in {"rx", "tx", "unknown"}
  BY DEF Direction
<1>6. Len(f.data) = row.length
  BY <1>1, <1>2, <1>3
<1>7. f.extended \/ f.id <= StandardTop
  BY <1>2, <1>3, Zenon
<1>8. IF f.fd THEN Len(f.data) \in LegalFdLengths /\ ~f.rtr
              ELSE Len(f.data) <= ClassicBytes /\ ~f.brs /\ ~f.esi
  BY <1>1, <1>2, <1>3, <1>6, Zenon
<1>9. ValidFrame(f)
  BY <1>3, <1>4, <1>5, <1>7, <1>8, Zenon DEF ValidFrame
<1> QED BY <1>9 DEF f

-----------------------------------------------------------------------------
AnyFile == SourceFiles \cup {NotThere}

(* What a reader of any of the files may come upon. *)
ReadFrom(file, i) ==
    LET frames == FramesIn(file, file.groups[i]) IN {frames[k] : k \in DOMAIN frames}
Samples ==
    {Broken} \cup UNION {UNION {ReadFrom(file, i) : i \in DOMAIN file.groups} : file \in SourceFiles}

LEMMA FileIsTyped ==
    ASSUME NEW file \in SourceFiles
    PROVE  /\ file.groups \in Seq({file.groups[i] : i \in DOMAIN file.groups})
           /\ \A i \in DOMAIN file.groups :
                 LET given == file.groups[i].rows
                 IN  /\ given \in Seq({given[k] : k \in DOMAIN given})
                     /\ file.kind = "mf4" => given \in Seq(Row)
  BY FilesAssumption DEF IsSequence

LEMMA FramesInTyped ==
    ASSUME NEW file \in SourceFiles, NEW i \in DOMAIN file.groups
    PROVE  LET frames == FramesIn(file, file.groups[i])
           IN  /\ frames \in Seq({frames[k] : k \in DOMAIN frames})
               /\ \A k \in DOMAIN frames : frames[k] = Broken \/ ValidFrame(frames[k])
<1> DEFINE group == file.groups[i]
           given == group.rows
           frames == FramesIn(file, group)
<1>1. given \in Seq({given[k] : k \in DOMAIN given}) /\ (file.kind = "mf4" => given \in Seq(Row))
  BY FileIsTyped
<1>2. Len(given) \in Nat /\ DOMAIN given = 1..Len(given)
  BY <1>1
<1>3. CASE ~Imported(file, group)
  <2>1. frames = <<>>
    BY <1>3 DEF FramesIn, Imported
  <2> HIDE DEF frames
  <2>2. frames \in Seq({frames[k] : k \in DOMAIN frames}) /\ DOMAIN frames = {}
    BY <2>1
  <2> QED BY <2>2 DEF frames
<1>4. CASE Imported(file, group) /\ file.kind = "parquet"
  <2>1. frames = [k \in DOMAIN given |-> IF ValidFrame(given[k]) THEN given[k] ELSE Broken]
    BY <1>4 DEF FramesIn, ParquetFrames
  <2> HIDE DEF frames, given
  <2>2. DOMAIN frames = 1..Len(given) /\ \A k \in DOMAIN frames : frames[k] = Broken \/ ValidFrame(frames[k])
    BY <1>2, <2>1, Zenon
  <2>3. frames = [k \in 1..Len(given) |-> frames[k]]
    BY <1>2, <2>1
  <2>4. frames \in Seq({frames[k] : k \in DOMAIN frames})
    BY <1>2, <2>2, <2>3
  <2> QED BY <2>2, <2>4 DEF frames
<1>5. CASE Imported(file, group) /\ file.kind # "parquet"
  <2>1. frames = [k \in DOMAIN given |-> FrameOfRow(given[k])]
    BY <1>5 DEF FramesIn
  <2>2. given \in Seq(Row)
    BY <1>1, <1>5 DEF Imported
  <2> HIDE DEF frames, given
  <2>3. DOMAIN frames = 1..Len(given) /\ \A k \in DOMAIN frames : frames[k] = Broken \/ ValidFrame(frames[k])
    <3>1. \A k \in DOMAIN given : given[k] \in Row
      BY <2>2
    <3> QED BY <1>2, <2>1, <3>1, RowFrame, Zenon
  <2>4. frames = [k \in 1..Len(given) |-> frames[k]]
    BY <1>2, <2>1
  <2>5. frames \in Seq({frames[k] : k \in DOMAIN frames})
    BY <1>2, <2>3, <2>4
  <2> QED BY <2>3, <2>5 DEF frames
<1> QED BY <1>3, <1>4, <1>5

LEMMA SampleIsFrame == ASSUME NEW f \in Samples, f # Broken PROVE ValidFrame(f)
<1>1. PICK file \in SourceFiles : \E i \in DOMAIN file.groups : f \in ReadFrom(file, i)
  BY DEF Samples
<1>2. PICK i \in DOMAIN file.groups : f \in ReadFrom(file, i)
  BY <1>1
<1> QED BY <1>2, FramesInTyped, Zenon DEF ReadFrom

LEMMA FramesTyped == ASSUME NEW file \in AnyFile PROVE FramesOf(file) \in Seq(Samples)
<1> DEFINE q == [i \in DOMAIN file.groups |-> FramesIn(file, file.groups[i])]
<1>1. CASE file \in SourceFiles
  <2>1. Len(file.groups) \in Nat /\ DOMAIN file.groups = 1..Len(file.groups)
    BY <1>1, FileIsTyped
  <2>2. \A i \in DOMAIN file.groups : FramesIn(file, file.groups[i]) \in Seq(Samples)
    <3> SUFFICES ASSUME NEW i \in DOMAIN file.groups PROVE FramesIn(file, file.groups[i]) \in Seq(Samples)
      OBVIOUS
    <3> DEFINE frames == FramesIn(file, file.groups[i])
    <3>1. frames \in Seq({frames[k] : k \in DOMAIN frames})
      BY <1>1, FramesInTyped
    <3>2. ReadFrom(file, i) \subseteq Samples
      BY <1>1 DEF Samples
    <3>3. ReadFrom(file, i) = {frames[k] : k \in DOMAIN frames}
      BY DEF ReadFrom
    <3> HIDE DEF frames
    <3>4. frames \in Seq(Samples)
      BY <3>1, <3>2, <3>3
    <3> QED BY <3>4 DEF frames
  <2>3. q \in Seq(Seq(Samples))
    BY <2>1, <2>2
  <2> HIDE DEF q
  <2>4. FlattenSeq(q) \in Seq(Samples)
    BY <2>3, FlattenTyped
  <2> QED BY <2>4 DEF FramesOf, q
<1>2. CASE file = NotThere
  <2>1. file.groups = <<>>
    BY <1>2 DEF NotThere
  <2>2. q = <<>>
    BY <2>1
  <2>3. q \in Seq(Seq(Samples))
    BY <2>2
  <2> HIDE DEF q
  <2>4. FlattenSeq(q) \in Seq(Samples)
    BY <2>3, FlattenTyped
  <2> QED BY <2>4 DEF FramesOf, q
<1> QED BY <1>1, <1>2 DEF AnyFile

-----------------------------------------------------------------------------
PrefixOf(s, t) == Len(s) <= Len(t) /\ \A i \in DOMAIN s : s[i] = t[i]

LEMMA PrefixIs ==
    ASSUME NEW s \in Seq(Samples), NEW t \in Seq(Samples), PrefixOf(s, t)
    PROVE  IsPrefix(s, t)
<1>1. s = SubSeq(t, 1, Len(s))
  <2>1. SubSeq(t, 1, Len(s)) \in Seq(Samples) /\ Len(SubSeq(t, 1, Len(s))) = Len(s)
    BY DEF PrefixOf
  <2>2. \A i \in 1..Len(s) : SubSeq(t, 1, Len(s))[i] = s[i]
    BY DEF PrefixOf
  <2> QED BY <2>1, <2>2, SeqEqual
<1> QED BY <1>1 DEF IsPrefix, PrefixOf

Recording ==
    [expected : Nat, all : Seq(Samples), rows : Seq(Samples), saved : Nat,
     state : {"open", "complete", "incomplete"}, swapped : BOOLEAN]

Importer == [pc : {"idle", "inspected", "reading"}, left : Seq(Samples), batch : Seq(Samples)]
Exporter ==
    [pc : {"idle", "writing"}, of : Nat, frames : Seq(Samples), written : Seq(Samples)]

TransferTypeOK ==
    /\ source \in AnyFile
    /\ captures \in Seq(Recording)
    /\ importer \in Importer
    /\ exporting \in Exporter
    /\ target \in {NoFile} \cup [of : Nat, frames : Seq(Samples)]

(* What a recording says of itself. *)
Sound(c) ==
    /\ c.saved <= Len(c.rows)
    /\ PrefixOf(c.rows, c.all)
    /\ \A i \in DOMAIN c.rows : c.rows[i] # Broken
    /\ c.state = "complete" => Len(c.rows) = Len(c.all) /\ (~c.swapped => Len(c.rows) = c.expected)

(* An import that is reading has the frames of its file in three places, one after
   another: the rows it has appended, its batch, and what is left. *)
Reading(c, batch, left) ==
    /\ c.all = (c.rows \o batch) \o left
    /\ \A i \in DOMAIN batch : batch[i] # Broken
    /\ ~c.swapped => c.expected = Len(c.all)
Importing ==
    /\ importer.pc # "idle" => captures # <<>> /\ captures[Current].state = "open"
    /\ importer.pc = "inspected" =>
          /\ captures[Current].all = <<>> /\ captures[Current].rows = <<>>
          /\ ~captures[Current].swapped => captures[Current].expected = Expected(source)
    /\ importer.pc = "reading" => Reading(captures[Current], importer.batch, importer.left)

(* An export has the first so many frames of its recording. *)
Exported ==
    /\ exporting.pc = "writing" =>
          exporting.of \in DOMAIN captures /\ PrefixOf(exporting.frames, captures[exporting.of].all)
    /\ target # NoFile =>
          target.of \in DOMAIN captures /\ PrefixOf(target.frames, captures[target.of].all)

TransferIInv ==
    TransferTypeOK /\ (\A rid \in DOMAIN captures : Sound(captures[rid])) /\ Importing /\ Exported

-----------------------------------------------------------------------------
(* Recordings that are sound, and whose streams are those of before or new. *)
Grown(recordings) ==
    /\ recordings \in Seq(Recording)
    /\ \A rid \in DOMAIN recordings : Sound(recordings[rid])
    /\ \A rid \in DOMAIN captures :
          /\ rid \in DOMAIN recordings
          /\ captures[rid].all = <<>> \/ recordings[rid].all = captures[rid].all

LEMMA CurrentChanges ==
    ASSUME TransferIInv, captures # <<>>, NEW c \in Recording, Sound(c),
           captures[Current].all = <<>> \/ c.all = captures[Current].all
    PROVE  LET recordings == [captures EXCEPT ![Current] = c]
           IN  Grown(recordings) /\ Len(recordings) = Current /\ recordings[Current] = c
<1> DEFINE recordings == [captures EXCEPT ![Current] = c]
<1>1. captures \in Seq(Recording) /\ Current \in Nat \ {0} /\ DOMAIN captures = 1..Current
  BY DEF TransferIInv, TransferTypeOK, Current
<1>2. Current \in DOMAIN captures
  BY <1>1
<1>3. DOMAIN recordings = 1..Current /\ recordings[Current] = c
      /\ \A rid \in DOMAIN captures : rid # Current => recordings[rid] = captures[rid]
  BY <1>1, <1>2
<1>4. recordings \in Seq(Recording) /\ Len(recordings) = Current
  BY <1>1, <1>2
<1> HIDE DEF recordings
<1>5. \A rid \in DOMAIN recordings : Sound(recordings[rid])
  BY <1>1, <1>3, Zenon DEF TransferIInv
<1>6. \A rid \in DOMAIN captures : captures[rid].all = <<>> \/ recordings[rid].all = captures[rid].all
  BY <1>3, Zenon
<1> QED BY <1>1, <1>3, <1>4, <1>5, <1>6 DEF Grown, recordings

LEMMA PrefixStays ==
    ASSUME NEW s \in Seq(Samples), NEW t \in Seq(Samples), NEW u \in Seq(Samples),
           PrefixOf(s, t), t = <<>> \/ u = t
    PROVE  PrefixOf(s, u)
  BY DEF PrefixOf

LEMMA ExportedStays ==
    ASSUME TransferIInv, Grown(captures'), UNCHANGED <<exporting, target>>
    PROVE  Exported'
<1>1. captures \in Seq(Recording) /\ captures' \in Seq(Recording)
  BY DEF TransferIInv, TransferTypeOK, Grown
<1>2. ASSUME NEW rid \in DOMAIN captures, NEW s \in Seq(Samples), PrefixOf(s, captures[rid].all)
      PROVE  rid \in DOMAIN captures' /\ PrefixOf(s, captures'[rid].all)
  <2>1. rid \in DOMAIN captures' /\ (captures[rid].all = <<>> \/ captures'[rid].all = captures[rid].all)
    BY DEF Grown
  <2>2. captures[rid] \in Recording /\ captures'[rid] \in Recording
    BY <1>1, <2>1
  <2>3. captures[rid].all \in Seq(Samples) /\ captures'[rid].all \in Seq(Samples)
    BY <2>2 DEF Recording
  <2> QED BY <1>2, <2>1, <2>3, PrefixStays
<1>3. exporting.frames \in Seq(Samples) /\ (target # NoFile => target.frames \in Seq(Samples))
  BY DEF TransferIInv, TransferTypeOK, Exporter, NoFile
<1> QED BY <1>2, <1>3 DEF TransferIInv, Exported

-----------------------------------------------------------------------------
(* The recording of an import, and its parts. *)
LEMMA CurrentIs ==
    ASSUME TransferIInv, importer.pc # "idle"
    PROVE  /\ captures \in Seq(Recording) /\ captures # <<>> /\ Current \in DOMAIN captures
           /\ captures[Current] \in Recording /\ Sound(captures[Current])
           /\ captures[Current].state = "open"
<1>1. captures \in Seq(Recording) /\ captures # <<>> /\ captures[Current].state = "open"
  BY DEF TransferIInv, TransferTypeOK, Importing
<1>2. Current \in DOMAIN captures
  BY <1>1 DEF Current
<1>3. captures[Current] \in Recording
  BY <1>1, <1>2
<1> QED BY <1>1, <1>2, <1>3 DEF TransferIInv

LEMMA ImportGoesOn ==
    ASSUME TransferIInv, Grown(captures'), importer' \in Importer, Importing',
           source' \in SourceFiles \cup {source}, UNCHANGED <<exporting, target>>
    PROVE  TransferIInv'
<1>1. Exported'
  BY ExportedStays
<1>2. TransferTypeOK'
  BY DEF TransferIInv, TransferTypeOK, Grown, AnyFile
<1>3. \A rid \in DOMAIN captures' : Sound(captures'[rid])
  BY DEF Grown
<1> QED BY <1>1, <1>2, <1>3 DEF TransferIInv, Sound

LEMMA ImportEnds ==
    ASSUME TransferIInv, Grown(captures'), importer' = ImportRests,
           UNCHANGED <<source, exporting, target>>
    PROVE  TransferIInv'
<1>1. importer' \in Importer /\ importer'.pc = "idle"
  BY DEF ImportRests, Importer
<1>2. Importing'
  BY <1>1 DEF Importing
<1> QED BY <1>1, <1>2, ImportGoesOn

LEMMA ImportBegins ==
    ASSUME NEW frames \in Seq(Samples)
    PROVE  LET begun == [ImportRests EXCEPT !.pc = "reading", !.left = frames]
           IN  begun \in Importer /\ begun.pc = "reading" /\ begun.left = frames /\ begun.batch = <<>>
<1> DEFINE begun == [ImportRests EXCEPT !.pc = "reading", !.left = frames]
<1>1. begun = [pc |-> "reading", left |-> frames, batch |-> <<>>]
  <2>1. ImportRests = [pc |-> "idle", left |-> <<>>, batch |-> <<>>]
    BY DEF ImportRests
  <2> HIDE DEF ImportRests
  <2>2. DOMAIN begun = {"pc", "left", "batch"}
    BY <2>1
  <2>3. begun.pc = "reading" /\ begun.left = frames /\ begun.batch = <<>>
    BY <2>1
  <2>4. begun = [x \in {"pc", "left", "batch"} |-> begun[x]]
    BY <2>1, <2>2
  <2> HIDE DEF begun
  <2> QED BY <2>3, <2>4
<1> HIDE DEF begun
<1>2. begun \in Importer /\ begun.pc = "reading" /\ begun.left = frames /\ begun.batch = <<>>
  BY <1>1 DEF Importer
<1> QED BY <1>2 DEF begun

(* Whatever goes wrong, the recording ends with the rows it has. *)
LEMMA StoppedIncomplete ==
    ASSUME TransferIInv, importer.pc # "idle" PROVE Grown(StoppedAs(captures, "incomplete"))
<1> DEFINE c == captures[Current]
           d == [c EXCEPT !.state = "incomplete", !.saved = Len(c.rows)]
<1>1. /\ captures \in Seq(Recording) /\ captures # <<>> /\ Current \in DOMAIN captures
      /\ c \in Recording /\ Sound(c)
  BY CurrentIs
<1> HIDE DEF c
<1>2. d \in Recording /\ d.rows = c.rows /\ d.all = c.all /\ d.state = "incomplete" /\ d.saved = Len(c.rows)
  <2>1. Len(c.rows) \in Nat /\ DOMAIN c = {"expected", "all", "rows", "saved", "state", "swapped"}
    BY <1>1 DEF Recording
  <2>2. d.rows = c.rows /\ d.all = c.all /\ d.state = "incomplete" /\ d.saved = Len(c.rows)
    BY <2>1
  <2>3. d \in Recording
    BY <1>1, <2>1 DEF Recording
  <2> QED BY <2>2, <2>3
<1> HIDE DEF d
<1>3. Sound(d)
  <2>1. c.rows \in Seq(Samples)
    BY <1>1 DEF Recording
  <2> QED BY <1>1, <1>2, <2>1 DEF Sound
<1>4. StoppedAs(captures, "incomplete") = [captures EXCEPT ![Current] = d]
  BY <1>1 DEF StoppedAs, c, d
<1>5. Grown([captures EXCEPT ![Current] = d])
  BY <1>1, <1>2, <1>3, CurrentChanges DEF c
<1> QED BY <1>4, <1>5

LEMMA StartImportKeeps == ASSUME TransferIInv, StartImport PROVE TransferIInv'
<1> DEFINE r == [expected |-> Expected(source), all |-> <<>>, rows |-> <<>>, saved |-> 0,
                 state |-> "open", swapped |-> FALSE]
<1>1. captures \in Seq(Recording) /\ source \in AnyFile
  BY DEF TransferIInv, TransferTypeOK
<1>2. r \in Recording /\ r.all = <<>> /\ r.rows = <<>> /\ r.saved = 0 /\ r.state = "open"
      /\ r.expected = Expected(source)
  <2>1. Expected(source) \in Nat
    BY <1>1, FramesTyped DEF Expected
  <2> QED BY <2>1 DEF Recording
<1>3. /\ captures' = Append(captures, r) /\ importer' = [ImportRests EXCEPT !.pc = "inspected"]
      /\ UNCHANGED <<source, exporting, target>>
  BY DEF StartImport
<1> HIDE DEF r
<1>4. Sound(r)
  BY <1>2 DEF Sound, PrefixOf
<1>5. captures' \in Seq(Recording) /\ Len(captures') = Len(captures) + 1 /\ captures' # <<>>
      /\ captures'[Len(captures')] = r
      /\ \A rid \in 1..Len(captures) : captures'[rid] = captures[rid]
  BY <1>1, <1>2, <1>3
<1>6. Grown(captures')
  <2>1. DOMAIN captures = 1..Len(captures) /\ DOMAIN captures' = 1..Len(captures) + 1
    BY <1>1, <1>5
  <2>2. \A rid \in DOMAIN captures' : rid \in DOMAIN captures \/ rid = Len(captures')
    BY <1>1, <1>5, <2>1
  <2>3. \A rid \in DOMAIN captures' : Sound(captures'[rid])
    BY <1>4, <1>5, <2>1, <2>2, Zenon DEF TransferIInv
  <2> QED BY <1>1, <1>5, <2>1, <2>3 DEF Grown
<1>7. importer' \in Importer /\ importer'.pc = "inspected"
  <2>1. importer' = [pc |-> "inspected", left |-> <<>>, batch |-> <<>>]
    BY <1>3 DEF ImportRests
  <2> QED BY <2>1 DEF Importer
<1>8. Importing'
  BY <1>2, <1>3, <1>5, <1>7 DEF Importing, Current
<1> QED BY <1>3, <1>6, <1>7, <1>8, ImportGoesOn

LEMMA OpenSourceKeeps == ASSUME TransferIInv, OpenSource PROVE TransferIInv'
<1>1. CASE ~Readable(source)
  BY <1>1, ImportEnds, StoppedIncomplete DEF OpenSource
<1>2. CASE Readable(source)
  <2> DEFINE c == captures[Current]
             frames == FramesOf(source)
             d == [c EXCEPT !.all = frames]
  <2>1. /\ captures \in Seq(Recording) /\ captures # <<>> /\ Current \in DOMAIN captures
        /\ c \in Recording /\ Sound(c) /\ c.state = "open"
    BY CurrentIs DEF OpenSource
  <2>2. /\ c.all = <<>> /\ c.rows = <<>>
        /\ ~c.swapped => c.expected = Expected(source)
    BY DEF OpenSource, TransferIInv, Importing
  <2>3. frames \in Seq(Samples)
    BY FramesTyped DEF TransferIInv, TransferTypeOK
  <2>4. /\ captures' = [captures EXCEPT ![Current].all = frames]
        /\ importer' = [ImportRests EXCEPT !.pc = "reading", !.left = frames]
        /\ UNCHANGED <<source, exporting, target>>
    BY <1>2 DEF OpenSource
  <2> HIDE DEF frames
  <2>5. captures' = [captures EXCEPT ![Current] = d]
    BY <2>1, <2>4
  <2> HIDE DEF c
  <2>6. d \in Recording /\ d.all = frames /\ d.rows = <<>> /\ d.state = "open" /\ d.saved = c.saved
        /\ d.expected = c.expected /\ d.swapped = c.swapped
    BY <2>1, <2>2, <2>3 DEF Recording
  <2> HIDE DEF d
  <2>7. Sound(d)
    BY <2>1, <2>2, <2>3, <2>6 DEF Sound, PrefixOf
  <2>8. Grown(captures') /\ Len(captures') = Current /\ captures'[Current] = d
    BY <2>1, <2>2, <2>5, <2>6, <2>7, CurrentChanges DEF c
  <2>9. /\ importer' \in Importer /\ importer'.pc = "reading"
        /\ importer'.left = frames /\ importer'.batch = <<>>
    BY <2>3, <2>4, ImportBegins
  <2>10. Reading(d, <<>>, frames)
    <3>1. (<<>> \o <<>>) \o frames = frames
      BY <2>3
    <3> QED BY <2>2, <2>6, <3>1 DEF Reading, Expected, frames
  <2>11. Len(captures') = Len(captures) /\ captures'[Len(captures')] = d /\ captures' # <<>>
    BY <2>1, <2>8 DEF Current, Grown
  <2>12. Importing'
    BY <2>6, <2>9, <2>10, <2>11 DEF Importing, Current
  <2> QED BY <2>4, <2>8, <2>9, <2>12, ImportGoesOn
<1> QED BY <1>1, <1>2

-----------------------------------------------------------------------------
(* The import reads on: the next frame goes to the batch, the batch to the rows. *)
LEMMA Regrouped == \A s, t, u \in Seq(Samples) : (s \o t) \o u = s \o (t \o u)
  BY ConcatAssociative

LEMMA FrameTaken ==
    ASSUME NEW c \in Recording, NEW batch \in Seq(Samples), NEW left \in Seq(Samples),
           Reading(c, batch, left), left # <<>>, Head(left) # Broken
    PROVE  Reading(c, Append(batch, Head(left)), Tail(left))
<1> DEFINE next == Head(left)
           more == Append(batch, next)
<1>1. next \in Samples /\ Tail(left) \in Seq(Samples) /\ c.rows \in Seq(Samples)
  BY HeadTailProperties DEF Recording
<1>2. left = <<next>> \o Tail(left)
  <2>1. Len(left) \in Nat \ {0} /\ Len(Tail(left)) = Len(left) - 1
    BY HeadTailProperties, EmptySeq
  <2>2. \A i \in 1..Len(left) : left[i] = (<<next>> \o Tail(left))[i]
    BY <1>1, <2>1
  <2>3. Len(<<next>> \o Tail(left)) = Len(left) /\ <<next>> \o Tail(left) \in Seq(Samples)
    BY <1>1, <2>1
  <2> QED BY <2>2, <2>3, SeqEqual
<1>3. more = batch \o <<next>> /\ more \in Seq(Samples)
  BY <1>1, AppendIsConcat
<1>4. <<next>> \in Seq(Samples)
  BY <1>1
<1>5. \A i \in DOMAIN more : more[i] # Broken
  <2>1. DOMAIN more = 1..Len(batch) + 1 /\ more[Len(batch) + 1] = next
        /\ \A i \in 1..Len(batch) : more[i] = batch[i]
    BY <1>1
  <2>2. \A i \in 1..Len(batch) : batch[i] # Broken
    BY DEF Reading
  <2>3. \A i \in 1..Len(batch) + 1 : i \in 1..Len(batch) \/ i = Len(batch) + 1
    BY LenProperties
  <2> QED BY <2>1, <2>2, <2>3, Zenon
<1> HIDE DEF next, more
<1>6. c.rows \o batch \in Seq(Samples)
  BY <1>1
<1>7. (c.rows \o more) \o Tail(left) = (c.rows \o batch) \o left
  <2>1. c.rows \o more = (c.rows \o batch) \o <<next>>
    <3> DEFINE taken == c.rows  one == <<next>>
    <3>1. taken \in Seq(Samples) /\ batch \in Seq(Samples) /\ one \in Seq(Samples)
      BY <1>1, <1>4
    <3> HIDE DEF taken, one
    <3> DEFINE join(s, t) == s \o t
    <3>2. \A s, t, u \in Seq(Samples) : join(join(s, t), u) = join(s, join(t, u))
      BY Regrouped, Zenon
    <3>3. more = join(batch, one)
      BY <1>3, <3>1 DEF one
    <3> HIDE DEF join
    <3>4. join(taken, more) = join(join(taken, batch), one)
      BY <3>1, <3>2, <3>3
    <3> QED BY <3>4, Zenon DEF taken, one, join
  <2>2. (c.rows \o more) \o Tail(left) = (c.rows \o batch) \o (<<next>> \o Tail(left))
    <3> DEFINE read == c.rows \o batch  one == <<next>>  rest == Tail(left)
    <3>1. read \in Seq(Samples) /\ one \in Seq(Samples) /\ rest \in Seq(Samples)
      BY <1>1, <1>4, <1>6
    <3> HIDE DEF read, one, rest
    <3> DEFINE join(s, t) == s \o t
    <3>2. \A s, t, u \in Seq(Samples) : join(join(s, t), u) = join(s, join(t, u))
      BY Regrouped, Zenon
    <3> HIDE DEF join
    <3>3. join(join(read, one), rest) = join(read, join(one, rest))
      BY <3>1, <3>2
    <3> QED BY <2>1, <3>3, Zenon DEF read, one, rest, join
  <2> QED BY <1>2, <2>2
<1>8. Reading(c, more, Tail(left))
  BY <1>5, <1>7 DEF Reading
<1> QED BY <1>8 DEF more, next

WithRows(c, joined, saved) == [c EXCEPT !.rows = joined, !.saved = saved]

LEMMA BatchAppended ==
    ASSUME NEW c \in Recording, NEW batch \in Seq(Samples), NEW left \in Seq(Samples),
           Sound(c), c.state = "open", Reading(c, batch, left),
           NEW saved \in Nat, saved <= Len(c.rows) + Len(batch)
    PROVE  LET d == WithRows(c, c.rows \o batch, saved)
           IN  /\ d \in Recording /\ Sound(d) /\ d.all = c.all /\ d.state = "open"
               /\ d.rows = c.rows \o batch
               /\ Reading(d, <<>>, left)
<1> DEFINE joined == c.rows \o batch
           d == WithRows(c, joined, saved)
<1>1. /\ c.rows \in Seq(Samples) /\ c.all \in Seq(Samples)
      /\ DOMAIN c = {"expected", "all", "rows", "saved", "state", "swapped"}
  BY DEF Recording
<1>2. /\ joined \in Seq(Samples) /\ Len(joined) = Len(c.rows) + Len(batch)
      /\ \A i \in 1..Len(joined) : joined[i] = IF i <= Len(c.rows) THEN c.rows[i] ELSE batch[i - Len(c.rows)]
  BY <1>1
<1> HIDE DEF joined
<1>3. d.rows = joined /\ d.saved = saved /\ d.all = c.all /\ d.state = "open" /\ d.expected = c.expected
      /\ d.swapped = c.swapped
  BY <1>1 DEF WithRows
<1>4. d \in Recording
  BY <1>1, <1>2 DEF Recording, WithRows
<1> HIDE DEF d
<1>5. c.all = joined \o left
  BY DEF Reading, joined
<1>6. PrefixOf(joined, c.all)
  BY <1>2, <1>5, ConcatProperties DEF PrefixOf
<1>7. \A i \in DOMAIN joined : joined[i] # Broken
  <2> SUFFICES ASSUME NEW i \in 1..Len(joined) PROVE joined[i] # Broken
    BY <1>2
  <2>1. CASE i <= Len(c.rows)
    BY <1>1, <1>2, <2>1 DEF Sound
  <2>2. CASE ~(i <= Len(c.rows))
    <3>1. i - Len(c.rows) \in DOMAIN batch
      BY <1>1, <1>2, <2>2
    <3> QED BY <1>2, <2>2, <3>1 DEF Reading
  <2> QED BY <2>1, <2>2
<1>8. Sound(d)
  <2>1. saved <= Len(joined)
    BY <1>2
  <2> QED BY <1>3, <1>6, <1>7, <2>1 DEF Sound
<1>9. Reading(d, <<>>, left)
  <2>1. joined \o <<>> = joined
    BY <1>2, ConcatEmptySeq
  <2>2. \A i \in DOMAIN <<>> : <<>>[i] # Broken
    OBVIOUS
  <2> QED BY <1>3, <1>5, <2>1, <2>2 DEF Reading
<1> QED BY <1>3, <1>4, <1>8, <1>9 DEF d, joined

LEMMA GrownItself == ASSUME TransferIInv PROVE Grown(captures)
  BY DEF TransferIInv, TransferTypeOK, Grown

Moved(moved, left, batch) == moved = [importer EXCEPT !.left = left, !.batch = batch]

LEMMA ImporterMoves ==
    ASSUME importer \in Importer, NEW left \in Seq(Samples), NEW batch \in Seq(Samples),
           NEW moved, Moved(moved, left, batch)
    PROVE  /\ moved \in Importer /\ moved.pc = importer.pc
           /\ moved.left = left /\ moved.batch = batch
<1>1. DOMAIN importer = {"pc", "left", "batch"} /\ importer.pc \in {"idle", "inspected", "reading"}
  BY DEF Importer
<1>2. DOMAIN moved = {"pc", "left", "batch"}
  BY <1>1 DEF Moved
<1>3. moved.pc = importer.pc /\ moved.left = left /\ moved.batch = batch
  BY <1>1 DEF Moved
<1>4. moved \in Importer
  BY <1>1 DEF Importer, Moved
<1> QED BY <1>3, <1>4

LEMMA ReadFrameKeeps == ASSUME TransferIInv, ReadFrame PROVE TransferIInv'
<1> DEFINE c == captures[Current]
           batch == importer.batch
           left == importer.left
           more == Append(batch, Head(left))
<1>1. importer.pc = "reading" /\ left # <<>> /\ UNCHANGED <<source, exporting, target>>
  BY DEF ReadFrame
<1>2. CASE importer' = ImportRests /\ captures' = StoppedAs(captures, "incomplete")
  BY <1>1, <1>2, ImportEnds, StoppedIncomplete
<1>3. CASE /\ Head(left) # Broken
           /\ importer' = [importer EXCEPT !.left = Tail(@),
                                           !.batch = IF Len(more) < BatchSize THEN more ELSE <<>>]
           /\ \E now \in BOOLEAN :
                 captures' = IF Len(more) < BatchSize THEN captures ELSE WithBatch(more, now)
  <2>1. /\ captures \in Seq(Recording) /\ captures # <<>> /\ Current \in DOMAIN captures
        /\ c \in Recording /\ Sound(c) /\ c.state = "open"
    BY <1>1, CurrentIs
  <2>2. importer \in Importer /\ batch \in Seq(Samples) /\ left \in Seq(Samples)
    BY DEF TransferIInv, TransferTypeOK, Importer
  <2>3. Reading(c, batch, left)
    BY <1>1 DEF TransferIInv, Importing
  <2>4. more \in Seq(Samples) /\ Tail(left) \in Seq(Samples)
    BY <1>1, <2>2
  <2>5. Reading(c, more, Tail(left))
    BY <1>1, <1>3, <2>1, <2>2, <2>3, FrameTaken
  <2>6. importer' \in Importer /\ importer'.pc = "reading" /\ importer'.left = Tail(left)
        /\ importer'.batch = IF Len(more) < BatchSize THEN more ELSE <<>>
    <3> DEFINE rest == IF Len(more) < BatchSize THEN more ELSE <<>>
               tail == Tail(left)
    <3>1. rest \in Seq(Samples) /\ tail \in Seq(Samples)
      BY <2>4
    <3>2. Moved(importer', tail, rest)
      BY <1>3 DEF Moved
    <3> HIDE DEF rest, tail
    <3>3. /\ importer' \in Importer /\ importer'.pc = importer.pc
          /\ importer'.left = tail /\ importer'.batch = rest
      BY <2>2, <3>1, <3>2, ImporterMoves
    <3> QED BY <1>1, <3>3 DEF rest, tail
  <2>7. CASE Len(more) < BatchSize
    <3>1. captures' = captures /\ importer'.batch = more
      BY <1>3, <2>6, <2>7
    <3>2. Importing'
      BY <2>1, <2>5, <2>6, <3>1 DEF Importing, Current
    <3> QED BY <1>1, <2>6, <3>1, <3>2, GrownItself, ImportGoesOn
  <2>8. CASE ~(Len(more) < BatchSize)
    <3>1. PICK now \in BOOLEAN : captures' = WithBatch(more, now)
      BY <1>3, <2>8
    <3> DEFINE saved == IF now THEN Len(c.rows \o more) ELSE c.saved
               d == WithRows(c, c.rows \o more, saved)
    <3>2. captures' = [captures EXCEPT ![Current] = d]
      BY <2>1, <3>1 DEF WithBatch, WithRows
    <3>3. saved \in Nat /\ saved <= Len(c.rows) + Len(more)
      <4> HIDE DEF c, more
      <4>1. c.rows \in Seq(Samples) /\ c.saved \in Nat /\ c.saved <= Len(c.rows)
        BY <2>1 DEF Recording, Sound
      <4>2. Len(c.rows \o more) = Len(c.rows) + Len(more) /\ Len(c.rows) \in Nat /\ Len(more) \in Nat
        BY <2>4, <4>1
      <4> QED BY <4>1, <4>2
    <3> HIDE DEF saved, more, left, c
    <3>4. /\ d \in Recording /\ Sound(d) /\ d.all = c.all /\ d.state = "open"
          /\ Reading(d, <<>>, Tail(left))
      BY <2>1, <2>4, <2>5, <3>3, BatchAppended
    <3> HIDE DEF d
    <3>5. Grown(captures') /\ Len(captures') = Current /\ captures'[Current] = d
      BY <2>1, <3>2, <3>4, CurrentChanges DEF c
    <3>6. Len(captures') = Len(captures) /\ captures'[Len(captures')] = d /\ captures' # <<>>
      BY <2>1, <3>5 DEF Current, Grown
    <3>7. importer'.batch = <<>>
      BY <2>6, <2>8
    <3>8. Importing'
      BY <2>6, <3>4, <3>6, <3>7 DEF Importing, Current, left
    <3> QED BY <1>1, <2>6, <3>5, <3>8, ImportGoesOn
  <2> QED BY <2>7, <2>8
<1> QED BY <1>2, <1>3 DEF ReadFrame

(* A recording that is made complete when all is read has its whole stream. *)
LEMMA CompletedIsSound ==
    ASSUME NEW d \in Recording, Sound(d), Reading(d, <<>>, <<>>)
    PROVE  LET e == [d EXCEPT !.state = "complete", !.saved = Len(d.rows)]
           IN  e \in Recording /\ Sound(e) /\ e.all = d.all
<1> DEFINE e == [d EXCEPT !.state = "complete", !.saved = Len(d.rows)]
<1>1. /\ d.rows \in Seq(Samples) /\ Len(d.rows) \in Nat
      /\ DOMAIN d = {"expected", "all", "rows", "saved", "state", "swapped"}
  BY DEF Recording
<1>2. /\ e.rows = d.rows /\ e.all = d.all /\ e.saved = Len(d.rows) /\ e.expected = d.expected
      /\ e.swapped = d.swapped
  BY <1>1
<1>3. e \in Recording
  BY <1>1 DEF Recording
<1> HIDE DEF e
<1>4. d.all = d.rows
  <2>1. (d.rows \o <<>>) \o <<>> = d.rows
    BY <1>1, ConcatEmptySeq
  <2> QED BY <2>1 DEF Reading
<1>5. Sound(e)
  BY <1>1, <1>2, <1>4 DEF Sound, Reading
<1> QED BY <1>2, <1>3, <1>5 DEF e

LEMMA FinishImportKeeps == ASSUME TransferIInv, FinishImport PROVE TransferIInv'
<1> DEFINE c == captures[Current]
           batch == importer.batch
           d == WithRows(c, c.rows \o batch, Len(c.rows \o batch))
           e == [d EXCEPT !.state = "complete", !.saved = Len(d.rows)]
<1>1. importer.pc = "reading" /\ importer.left = <<>>
  BY DEF FinishImport
<1>2. /\ captures \in Seq(Recording) /\ captures # <<>> /\ Current \in DOMAIN captures
      /\ c \in Recording /\ Sound(c) /\ c.state = "open"
  BY <1>1, CurrentIs
<1>3. batch \in Seq(Samples) /\ Reading(c, batch, <<>>)
  BY <1>1 DEF TransferIInv, TransferTypeOK, Importer, Importing
<1>4. captures' = StoppedAs(WithBatch(batch, TRUE), "complete") /\ importer' = ImportRests
      /\ UNCHANGED <<source, exporting, target>>
  BY DEF FinishImport
<1>5. WithBatch(batch, TRUE) = [captures EXCEPT ![Current] = d]
  BY <1>2 DEF WithBatch, WithRows
<1> HIDE DEF c, batch
<1>6. <<>> \in Seq(Samples) /\ Len(c.rows \o batch) \in Nat /\ Len(c.rows \o batch) <= Len(c.rows) + Len(batch)
  BY <1>2, <1>3 DEF Recording
<1>7. d \in Recording /\ Sound(d) /\ d.all = c.all /\ Reading(d, <<>>, <<>>)
  BY <1>2, <1>3, <1>6, BatchAppended
<1> HIDE DEF d
<1>8. captures' = [captures EXCEPT ![Current] = e]
  BY <1>2, <1>4, <1>5 DEF StoppedAs
<1>9. e \in Recording /\ Sound(e) /\ e.all = c.all
  BY <1>7, CompletedIsSound
<1> HIDE DEF e
<1>10. Grown(captures')
  BY <1>2, <1>8, <1>9, CurrentChanges DEF c
<1> QED BY <1>4, <1>10, ImportEnds

LEMMA ImportBreaksOffKeeps == ASSUME TransferIInv, ImportBreaksOff PROVE TransferIInv'
<1> DEFINE c == captures[Current]
           d == [c EXCEPT !.rows = SubSeq(c.rows, 1, c.saved)]
<1>1. /\ captures \in Seq(Recording) /\ captures # <<>> /\ Current \in DOMAIN captures
      /\ c \in Recording /\ Sound(c) /\ c.state = "open"
  BY CurrentIs DEF ImportBreaksOff
<1>2. captures' = [captures EXCEPT ![Current] = d] /\ importer' = ImportRests
      /\ UNCHANGED <<source, exporting, target>>
  BY <1>1 DEF ImportBreaksOff
<1> HIDE DEF c
<1>3. /\ c.rows \in Seq(Samples) /\ c.saved \in Nat /\ c.saved <= Len(c.rows)
      /\ DOMAIN c = {"expected", "all", "rows", "saved", "state", "swapped"}
  BY <1>1 DEF Recording, Sound
<1> DEFINE kept == SubSeq(c.rows, 1, c.saved)
<1>4. kept \in Seq(Samples) /\ Len(kept) = c.saved /\ \A i \in 1..Len(kept) : kept[i] = c.rows[i]
  BY <1>3
<1> HIDE DEF kept
<1>5. d.rows = kept /\ d.all = c.all /\ d.saved = c.saved /\ d.state = "open"
  BY <1>1, <1>3 DEF kept
<1>6. d \in Recording
  BY <1>1, <1>4 DEF Recording, kept
<1> HIDE DEF d
<1>7. PrefixOf(kept, c.all) /\ \A i \in DOMAIN kept : kept[i] # Broken
  <2>1. Len(c.rows) <= Len(c.all) /\ \A i \in DOMAIN c.rows : c.rows[i] = c.all[i] /\ c.rows[i] # Broken
    BY <1>1 DEF Sound, PrefixOf
  <2>2. c.all \in Seq(Samples)
    BY <1>1 DEF Recording
  <2>3. DOMAIN c.rows = 1..Len(c.rows) /\ DOMAIN kept = 1..Len(kept)
    BY <1>3, <1>4
  <2>4. 1..Len(kept) \subseteq 1..Len(c.rows) /\ Len(kept) <= Len(c.rows)
    BY <1>3, <1>4
  <2>5. Len(kept) <= Len(c.all)
    BY <1>3, <1>4, <2>1, <2>2, <2>4
  <2>6. \A i \in DOMAIN kept : kept[i] = c.all[i] /\ kept[i] # Broken
    BY <1>4, <2>1, <2>3, <2>4
  <2> QED BY <2>5, <2>6 DEF PrefixOf
<1>8. Sound(d)
  <2>1. c.saved <= Len(kept)
    BY <1>3, <1>4
  <2> QED BY <1>5, <1>7, <2>1 DEF Sound
<1>9. Grown(captures')
  BY <1>1, <1>2, <1>5, <1>6, <1>8, CurrentChanges DEF c
<1> QED BY <1>2, <1>9, ImportEnds

LEMMA ReplaceSourceKeeps == ASSUME TransferIInv, ReplaceSource PROVE TransferIInv'
<1>1. importer \in Importer /\ source' \in SourceFiles /\ UNCHANGED <<importer, exporting, target>>
  BY DEF ReplaceSource, TransferIInv, TransferTypeOK
<1>2. CASE importer.pc = "inspected"
  <2> DEFINE c == captures[Current]
             d == [c EXCEPT !.swapped = TRUE]
  <2>1. /\ captures \in Seq(Recording) /\ captures # <<>> /\ Current \in DOMAIN captures
        /\ c \in Recording /\ Sound(c) /\ c.state = "open"
    BY <1>2, CurrentIs
  <2>2. captures' = [captures EXCEPT ![Current] = d]
    BY <1>2, <2>1 DEF ReplaceSource
  <2>3. c.all = <<>> /\ c.rows = <<>>
    BY <1>2 DEF TransferIInv, Importing
  <2> HIDE DEF c
  <2>4. d \in Recording /\ d.all = c.all /\ d.rows = c.rows /\ d.saved = c.saved /\ d.state = c.state /\ d.swapped
    BY <2>1 DEF Recording
  <2> HIDE DEF d
  <2>5. Sound(d)
    BY <2>1, <2>4 DEF Sound
  <2>6. Grown(captures') /\ Len(captures') = Current /\ captures'[Current] = d
    BY <2>1, <2>2, <2>4, <2>5, CurrentChanges DEF c
  <2>7. Len(captures') = Len(captures) /\ captures'[Len(captures')] = d /\ captures' # <<>>
    BY <2>1, <2>6 DEF Current, Grown
  <2>8. Importing'
    BY <1>1, <1>2, <2>1, <2>3, <2>4, <2>7 DEF Importing, Current
  <2> QED BY <1>1, <2>6, <2>8, ImportGoesOn
<1>3. CASE importer.pc # "inspected"
  <2>1. captures' = captures
    BY <1>3 DEF ReplaceSource
  <2>2. Importing'
    BY <1>1, <1>3, <2>1 DEF TransferIInv, Importing, Current
  <2> QED BY <1>1, <2>1, <2>2, GrownItself, ImportGoesOn
<1> QED BY <1>2, <1>3

-----------------------------------------------------------------------------
(* The export, which changes neither the recordings nor the import. *)
LEMMA ExportGoesOn ==
    ASSUME TransferIInv, UNCHANGED <<source, captures, importer>>, exporting' \in Exporter,
           target' \in {NoFile} \cup [of : Nat, frames : Seq(Samples)], Exported'
    PROVE  TransferIInv'
<1>1. TransferTypeOK' /\ Importing'
  BY DEF TransferIInv, TransferTypeOK, Importing, Current, Reading
<1> QED BY <1>1 DEF TransferIInv, Sound

LEMMA ExportEnds ==
    ASSUME TransferIInv, UNCHANGED <<source, captures, importer, target>>, exporting' = ExportRests
    PROVE  TransferIInv'
<1>1. exporting' \in Exporter /\ exporting'.pc = "idle"
  BY DEF ExportRests, Exporter
<1>2. Exported'
  BY <1>1 DEF TransferIInv, Exported
<1> QED BY <1>1, <1>2, ExportGoesOn DEF TransferIInv, TransferTypeOK

LEMMA StartExportKeeps ==
    ASSUME TransferIInv, NEW rid \in DOMAIN captures, StartExport(rid) PROVE TransferIInv'
<1> DEFINE c == captures[rid]
           frames == SubSeq(c.rows, 1, c.saved)
           begun == [pc |-> "writing", of |-> rid, frames |-> frames, written |-> <<>>]
<1>1. exporting' = begun /\ UNCHANGED <<source, captures, importer, target>>
  BY DEF StartExport
<1>2. captures \in Seq(Recording) /\ c \in Recording /\ Sound(c) /\ rid \in Nat
  BY DEF TransferIInv, TransferTypeOK
<1> HIDE DEF c
<1>3. /\ c.rows \in Seq(Samples) /\ c.all \in Seq(Samples) /\ c.saved \in Nat /\ c.saved <= Len(c.rows)
      /\ PrefixOf(c.rows, c.all)
  BY <1>2 DEF Recording, Sound
<1>4. frames \in Seq(Samples) /\ Len(frames) = c.saved /\ \A i \in 1..Len(frames) : frames[i] = c.rows[i]
  BY <1>3
<1> HIDE DEF frames
<1>5. PrefixOf(frames, c.all)
  BY <1>3, <1>4 DEF PrefixOf
<1>6. begun \in Exporter /\ begun.pc = "writing" /\ begun.of = rid /\ begun.frames = frames
  BY <1>2, <1>4 DEF Exporter
<1> HIDE DEF begun
<1>7. Exported'
  BY <1>1, <1>5, <1>6 DEF TransferIInv, Exported, c
<1> QED BY <1>1, <1>6, <1>7, ExportGoesOn DEF TransferIInv, TransferTypeOK

LEMMA SmallerOfTwo == ASSUME NEW a \in Int, NEW b \in Int PROVE Min({a, b}) \in {a, b} /\ Min({a, b}) <= b
<1>1. \E x \in {a, b} : \A y \in {a, b} : x <= y
  OBVIOUS
<1>2. Min({a, b}) \in {a, b} /\ \A y \in {a, b} : Min({a, b}) <= y
  BY <1>1 DEF Min
<1> QED BY <1>2

LEMMA WriteGroupKeeps == ASSUME TransferIInv, WriteGroup PROVE TransferIInv'
<1> DEFINE frames == exporting.frames
           written == exporting.written
           to == Min({Len(written) + BatchSize, Len(frames)})
           group == SubSeq(frames, Len(written) + 1, to)
<1>1. UNCHANGED <<source, captures, importer, target>>
  BY DEF WriteGroup
<1>2. CASE exporting' = ExportRests
  BY <1>1, <1>2, ExportEnds
<1>3. CASE exporting' = [exporting EXCEPT !.written = @ \o group]
  <2>1. /\ exporting \in Exporter /\ frames \in Seq(Samples) /\ written \in Seq(Samples)
        /\ exporting.pc = "writing"
    BY DEF WriteGroup, TransferIInv, TransferTypeOK, Exporter
  <2>2. to \in Int /\ to <= Len(frames)
    <3>1. Len(written) + BatchSize \in Int /\ Len(frames) \in Int
      BY <2>1, FilesAssumption
    <3> DEFINE a == Len(written) + BatchSize
               b == Len(frames)
    <3> HIDE DEF a, b
    <3>2. a \in Int /\ b \in Int => Min({a, b}) \in Int /\ Min({a, b}) <= b
      BY SmallerOfTwo
    <3> QED BY <3>1, <3>2 DEF a, b
  <2> HIDE DEF to
  <2>3. group \in Seq(Samples)
    <3>1. \A i \in Len(written) + 1..to : frames[i] \in Samples
      BY <2>1, <2>2
    <3> QED BY <2>1, <2>2, <3>1, SubSeqProperties
  <2> HIDE DEF group
  <2>4. written \o group \in Seq(Samples)
    BY <2>1, <2>3
  <2>5. exporting' \in Exporter /\ exporting'.pc = "writing" /\ exporting'.of = exporting.of
        /\ exporting'.frames = frames
    BY <1>3, <2>1, <2>4 DEF Exporter
  <2>6. Exported'
    BY <1>1, <2>1, <2>5 DEF TransferIInv, Exported
  <2> QED BY <1>1, <2>5, <2>6, ExportGoesOn DEF TransferIInv, TransferTypeOK
<1> QED BY <1>2, <1>3 DEF WriteGroup

LEMMA FinishExportKeeps == ASSUME TransferIInv, FinishExport PROVE TransferIInv'
<1>1. /\ exporting.pc = "writing" /\ UNCHANGED <<source, captures, importer>>
      /\ exporting' = ExportRests /\ target' = [of |-> exporting.of, frames |-> exporting.frames]
  BY DEF FinishExport
<1>2. exporting.of \in Nat /\ exporting.frames \in Seq(Samples)
  BY DEF TransferIInv, TransferTypeOK, Exporter
<1>3. /\ target' \in [of : Nat, frames : Seq(Samples)]
      /\ target'.of = exporting.of /\ target'.frames = exporting.frames
  BY <1>1, <1>2
<1>4. exporting' \in Exporter /\ exporting'.pc = "idle"
  BY <1>1 DEF ExportRests, Exporter
<1>5. Exported'
  BY <1>1, <1>3, <1>4 DEF TransferIInv, Exported
<1> QED BY <1>1, <1>3, <1>4, <1>5, ExportGoesOn

-----------------------------------------------------------------------------
LEMMA TransferKeeps == TransferIInv /\ [TransferNext]_transferVars => TransferIInv'
<1> SUFFICES ASSUME TransferIInv, [TransferNext]_transferVars PROVE TransferIInv'
  OBVIOUS
<1>1. CASE UNCHANGED transferVars
  <2>1. UNCHANGED <<source, captures, importer, exporting, target>>
    BY <1>1 DEF transferVars
  <2> QED BY <2>1 DEF TransferIInv, TransferTypeOK, Importing, Current, Reading, Exported, Sound
<1>2. CASE ExportBreaksOff
  BY <1>2, ExportEnds DEF ExportBreaksOff
<1> QED BY <1>1, <1>2, StartImportKeeps, OpenSourceKeeps, ReadFrameKeeps, FinishImportKeeps,
           ImportBreaksOffKeeps, ReplaceSourceKeeps, StartExportKeeps, WriteGroupKeeps,
           FinishExportKeeps DEF TransferNext

LEMMA TransferBegins == TransferInit => TransferIInv
<1> SUFFICES ASSUME TransferInit PROVE TransferIInv
  OBVIOUS
<1>1. /\ source = NotThere /\ captures = <<>> /\ importer = ImportRests /\ exporting = ExportRests
      /\ target = NoFile
  BY DEF TransferInit
<1>2. importer \in Importer /\ importer.pc = "idle"
  BY <1>1 DEF ImportRests, Importer
<1>3. exporting \in Exporter /\ exporting.pc = "idle"
  BY <1>1 DEF ExportRests, Exporter
<1>4. TransferTypeOK
  BY <1>1, <1>2, <1>3 DEF TransferTypeOK, AnyFile
<1>5. DOMAIN captures = {}
  BY <1>1
<1> QED BY <1>1, <1>2, <1>3, <1>4, <1>5 DEF TransferIInv, Importing, Exported

LEMMA TransferIsWhole == TransferIInv => TransfersAreWhole
<1> SUFFICES ASSUME TransferIInv PROVE TransfersAreWhole
  OBVIOUS
<1>1. captures \in Seq(Recording) /\ \A rid \in DOMAIN captures : captures[rid] \in Recording
  BY DEF TransferIInv, TransferTypeOK
<1>2. ASSUME NEW rid \in DOMAIN captures
      PROVE  LET c == captures[rid]
             IN  /\ IsPrefix(c.rows, c.all)
                 /\ \A i \in DOMAIN c.rows : ValidFrame(c.rows[i])
                 /\ c.state = "complete" => c.rows = c.all /\ (~c.swapped => Len(c.rows) = c.expected)
  <2> DEFINE c == captures[rid]
  <2>1. c \in Recording /\ Sound(c)
    BY <1>1 DEF TransferIInv
  <2> HIDE DEF c
  <2>2. c.rows \in Seq(Samples) /\ c.all \in Seq(Samples) /\ PrefixOf(c.rows, c.all)
    BY <2>1 DEF Recording, Sound
  <2>3. IsPrefix(c.rows, c.all)
    BY <2>2, PrefixIs
  <2>4. \A i \in DOMAIN c.rows : ValidFrame(c.rows[i])
    <3>1. \A i \in DOMAIN c.rows : c.rows[i] \in Samples /\ c.rows[i] # Broken
      BY <2>1, <2>2 DEF Sound
    <3> QED BY <3>1, SampleIsFrame, Zenon
  <2>5. c.state = "complete" => c.rows = c.all /\ (~c.swapped => Len(c.rows) = c.expected)
    <3> SUFFICES ASSUME c.state = "complete"
                 PROVE  c.rows = c.all /\ (~c.swapped => Len(c.rows) = c.expected)
      OBVIOUS
    <3>1. Len(c.rows) = Len(c.all) /\ (~c.swapped => Len(c.rows) = c.expected)
      BY <2>1 DEF Sound
    <3>2. \A i \in 1..Len(c.rows) : c.rows[i] = c.all[i]
      BY <2>2 DEF PrefixOf
    <3> QED BY <2>2, <3>1, <3>2, SeqEqual
  <2> QED BY <2>3, <2>4, <2>5 DEF c
<1>3. target # NoFile => IsPrefix(target.frames, captures[target.of].all)
  <2> SUFFICES ASSUME target # NoFile PROVE IsPrefix(target.frames, captures[target.of].all)
    OBVIOUS
  <2>1. target.frames \in Seq(Samples) /\ target.of \in DOMAIN captures
        /\ PrefixOf(target.frames, captures[target.of].all)
    BY DEF TransferIInv, TransferTypeOK, Exported
  <2>2. captures[target.of].all \in Seq(Samples)
    BY <1>1, <2>1 DEF Recording
  <2> QED BY <2>1, <2>2, PrefixIs
<1> QED BY <1>2, <1>3 DEF TransfersAreWhole

(* However often the file of an import is replaced, whichever frame is broken or one
   too many, and wherever an import or an export breaks off: a recording that says it
   is complete has its file's frames, any other the first so many of them, and so has
   an exported file of its recording. *)
THEOREM TransfersStayWhole == TransferSpec => []TransfersAreWhole
  BY TransferBegins, TransferKeeps, TransferIsWhole, PTL DEF TransferSpec
=============================================================================
