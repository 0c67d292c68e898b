------------------------- MODULE LearningCliProofs -------------------------
(***************************************************************************)
(* Proofs about LearningCli, for any number of commands that overlap, any   *)
(* manifests, models, losses and number of epochs.                         *)
(*                                                                         *)
(* What is entered in the registry rests on what a command has read long   *)
(* before, so the invariant speaks of every copy a command holds as it      *)
(* does of the file, and follows a command from one read to the next.      *)
(***************************************************************************)
EXTENDS LearningCli, FiniteSetTheorems, SequenceTheorems, TLAPS

Reading == {"digest", "sidecar", "model"}

(* No model without its datasets, none with another checkpoint's metadata. *)
Sound(r) ==
    \A x \in Models : r.models[x] # None =>
        /\ \A n \in r.models[x].datasets : r.datasets[n] # None
        /\ r.models[x].described \in {None, r.models[x].artifact}

(* best_epoch, after the epochs so far. *)
Finite(me) == {k \in 1..Len(me.losses) : me.losses[k] \in Losses}

BestSoFar(me) ==
    IF Finite(me) = {} THEN me.best = 0
    ELSE /\ me.best \in Finite(me)
         /\ \A k \in Finite(me) : me.losses[k] >= me.losses[me.best]
         /\ \A k \in Finite(me) : k < me.best => me.losses[k] > me.losses[me.best]

(* How far a command has come. *)
Progress(me) ==
    /\ me.pc \in {"fit", "save", "describe", "write", "dataset"} => me.manifest \in Manifests
    /\ me.pc = "load" => me.manifest \in Manifests \/ me.model \in Models
    /\ me.pc \in Reading => me.model \in Models
    /\ me.pc \in {"dataset"} \cup Reading => me.copy \in Registry /\ Sound(me.copy)
    /\ me.pc \in {"describe", "write", "sidecar", "model"} => me.artifact \in Checkpoint
    /\ me.pc = "model" => me.described \in {None, me.artifact}
    /\ me.pc \in {"fit", "save"} => BestSoFar(me)
    /\ me.pc = "save" =>
        /\ Len(me.losses) = Epochs
        /\ me.weights = IF me.best # 0 THEN me.best ELSE Epochs

IInv ==
    /\ TypeOK
    /\ Sound(registry)
    /\ \A p \in Processes : Progress(process[p])

-----------------------------------------------------------------------------
LEMMA Fields ==
    ASSUME NEW me \in Process
    PROVE  /\ me.manifest \in Manifests \cup {None}
           /\ me.model \in Models \cup {None}
           /\ me.names \subseteq Names
           /\ me.losses \in LossList
           /\ me.best \in 0..Epochs /\ me.weights \in 0..Epochs
           /\ me.copy \in Registry \cup {None}
           /\ me.artifact \in Checkpoint \cup {None}
           /\ me.described \in Checkpoint \cup {None}
BY DEF Process

(* Losses as a list, and one more. *)
LEMMA LossesAreList ==
    ASSUME NEW losses \in LossList
    PROVE  /\ losses \in Seq(Losses \cup {NaN})
           /\ Len(losses) \in 0..Epochs
BY LearningAssumption DEF LossList

LEMMA LossesGrow ==
    ASSUME NEW losses \in LossList, NEW loss \in Losses \cup {NaN}, Len(losses) < Epochs
    PROVE  /\ Append(losses, loss) \in LossList
           /\ Len(Append(losses, loss)) = Len(losses) + 1
           /\ Append(losses, loss)[Len(losses) + 1] = loss
           /\ \A k \in 1..Len(losses) : Append(losses, loss)[k] = losses[k]
<1>1. losses \in Seq(Losses \cup {NaN}) /\ Len(losses) \in 0..Epochs
  BY LossesAreList
<1>2. Append(losses, loss) \in [1..Len(losses) + 1 -> Losses \cup {NaN}]
  <2>1. /\ Append(losses, loss) \in Seq(Losses \cup {NaN})
        /\ Len(Append(losses, loss)) = Len(losses) + 1
    BY <1>1
  <2>2. QED
    BY <2>1, LenProperties
<1>3. Len(losses) + 1 \in 0..Epochs
  BY <1>1, LearningAssumption
<1>4. Append(losses, loss) \in LossList
  BY <1>2, <1>3 DEF LossList
<1>5. QED
  BY <1>1, <1>4

LEMMA IdleIsProper == Idle \in Process /\ Progress(Idle) /\ Idle.pc = "idle"
<1>1. << >> \in [1..0 -> Losses \cup {NaN}]
  OBVIOUS
<1>2. << >> \in LossList
  BY <1>1, LearningAssumption DEF LossList
<1>3. Idle \in Process
  BY <1>2, LearningAssumption DEF Idle, Process
<1>4. QED
  BY <1>3 DEF Idle, Progress, Reading

(* A command that moves on leaves the others as they are. *)
LEMMA BecomeKeeps ==
    ASSUME IInv, NEW p \in Processes, NEW next \in Process, Become(p, next), Progress(next)
    PROVE  /\ process' \in [Processes -> Process]
           /\ \A q \in Processes : Progress(process'[q])
<1>1. process \in [Processes -> Process] /\ process' = [process EXCEPT ![p] = next]
  BY DEF IInv, TypeOK, Become
<1>2. \A q \in Processes : process'[q] = next \/ process'[q] = process[q]
  BY <1>1
<1>3. \A q \in Processes : Progress(process[q])
  BY DEF IInv
<1>4. QED
  BY <1>1, <1>2, <1>3

LEMMA OnlyProcess ==
    ASSUME IInv, NEW p \in Processes, NEW next \in Process, Become(p, next), Progress(next),
           UNCHANGED files
    PROVE  IInv'
<1>1. /\ process' \in [Processes -> Process]
      /\ \A q \in Processes : Progress(process'[q])
  BY BecomeKeeps
<1>2. QED
  BY <1>1 DEF IInv, TypeOK, Sound, files

-----------------------------------------------------------------------------
(* One more epoch keeps the best one what it is said to be. *)
LEMMA EpochKeepsBest ==
    ASSUME NEW me \in Process, Len(me.losses) < Epochs, BestSoFar(me),
           NEW loss \in Losses \cup {NaN}, NEW next \in Process,
           next.losses = Append(me.losses, loss),
           next.best = IF Improves(loss, me) THEN Len(me.losses) + 1 ELSE me.best
    PROVE  BestSoFar(next)
<1> DEFINE n == Len(me.losses)
<1>1. /\ n \in Nat /\ Len(next.losses) = n + 1 /\ next.losses[n + 1] = loss
      /\ \A k \in 1..n : next.losses[k] = me.losses[k]
  BY Fields, LossesAreList, LossesGrow, LearningAssumption
<1>2. \A k \in Finite(me) : k \in 1..n /\ me.losses[k] \in Nat
  BY LearningAssumption DEF Finite
<1>3. Finite(next) = Finite(me) \cup (IF loss \in Losses THEN {n + 1} ELSE {})
  BY <1>1 DEF Finite
<1>4. \A k \in Finite(me) : next.losses[k] = me.losses[k]
  BY <1>1, <1>2
<1>5. loss \in Losses => loss \in Nat
  BY LearningAssumption
<1>6. CASE Finite(me) = {}
  <2>1. me.best = 0
    BY <1>6 DEF BestSoFar
  <2>2. CASE loss \in Losses
    <3>1. next.best = n + 1 /\ Finite(next) = {n + 1}
      BY <1>3, <1>6, <2>1, <2>2 DEF Improves
    <3>2. /\ Finite(next) # {} /\ next.best \in Finite(next)
          /\ next.losses[next.best] = loss /\ loss \in Nat
      BY <1>1, <1>5, <2>2, <3>1
    <3>3. \A k \in Finite(next) : k = next.best
      BY <3>1
    <3>4. n + 1 \in Nat
      BY <1>1
    <3>5. ASSUME NEW k \in Finite(next)
          PROVE  next.losses[k] >= next.losses[next.best] /\ ~(k < next.best)
      <4>1. k = next.best /\ k \in Nat /\ next.losses[k] = loss
        BY <3>1, <3>2, <3>3, <3>4
      <4>2. loss >= loss /\ ~(k < k)
        BY <3>2, <4>1
      <4>3. QED
        BY <3>2, <4>1, <4>2
    <3>6. QED
      BY <3>2, <3>5 DEF BestSoFar
  <2>3. CASE loss \notin Losses
    <3>1. next.best = 0 /\ Finite(next) = {}
      BY <1>3, <1>6, <2>1, <2>3 DEF Improves
    <3>2. QED
      BY <3>1 DEF BestSoFar
  <2>4. QED
    BY <2>2, <2>3
<1>7. CASE Finite(me) # {}
  <2>1. me.best \in Finite(me) /\ me.best # 0
    BY <1>2, <1>7 DEF BestSoFar
  <2>2. CASE Improves(loss, me)
    <3>1. next.best = n + 1 /\ loss \in Losses /\ loss < me.losses[me.best]
      BY <2>1, <2>2 DEF Improves
    <3>2. \A k \in Finite(me) : loss < next.losses[k]
      BY <1>2, <1>4, <1>5, <1>7, <2>1, <3>1 DEF BestSoFar
    <3>3. QED
      BY <1>1, <1>2, <1>3, <1>5, <3>1, <3>2 DEF BestSoFar
  <2>3. CASE ~Improves(loss, me)
    <3>1. next.best = me.best /\ (loss \in Losses => loss >= me.losses[me.best])
      BY <1>2, <1>5, <2>1, <2>3 DEF Improves
    <3>2. \A k \in Finite(next) : k \in Finite(me) \/ (k = n + 1 /\ loss \in Losses)
      BY <1>3
    <3>3. next.losses[next.best] = me.losses[me.best] /\ me.losses[me.best] \in Nat
      BY <1>2, <1>4, <2>1, <3>1
    <3>4. \A k \in Finite(next) : next.losses[k] >= next.losses[next.best]
      BY <1>1, <1>4, <1>5, <1>7, <3>1, <3>2, <3>3 DEF BestSoFar
    <3>5. \A k \in Finite(next) : k < next.best => next.losses[k] > next.losses[next.best]
      BY <1>1, <1>2, <1>4, <1>7, <2>1, <3>1, <3>2, <3>3 DEF BestSoFar
    <3>6. next.best \in Finite(next)
      BY <1>3, <2>1, <3>1
    <3>7. QED
      BY <3>4, <3>5, <3>6 DEF BestSoFar
  <2>4. QED
    BY <2>2, <2>3
<1>8. QED
  BY <1>6, <1>7
-----------------------------------------------------------------------------
(* What each step makes of its command, and of the files.                     *)

LEMMA AbandonKeeps ==
    ASSUME IInv, NEW p \in Processes, Become(p, Idle), UNCHANGED files
    PROVE  IInv'
BY IdleIsProper, OnlyProcess

LEMMA CommandsKeep ==
    ASSUME IInv, NEW p \in Processes
    PROVE  /\ \A m \in Manifests, model \in Models \cup {None} : Train(p, m, model) => IInv'
           /\ \A m \in Manifests : RegisterDatasetCommand(p, m) => IInv'
           /\ \A model \in Models, names \in SUBSET Names :
                RegisterModelCommand(p, model, names) => IInv'
<1>1. ASSUME NEW m \in Manifests, NEW model \in Models \cup {None}, Train(p, m, model)
      PROVE  IInv'
  <2> DEFINE next == [Idle EXCEPT !.pc = "fit", !.manifest = m, !.model = model,
                                  !.names = {m.name}]
  <2>1. next \in Process
    BY IdleIsProper DEF Process, Names
  <2>2. /\ next.pc = "fit" /\ next.manifest = m /\ next.losses = << >> /\ next.best = 0
    BY DEF Idle
  <2>3. Finite(next) = {}
    BY <2>2 DEF Finite
  <2>4. Progress(next)
    BY <2>2, <2>3 DEF Progress, BestSoFar, Reading
  <2>5. Become(p, next) /\ UNCHANGED files
    BY <1>1 DEF Train
  <2> HIDE DEF next
  <2>6. QED
    BY <2>1, <2>4, <2>5, OnlyProcess
<1>2. ASSUME NEW m \in Manifests, RegisterDatasetCommand(p, m)
      PROVE  IInv'
  <2> DEFINE next == [Idle EXCEPT !.pc = "load", !.manifest = m]
  <2>1. next \in Process
    BY IdleIsProper DEF Process
  <2>2. next.pc = "load" /\ next.manifest = m
    BY DEF Idle
  <2>3. Progress(next)
    BY <2>2 DEF Progress, Reading
  <2>4. Become(p, next) /\ UNCHANGED files
    BY <1>2 DEF RegisterDatasetCommand
  <2> HIDE DEF next
  <2>5. QED
    BY <2>1, <2>3, <2>4, OnlyProcess
<1>3. ASSUME NEW model \in Models, NEW names \in SUBSET Names,
             RegisterModelCommand(p, model, names)
      PROVE  IInv'
  <2> DEFINE next == [Idle EXCEPT !.pc = "load", !.model = model, !.names = names]
  <2>1. next \in Process
    BY IdleIsProper DEF Process
  <2>2. next.pc = "load" /\ next.model = model
    BY DEF Idle
  <2>3. Progress(next)
    BY <2>2 DEF Progress, Reading
  <2>4. Become(p, next) /\ UNCHANGED files
    BY <1>3 DEF RegisterModelCommand
  <2> HIDE DEF next
  <2>5. QED
    BY <2>1, <2>3, <2>4, OnlyProcess
<1>4. QED
  BY <1>1, <1>2, <1>3

LEMMA EpochKeeps ==
    ASSUME IInv, NEW p \in Processes, Epoch(p)
    PROVE  IInv'
<1> DEFINE me == process[p]
<1>1. me \in Process /\ Progress(me)
  BY DEF IInv, TypeOK
<1>2. /\ me.pc = "fit" /\ Len(me.losses) < Epochs
      /\ UNCHANGED files
  BY DEF Epoch
<1>3. PICK loss \in Losses \cup {NaN} :
        Become(p, [me EXCEPT !.losses = Append(@, loss),
                             !.best = IF Improves(loss, me) THEN Len(me.losses) + 1 ELSE @])
  BY DEF Epoch
<1> DEFINE next == [me EXCEPT !.losses = Append(@, loss),
                              !.best = IF Improves(loss, me) THEN Len(me.losses) + 1 ELSE @]
<1>4. Append(me.losses, loss) \in LossList /\ Len(me.losses) + 1 \in 0..Epochs
  BY <1>1, <1>2, Fields, LossesAreList, LossesGrow, LearningAssumption
<1>5. /\ next \in Process
      /\ next.losses = Append(me.losses, loss)
      /\ next.best = IF Improves(loss, me) THEN Len(me.losses) + 1 ELSE me.best
      /\ next.pc = "fit" /\ next.manifest = me.manifest
  BY <1>1, <1>2, <1>4 DEF Process
<1>6. BestSoFar(me) /\ me.manifest \in Manifests
  BY <1>1, <1>2 DEF Progress
<1>7. Become(p, next)
  BY <1>3
<1> HIDE DEF next, me
<1>8. BestSoFar(next)
  BY <1>1, <1>2, <1>5, <1>6, EpochKeepsBest
<1>9. Progress(next)
  BY <1>5, <1>6, <1>8 DEF Progress, Reading
<1>10. QED
  BY <1>2, <1>5, <1>7, <1>9, OnlyProcess

LEMMA FittedKeeps ==
    ASSUME IInv, NEW p \in Processes, Fitted(p)
    PROVE  IInv'
<1> DEFINE me == process[p]
           weights == IF me.best # 0 THEN me.best ELSE Epochs
           next == [me EXCEPT !.pc = "save", !.weights = weights]
<1>1. me \in Process /\ Progress(me)
  BY DEF IInv, TypeOK
<1>2. /\ me.pc = "fit" /\ Len(me.losses) = Epochs /\ Become(p, next) /\ UNCHANGED files
  BY DEF Fitted
<1>3. weights \in 0..Epochs
  BY <1>1, Fields, LearningAssumption
<1>4. /\ next \in Process /\ next.pc = "save" /\ next.weights = weights
      /\ next.losses = me.losses /\ next.best = me.best /\ next.manifest = me.manifest
  BY <1>1, <1>3 DEF Process
<1>5. BestSoFar(me) /\ me.manifest \in Manifests
  BY <1>1, <1>2 DEF Progress
<1> HIDE DEF next
<1>6. BestSoFar(next)
  BY <1>4, <1>5 DEF BestSoFar, Finite
<1>7. Progress(next)
  BY <1>2, <1>4, <1>5, <1>6 DEF Progress, Reading
<1>8. QED
  BY <1>2, <1>4, <1>7, OnlyProcess

LEMMA SaveKeeps ==
    ASSUME IInv, NEW p \in Processes, Save(p)
    PROVE  IInv'
<1> DEFINE me == process[p]
           saved == [stamp |-> saves + 1, manifest |-> me.manifest]
           next == [me EXCEPT !.pc = "describe", !.artifact = saved,
                              !.losses = <<>>, !.best = 0, !.weights = 0]
<1>1. me \in Process /\ Progress(me) /\ me.pc = "save"
  BY DEF IInv, TypeOK, Save
<1>2. me.manifest \in Manifests
  BY <1>1 DEF Progress
<1>3. saves + 1 \in 1..MaxSaves /\ saves' = saves + 1
  BY LearningAssumption DEF IInv, TypeOK, Save
<1>4. saved \in Checkpoint
  BY <1>2, <1>3 DEF Checkpoint
<1>5. << >> \in LossList /\ 0 \in 0..Epochs
  BY IdleIsProper, Fields, LearningAssumption DEF Idle
<1>6. /\ Become(p, next) /\ checkpoint' = saved /\ UNCHANGED <<registry, sidecar>>
  BY DEF Save
<1> HIDE DEF saved
<1>7. /\ next \in Process /\ next.pc = "describe" /\ next.manifest = me.manifest
      /\ next.artifact = saved
  <2> DEFINE described == [me EXCEPT !.pc = "describe", !.artifact = saved]
  <2>1. /\ described \in Process /\ described.pc = "describe"
        /\ described.manifest = me.manifest /\ described.artifact = saved
    BY <1>1, <1>4 DEF Process
  <2>2. next = [described EXCEPT !.losses = << >>, !.best = 0, !.weights = 0]
    BY <1>1 DEF Process
  <2> HIDE DEF described, next
  <2>3. QED
    BY <1>5, <2>1, <2>2 DEF Process
<1> HIDE DEF next
<1>8. Progress(next)
  BY <1>2, <1>4, <1>7 DEF Progress, Reading
<1>9. /\ process' \in [Processes -> Process]
      /\ \A q \in Processes : Progress(process'[q])
  BY <1>6, <1>7, <1>8, BecomeKeeps
<1>10. QED
  BY <1>3, <1>4, <1>6, <1>9, LearningAssumption DEF IInv, TypeOK, Sound

LEMMA OpenSidecarKeeps ==
    ASSUME IInv, NEW p \in Processes, OpenSidecar(p)
    PROVE  IInv'
<1> DEFINE me == process[p]
           next == [me EXCEPT !.pc = "write"]
<1>1. me \in Process /\ Progress(me) /\ me.pc = "describe"
  BY DEF IInv, TypeOK, OpenSidecar
<1>2. /\ next \in Process /\ next.pc = "write" /\ next.manifest = me.manifest
      /\ next.artifact = me.artifact
  BY <1>1 DEF Process
<1>3. /\ Become(p, next) /\ sidecar' = Torn /\ UNCHANGED <<registry, checkpoint, saves>>
  BY DEF OpenSidecar
<1> HIDE DEF next
<1>4. Progress(next)
  BY <1>1, <1>2 DEF Progress, Reading
<1>5. /\ process' \in [Processes -> Process]
      /\ \A q \in Processes : Progress(process'[q])
  BY <1>2, <1>3, <1>4, BecomeKeeps
<1>6. QED
  BY <1>3, <1>5 DEF IInv, TypeOK, Sound

LEMMA WriteSidecarKeeps ==
    ASSUME IInv, NEW p \in Processes, WriteSidecar(p)
    PROVE  IInv'
<1> DEFINE me == process[p]
           loading == [me EXCEPT !.pc = "load", !.artifact = None]
           next == IF me.model = None THEN Idle ELSE loading
<1>1. me \in Process /\ Progress(me) /\ me.pc = "write"
  BY DEF IInv, TypeOK, WriteSidecar
<1>2. me.manifest \in Manifests /\ me.artifact \in Checkpoint
  BY <1>1 DEF Progress
<1>3. /\ loading \in Process /\ loading.pc = "load" /\ loading.manifest = me.manifest
  BY <1>1 DEF Process
<1>4. /\ Become(p, next) /\ sidecar' \in {me.artifact, Torn}
      /\ UNCHANGED <<registry, checkpoint, saves>>
  BY DEF WriteSidecar
<1> HIDE DEF loading
<1>5. Progress(loading)
  BY <1>2, <1>3 DEF Progress, Reading
<1>6. next \in Process /\ Progress(next)
  BY <1>3, <1>5, IdleIsProper
<1> HIDE DEF next
<1>7. /\ process' \in [Processes -> Process]
      /\ \A q \in Processes : Progress(process'[q])
  BY <1>4, <1>6, BecomeKeeps
<1>8. QED
  BY <1>2, <1>4, <1>7 DEF IInv, TypeOK, Sound

LEMMA LoadKeeps ==
    ASSUME IInv, NEW p \in Processes, Load(p)
    PROVE  IInv'
<1> DEFINE me == process[p]
           next == [me EXCEPT !.pc = IF me.manifest # None THEN "dataset" ELSE "digest",
                              !.copy = registry]
<1>1. me \in Process /\ Progress(me) /\ me.pc = "load"
  BY DEF IInv, TypeOK, Load
<1>2. registry \in Registry /\ Sound(registry)
  BY DEF IInv, TypeOK
<1>3. /\ next \in Process /\ next.copy = registry
      /\ next.manifest = me.manifest /\ next.model = me.model
      /\ next.pc = IF me.manifest # None THEN "dataset" ELSE "digest"
  BY <1>1, <1>2 DEF Process
<1>4. Become(p, next) /\ UNCHANGED files
  BY DEF Load
<1>5. me.manifest # None => me.manifest \in Manifests
  BY <1>1, Fields
<1>6. me.manifest = None => me.model \in Models
  BY <1>1, LearningAssumption DEF Progress
<1> HIDE DEF next
<1>7. Progress(next)
  BY <1>2, <1>3, <1>5, <1>6 DEF Progress, Reading
<1>8. QED
  BY <1>3, <1>4, <1>7, OnlyProcess

-----------------------------------------------------------------------------
(* The two ways a registry grows keep it sound.                               *)

LEMMA DatasetEntered ==
    ASSUME NEW r \in Registry, Sound(r), NEW m \in Manifests, r.datasets[m.name] = None
    PROVE  LET entered == [r EXCEPT !.datasets[m.name] = m] IN
           /\ entered \in Registry
           /\ Sound(entered)
           /\ entered.models = r.models
           /\ \A n \in Names : r.datasets[n] # None => entered.datasets[n] = r.datasets[n]
<1> DEFINE entered == [r EXCEPT !.datasets[m.name] = m]
<1>1. m.name \in Names
  BY DEF Names
<1>2. r.datasets \in [Names -> Manifests \cup {None}]
  BY DEF Registry
<1>3. /\ entered \in Registry
      /\ entered.models = r.models
      /\ entered.datasets = [r.datasets EXCEPT ![m.name] = m]
  BY <1>1 DEF Registry
<1>4. \A n \in Names : r.datasets[n] # None => entered.datasets[n] = r.datasets[n]
  BY <1>1, <1>2, <1>3
<1>5. \A x \in Models : r.models[x] # None => r.models[x].datasets \subseteq Names
  BY DEF Registry, Entry
<1>6. Sound(entered)
  BY <1>3, <1>4, <1>5 DEF Sound
<1>7. QED
  BY <1>3, <1>4, <1>6

LEMMA ModelEntered ==
    ASSUME NEW r \in Registry, Sound(r), NEW x \in Models, NEW entry \in Entry,
           r.models[x] = None,
           \A n \in entry.datasets : r.datasets[n] # None,
           entry.described \in {None, entry.artifact}
    PROVE  LET entered == [r EXCEPT !.models[x] = entry] IN
           /\ entered \in Registry
           /\ Sound(entered)
           /\ entered.datasets = r.datasets
           /\ \A y \in Models : r.models[y] # None => entered.models[y] = r.models[y]
<1> DEFINE entered == [r EXCEPT !.models[x] = entry]
<1>1. r.models \in [Models -> Entry \cup {None}]
  BY DEF Registry
<1>2. /\ entered \in Registry
      /\ entered.datasets = r.datasets
      /\ entered.models = [r.models EXCEPT ![x] = entry]
  BY DEF Registry
<1>3. /\ entered.models[x] = entry
      /\ \A y \in Models : y # x => entered.models[y] = r.models[y]
  BY <1>1, <1>2
<1>4. Sound(entered)
  BY <1>2, <1>3 DEF Sound
<1>5. QED
  BY <1>2, <1>3, <1>4

LEMMA RegisterDatasetKeeps ==
    ASSUME IInv, NEW p \in Processes, RegisterDataset(p)
    PROVE  IInv'
<1> DEFINE me == process[p]
           m == me.manifest
           entered == [me.copy EXCEPT !.datasets[m.name] = m]
           going(copy) == [me EXCEPT !.pc = "digest", !.copy = copy]
           next(copy) == IF me.model = None THEN Idle ELSE going(copy)
<1>1. me \in Process /\ Progress(me) /\ me.pc = "dataset"
  BY DEF IInv, TypeOK, RegisterDataset
<1>2. m \in Manifests /\ me.copy \in Registry /\ Sound(me.copy)
  BY <1>1 DEF Progress
<1>3. ASSUME NEW copy \in Registry, Sound(copy), Become(p, next(copy)),
             registry' \in {registry, copy}
      PROVE  IInv'
  <2>1. /\ going(copy) \in Process /\ going(copy).pc = "digest"
        /\ going(copy).model = me.model /\ going(copy).copy = copy
    BY <1>1 DEF Process
  <2>2. me.model # None => me.model \in Models
    BY <1>1, Fields
  <2> HIDE DEF going
  <2>3. me.model # None => Progress(going(copy))
    BY <1>3, <2>1, <2>2 DEF Progress, Reading
  <2>4. next(copy) \in Process /\ Progress(next(copy))
    BY <2>1, <2>3, IdleIsProper
  <2> HIDE DEF next
  <2>5. /\ process' \in [Processes -> Process]
        /\ \A q \in Processes : Progress(process'[q])
    BY <1>3, <2>4, BecomeKeeps
  <2>6. registry' \in Registry /\ Sound(registry')
    BY <1>3 DEF IInv, TypeOK
  <2>7. UNCHANGED <<checkpoint, sidecar, saves>>
    BY DEF RegisterDataset
  <2>8. QED
    BY <2>5, <2>6, <2>7 DEF IInv, TypeOK, Sound
<1>4. CASE me.copy.datasets[m.name] = None
  <2>1. registry' = entered /\ Become(p, next(entered))
    BY <1>4 DEF RegisterDataset
  <2>2. entered \in Registry /\ Sound(entered)
    BY <1>2, <1>4, DatasetEntered
  <2> HIDE DEF entered, next
  <2>3. QED
    BY <1>3, <2>1, <2>2
<1>5. CASE me.copy.datasets[m.name] # None
  <2>1. registry' = registry /\ Become(p, next(me.copy))
    BY <1>5 DEF RegisterDataset
  <2> HIDE DEF next
  <2>2. QED
    BY <1>2, <1>3, <2>1
<1>6. QED
  BY <1>4, <1>5

LEMMA DigestKeeps ==
    ASSUME IInv, NEW p \in Processes, Digest(p)
    PROVE  IInv'
<1> DEFINE me == process[p]
           next == [me EXCEPT !.pc = "sidecar", !.artifact = checkpoint]
<1>1. me \in Process /\ Progress(me) /\ me.pc = "digest" /\ UNCHANGED files
  BY DEF IInv, TypeOK, Digest
<1>2. CASE checkpoint = None
  BY <1>1, <1>2, AbandonKeeps DEF Digest
<1>3. CASE checkpoint # None
  <2>1. checkpoint \in Checkpoint
    BY <1>3 DEF IInv, TypeOK
  <2>2. /\ next \in Process /\ next.pc = "sidecar" /\ next.artifact = checkpoint
        /\ next.model = me.model /\ next.copy = me.copy
    BY <1>1, <2>1 DEF Process
  <2>3. Become(p, next)
    BY <1>3 DEF Digest
  <2> HIDE DEF next
  <2>4. Progress(next)
    BY <1>1, <2>1, <2>2 DEF Progress, Reading
  <2>5. QED
    BY <1>1, <2>2, <2>3, <2>4, OnlyProcess
<1>4. QED
  BY <1>2, <1>3

LEMMA DescribeKeeps ==
    ASSUME IInv, NEW p \in Processes, Describe(p)
    PROVE  IInv'
<1> DEFINE me == process[p]
           next == [me EXCEPT !.pc = "model", !.described = sidecar]
<1>1. me \in Process /\ Progress(me) /\ me.pc = "sidecar" /\ UNCHANGED files
  BY DEF IInv, TypeOK, Describe
<1>2. me.artifact \in Checkpoint
  BY <1>1 DEF Progress
<1>3. CASE sidecar \notin {None, me.artifact}
  BY <1>1, <1>3, AbandonKeeps DEF Describe
<1>4. CASE sidecar \in {None, me.artifact}
  <2>1. /\ next \in Process /\ next.pc = "model" /\ next.artifact = me.artifact
        /\ next.model = me.model /\ next.copy = me.copy /\ next.described = sidecar
    BY <1>1, <1>2, <1>4 DEF Process
  <2>2. Become(p, next)
    BY <1>4 DEF Describe
  <2> HIDE DEF next
  <2>3. Progress(next)
    BY <1>1, <1>2, <1>4, <2>1 DEF Progress, Reading
  <2>4. QED
    BY <1>1, <2>1, <2>2, <2>3, OnlyProcess
<1>5. QED
  BY <1>3, <1>4

LEMMA RegisterModelKeeps ==
    ASSUME IInv, NEW p \in Processes, RegisterModel(p)
    PROVE  IInv'
<1> DEFINE me == process[p]
           entry == [artifact |-> me.artifact, datasets |-> me.names,
                     described |-> me.described]
<1>1. me \in Process /\ Progress(me) /\ me.pc = "model" /\ Become(p, Idle)
  BY DEF IInv, TypeOK, RegisterModel
<1>2. CASE ~Admitted(me.copy, me)
  <2>1. UNCHANGED files
    BY <1>2 DEF RegisterModel, files
  <2>2. QED
    BY <1>1, <2>1, AbandonKeeps
<1>3. CASE Admitted(me.copy, me)
  <2>1. /\ registry' = [me.copy EXCEPT !.models[me.model] = entry]
        /\ UNCHANGED <<checkpoint, sidecar, saves>>
    BY <1>3 DEF RegisterModel
  <2>2. /\ me.model \in Models /\ me.copy \in Registry /\ Sound(me.copy)
        /\ me.artifact \in Checkpoint /\ me.described \in {None, me.artifact}
    BY <1>1 DEF Progress, Reading
  <2>3. entry \in Entry
    BY <1>1, <2>2, Fields DEF Entry
  <2>4. /\ me.copy.models[me.model] = None
        /\ \A n \in entry.datasets : me.copy.datasets[n] # None
        /\ entry.described \in {None, entry.artifact}
    BY <1>3, <2>2 DEF Admitted
  <2> HIDE DEF entry
  <2>5. registry' \in Registry /\ Sound(registry')
    BY <2>1, <2>2, <2>3, <2>4, ModelEntered
  <2>6. /\ process' \in [Processes -> Process]
        /\ \A q \in Processes : Progress(process'[q])
    BY <1>1, IdleIsProper, BecomeKeeps
  <2>7. QED
    BY <2>1, <2>5, <2>6 DEF IInv, TypeOK, Sound
<1>4. QED
  BY <1>2, <1>3

-----------------------------------------------------------------------------
LEMMA InitEstablishes == Init => IInv
<1> SUFFICES ASSUME Init PROVE IInv
  OBVIOUS
<1>1. registry \in Registry /\ Sound(registry)
  BY DEF Init, Registry, Sound
<1>2. /\ process \in [Processes -> Process]
      /\ \A p \in Processes : Progress(process[p])
  BY IdleIsProper DEF Init
<1>3. QED
  BY <1>1, <1>2, LearningAssumption DEF Init, IInv, TypeOK

LEMMA NextKeeps == IInv /\ [Next]_vars => IInv'
<1> SUFFICES ASSUME IInv, [Next]_vars PROVE IInv'
  OBVIOUS
<1>1. CASE UNCHANGED vars
  BY <1>1 DEF vars, IInv, TypeOK, Sound
<1>2. ASSUME NEW p \in Processes, NEW m \in Manifests, NEW model \in Models \cup {None},
             Train(p, m, model)
      PROVE  IInv'
  BY <1>2, CommandsKeep
<1>3. ASSUME NEW p \in Processes, NEW m \in Manifests, RegisterDatasetCommand(p, m)
      PROVE  IInv'
  BY <1>3, CommandsKeep
<1>4. ASSUME NEW p \in Processes, NEW model \in Models, NEW names \in SUBSET Names,
             RegisterModelCommand(p, model, names)
      PROVE  IInv'
  BY <1>4, CommandsKeep
<1>5. ASSUME NEW p \in Processes, Step(p) PROVE IInv'
  BY <1>5, EpochKeeps, FittedKeeps, SaveKeeps, OpenSidecarKeeps, WriteSidecarKeeps,
     LoadKeeps, RegisterDatasetKeeps, DigestKeeps, DescribeKeeps, RegisterModelKeeps
     DEF Step
<1>6. ASSUME NEW p \in Processes, Abandon(p) PROVE IInv'
  BY <1>6, AbandonKeeps DEF Abandon
<1>7. QED
  BY <1>1, <1>2, <1>3, <1>4, <1>5, <1>6 DEF Next

LEMMA Invariant == Spec => []IInv
<1>1. QED
  BY InitEstablishes, NextKeeps, PTL DEF Spec

-----------------------------------------------------------------------------
(* Every step of any number of commands keeps the files and the commands typed. *)
THEOREM TypeCorrect == Spec => []TypeOK
<1>1. IInv => TypeOK
  BY DEF IInv
<1>2. QED
  BY <1>1, Invariant, PTL

(* However many commands overwrite the registry file with what they read before,
   it never has a model without the datasets it names; and however many replace
   checkpoint and sidecar meanwhile, the metadata entered with a model is of the
   checkpoint entered with it. *)
THEOREM ModelsStayGrounded == Spec => []ModelsAreGrounded
<1>1. IInv => ModelsAreGrounded
  BY DEF IInv, Sound, ModelsAreGrounded, DatasetsAreKnown, DescribesItself
<1>2. QED
  BY <1>1, Invariant, PTL

(* For any number of epochs and any losses, the model saved is that of the first
   epoch with the least loss. *)
THEOREM BestStaysSaved == Spec => []BestIsSaved
<1>1. ASSUME IInv PROVE BestIsSaved
  <2> SUFFICES ASSUME NEW p \in Processes, process[p].pc = "save"
               PROVE  LET losses == process[p].losses
                          finite == {k \in 1..Epochs : losses[k] \in Losses} IN
                      IF finite = {} THEN process[p].weights = Epochs
                      ELSE /\ process[p].weights \in finite
                           /\ \A k \in finite : losses[k] >= losses[process[p].weights]
                           /\ \A k \in finite : k < process[p].weights =>
                                  losses[k] > losses[process[p].weights]
    BY DEF BestIsSaved
  <2>1. Progress(process[p])
    BY <1>1 DEF IInv
  <2>2. /\ BestSoFar(process[p]) /\ Len(process[p].losses) = Epochs
        /\ process[p].weights = IF process[p].best # 0 THEN process[p].best ELSE Epochs
    BY <2>1 DEF Progress
  <2>3. Finite(process[p]) = {k \in 1..Epochs : process[p].losses[k] \in Losses}
    BY <2>2 DEF Finite
  <2>4. Finite(process[p]) # {} => process[p].best # 0
    BY <2>2, <2>3, LearningAssumption DEF BestSoFar
  <2>5. QED
    BY <2>2, <2>3, <2>4 DEF BestSoFar
<1>2. QED
  BY <1>1, Invariant, PTL

(* A command under which nobody has written the registry adds to it and neither
   loses nor changes what is there. *)
THEOREM EntriesAreKept == Spec => EntriesStay
<1> DEFINE Kept == /\ \A n \in Names : registry.datasets[n] # None =>
                          registry'.datasets[n] = registry.datasets[n]
                   /\ \A x \in Models : registry.models[x] # None =>
                          registry'.models[x] = registry.models[x]
           Stay == \A p \in Processes :
                      process'[p] # process[p] /\ process[p].copy = registry => Kept
<1>1. ASSUME IInv, [Next]_vars PROVE [Stay]_vars
  <2>1. CASE UNCHANGED registry
    BY <2>1
  <2>2. CASE Next /\ registry' # registry
    <3>1. PICK p \in Processes : RegisterDataset(p) \/ RegisterModel(p)
      BY <2>2 DEF Next, Step, Train, RegisterDatasetCommand, RegisterModelCommand, Epoch,
                  Fitted, Save, OpenSidecar, WriteSidecar, Load, Digest, Describe, Abandon,
                  files
    <3> DEFINE me == process[p]
    <3>2. me \in Process /\ Progress(me)
      BY <1>1 DEF IInv, TypeOK
    <3>3. ASSUME me.copy = registry PROVE Kept
      <4>1. CASE RegisterDataset(p)
        <5>1. /\ me.manifest \in Manifests /\ me.copy \in Registry /\ Sound(me.copy)
              /\ me.copy.datasets[me.manifest.name] = None
              /\ registry' = [me.copy EXCEPT !.datasets[me.manifest.name] = me.manifest]
          BY <2>2, <3>2, <4>1 DEF Progress, RegisterDataset
        <5> HIDE DEF me
        <5>2. QED
          BY <3>3, <5>1, DatasetEntered
      <4>2. CASE RegisterModel(p)
        <5> DEFINE entry == [artifact |-> me.artifact, datasets |-> me.names,
                             described |-> me.described]
        <5>1. /\ me.pc = "model" /\ Admitted(me.copy, me)
              /\ registry' = [me.copy EXCEPT !.models[me.model] = entry]
          BY <2>2, <4>2 DEF RegisterModel
        <5>2. /\ me.model \in Models /\ me.copy \in Registry /\ Sound(me.copy)
              /\ me.artifact \in Checkpoint /\ me.described \in {None, me.artifact}
          BY <3>2, <5>1 DEF Progress, Reading
        <5>3. entry \in Entry
          BY <3>2, <5>2, Fields DEF Entry
        <5>4. /\ me.copy.models[me.model] = None
              /\ \A n \in entry.datasets : me.copy.datasets[n] # None
              /\ entry.described \in {None, entry.artifact}
          BY <5>1, <5>2 DEF Admitted
        <5> HIDE DEF me, entry
        <5>5. QED
          BY <3>3, <5>1, <5>2, <5>3, <5>4, ModelEntered
      <4>3. QED
        BY <3>1, <4>1, <4>2
    <3>4. \A q \in Processes : process'[q] # process[q] => q = p
      <4>1. \E next : Become(p, next)
        BY <3>1 DEF RegisterDataset, RegisterModel
      <4>2. QED
        BY <1>1, <4>1 DEF Become, IInv, TypeOK
    <3>5. QED
      BY <3>3, <3>4
  <2>3. QED
    BY <1>1, <2>1, <2>2 DEF vars
<1>2. QED
  BY <1>1, Invariant, PTL DEF Spec, EntriesStay

-----------------------------------------------------------------------------
(* The windows a command trains on.  What the code sorts, slices and filters is *)
(* what Histories says without a list.                                         *)

(* Samples that Earlier puts in one order. *)
Orderable(S) ==
    /\ \A s \in S : s.id \in Int /\ s.time \in Int
    /\ \A s, t \in S : s.id = t.id => s = t

(* A sequence sorts a set when it is sorted and has all of it. *)
Sorts(q, S) == Sorted(q) /\ \A s \in S : \E i \in DOMAIN q : q[i] = s

LEMMA EarlierOrders ==
    ASSUME NEW S, Orderable(S)
    PROVE  /\ \A s, t \in S : s # t => Earlier(s, t) \/ Earlier(t, s)
           /\ \A s, t \in S : Earlier(s, t) => ~Earlier(t, s) /\ s # t
           /\ \A s, t, u \in S : Earlier(s, t) /\ Earlier(t, u) => Earlier(s, u)
<1> QED BY DEF Orderable, Earlier

(* What comes after all others may be appended. *)
LEMMA SortedAppend ==
    ASSUME NEW T, NEW n \in Nat, NEW y \in T, NEW q \in [1..n -> T \ {y}], Sorts(q, T \ {y}),
           \A t \in T \ {y} : Earlier(t, y)
    PROVE  \E r \in [1..(n + 1) -> T] : Sorts(r, T)
<1> DEFINE r == [i \in 1..(n + 1) |-> IF i <= n THEN q[i] ELSE y]
<1>1. r \in [1..(n + 1) -> T]
  OBVIOUS
<1>2. DOMAIN r = 1..(n + 1) /\ r[n + 1] = y /\ \A i \in 1..n : r[i] = q[i] /\ i \in 1..(n + 1)
  OBVIOUS
<1> HIDE DEF r
<1>3. Sorted(r)
  <2>1. SUFFICES ASSUME NEW i \in 1..(n + 1), NEW j \in 1..(n + 1), i < j PROVE Earlier(r[i], r[j])
    BY <1>2 DEF Sorted
  <2>2. i \in 1..n
    BY <2>1
  <2>3. CASE j = n + 1
    BY <1>2, <2>2, <2>3
  <2>4. CASE j \in 1..n
    BY <1>2, <2>1, <2>2, <2>4 DEF Sorts, Sorted
  <2> QED BY <2>3, <2>4
<1>4. \A t \in T : \E i \in DOMAIN r : r[i] = t
  <2>1. SUFFICES ASSUME NEW t \in T, t # y PROVE \E i \in DOMAIN r : r[i] = t
    BY <1>2
  <2>2. PICK i \in 1..n : q[i] = t
    BY <2>1 DEF Sorts
  <2> QED BY <1>2, <2>2
<1> QED BY <1>1, <1>3, <1>4 DEF Sorts

(* The order of the naturals is well founded, as a relation among others. *)
LEMMA LessThan == \E R : IsWellFoundedOn(R, Nat) /\ \A i, j \in Nat : i < j => <<i, j>> \in R
<1> DEFINE R == OpToRel(<, Nat)
<1>1. IsWellFoundedOn(R, Nat)
  BY NatLessThanWellFounded
<1>2. \A i, j \in Nat : i < j => <<i, j>> \in R
  BY DEF OpToRel
<1> HIDE DEF R
<1> QED BY <1>1, <1>2

(* A set of naturals that is not empty has a least element. *)
LEMMA Least == ASSUME NEW T \in SUBSET Nat, NEW n \in T PROVE \E m \in T : \A k \in T : m <= k
<1>1. PICK R : IsWellFoundedOn(R, Nat) /\ \A i, j \in Nat : i < j => <<i, j>> \in R
  BY LessThan
<1>2. \E x \in T : \A y \in T : ~(<<y, x>> \in R)
  <2>1. T \subseteq Nat /\ T # {} /\ IsWellFoundedOn(R, Nat)
    BY <1>1
  <2> QED BY <2>1, WFMin, Zenon
<1>3. PICK x \in T : \A y \in T : ~(<<y, x>> \in R)
  BY <1>2
<1>4. \A y \in T : x \in Nat /\ y \in Nat /\ ~(y < x)
  BY <1>1, <1>3
<1> QED BY <1>4

(* A set that has zero and the successor of each of its elements has them all. *)
LEMMA Induct ==
    ASSUME NEW S, 0 \in S, \A n \in Nat : n \in S => n + 1 \in S
    PROVE  Nat \subseteq S
<1> SUFFICES ASSUME NEW n \in Nat, n \notin S PROVE FALSE
  OBVIOUS
<1> DEFINE T == {k \in Nat : k \notin S}
<1>1. PICK m \in T : \A k \in T : m <= k
  BY Least
<1>2. m # 0 /\ m - 1 \in Nat
  BY <1>1
<1>3. m - 1 \in S
  BY <1>1, <1>2
<1>4. (m - 1) + 1 \in S
  BY <1>2, <1>3
<1> QED BY <1>1, <1>4


(* Every finite set of samples can be sorted: without the last one by induction,
   which is the last of the others or the one that was left aside. *)
LEMMA Sortable ==
    ASSUME NEW S, IsFiniteSet(S), Orderable(S)
    PROVE  \E q \in [1..Cardinality(S) -> S] : Sorts(q, S)
<1> DEFINE Sizes == {n \in Nat : \A T \in SUBSET S :
                        Cardinality(T) = n => \E q \in [1..n -> T] : Sorts(q, T)}
<1>1. \A T \in SUBSET S : IsFiniteSet(T) /\ Cardinality(T) \in Nat
  BY FS_Subset, FS_CardinalityType
<1>2. \A T \in SUBSET S : \A y \in T : Cardinality(T \ {y}) = Cardinality(T) - 1
  BY <1>1, FS_RemoveElement
<1>3. 0 \in Sizes
  <2>1. SUFFICES ASSUME NEW T \in SUBSET S, Cardinality(T) = 0
                 PROVE  \E q \in [1..0 -> T] : Sorts(q, T)
    OBVIOUS
  <2>2. T = {}
    BY <1>1, <2>1, FS_EmptySet
  <2>3. [i \in 1..0 |-> i] \in [1..0 -> T] /\ Sorts([i \in 1..0 |-> i], T)
    BY <2>2 DEF Sorts, Sorted
  <2> QED BY <2>3
<1>4. ASSUME NEW n \in Nat, n \in Sizes PROVE n + 1 \in Sizes
  <2>1. SUFFICES ASSUME NEW T \in SUBSET S, Cardinality(T) = n + 1
                 PROVE  \E q \in [1..(n + 1) -> T] : Sorts(q, T)
    OBVIOUS
  <2>2. PICK x \in T : TRUE
    BY <1>1, <2>1, FS_EmptySet
  <2>3. \A y \in T : \E q \in [1..n -> T \ {y}] : Sorts(q, T \ {y})
    <3>1. SUFFICES ASSUME NEW y \in T PROVE \E q \in [1..n -> T \ {y}] : Sorts(q, T \ {y})
      OBVIOUS
    <3>2. T \ {y} \in SUBSET S /\ Cardinality(T \ {y}) = n
      BY <1>2, <2>1
    <3> QED BY <1>4, <3>2
  <2> HIDE DEF Sizes
  <2>4. PICK q \in [1..n -> T \ {x}] : Sorts(q, T \ {x})
    BY <2>3
  <2>5. CASE \A t \in T \ {x} : Earlier(t, x)
    BY <2>4, <2>5, SortedAppend
  <2>6. CASE \E t \in T \ {x} : ~Earlier(t, x)
    <3>1. PICK t \in T \ {x} : ~Earlier(t, x)
      BY <2>6
    <3>2. PICK i \in 1..n : q[i] = t
      BY <2>4 DEF Sorts
    <3> DEFINE y == q[n]
    <3>3. n \in 1..n /\ y \in T /\ y # x
      BY <3>2
    <3>4. \A j \in 1..n : j # n => Earlier(q[j], y)
      BY <2>4 DEF Sorts, Sorted
    <3>5. Earlier(x, t)
      BY <3>1, EarlierOrders
    <3> HIDE DEF y
    <3>6. Earlier(x, y)
      <4>1. CASE i = n
        BY <3>2, <3>5, <4>1 DEF y
      <4>2. CASE i # n
        BY <3>2, <3>3, <3>4, <3>5, <4>2, EarlierOrders
      <4> QED BY <4>1, <4>2
    <3>7. \A u \in T \ {y} : Earlier(u, y)
      <4>1. SUFFICES ASSUME NEW u \in T, u # y, u # x PROVE Earlier(u, y)
        BY <3>6
      <4>2. PICK j \in 1..n : q[j] = u
        BY <2>4, <4>1 DEF Sorts
      <4>3. j # n
        BY <4>1, <4>2 DEF y
      <4> QED BY <3>4, <4>2, <4>3
    <3>8. PICK r \in [1..n -> T \ {y}] : Sorts(r, T \ {y})
      BY <2>3, <3>3
    <3> QED BY <3>3, <3>7, <3>8, SortedAppend
  <2> QED BY <2>5, <2>6
<1> HIDE DEF Sizes
<1>5. Nat \subseteq Sizes
  BY <1>3, <1>4, Induct
<1>6. Cardinality(S) \in Sizes
  BY <1>1, <1>5
<1> QED BY <1>6 DEF Sizes

(* Ordered is the recording's samples, all of them, in their order. *)
LEMMA OrderedSorts ==
    ASSUME NEW m, WellFormed(m), NEW recording
    PROVE  LET S == {s \in m.samples : s.recording = recording}
               q == Ordered(m, recording)
           IN  q \in Seq(S) /\ Sorts(q, S)
<1> DEFINE S == {s \in m.samples : s.recording = recording}
           q == Ordered(m, recording)
           n == Cardinality(S)
<1>1. S \subseteq m.samples /\ IsFiniteSet(m.samples) /\ Orderable(S)
  BY DEF WellFormed, Orderable
<1>2. IsFiniteSet(S) /\ n \in Nat
  BY <1>1, FS_Subset, FS_CardinalityType
<1>3. q = CHOOSE f \in SetToSeqs(S) : Sorted(f)
  BY DEF Ordered
<1> HIDE DEF S, q, n
<1>4. \E f \in SetToSeqs(S) : Sorted(f)
  <2>1. PICK f \in [1..n -> S] : Sorts(f, S)
    BY <1>1, <1>2, Sortable DEF n
  <2>2. ASSUME NEW i \in 1..n, NEW j \in 1..n, i # j PROVE f[i] # f[j]
    <3>1. Earlier(f[i], f[j]) \/ Earlier(f[j], f[i])
      BY <2>1, <2>2 DEF Sorts, Sorted
    <3> QED BY <1>1, <3>1, EarlierOrders
  <2> QED BY <2>1, <2>2 DEF SetToSeqs, Sorts, n
<1>5. q \in SetToSeqs(S) /\ Sorted(q)
  BY <1>3, <1>4
<1>6. q \in [1..n -> S] /\ \A i, j \in 1..n : i # j => q[i] # q[j]
  BY <1>5 DEF SetToSeqs, n
<1>7. q \in Surjection(1..n, S)
  <2>1. q \in Injection(1..n, S)
    BY <1>6 DEF Injection, IsInjective
  <2>2. IsFiniteSet(1..n) /\ Cardinality(1..n) = Cardinality(S)
    BY <1>2, FS_Interval DEF n
  <2> QED BY <1>2, <2>1, <2>2, FS_Injection
<1>8. \A s \in S : \E i \in DOMAIN q : q[i] = s
  BY <1>6, <1>7 DEF Surjection
<1>9. q \in Seq(S)
  BY <1>2, <1>6
<1> QED BY <1>5, <1>8, <1>9 DEF Sorts, S, q

-----------------------------------------------------------------------------
(* A window of a recording, and the samples it has. *)
LEMMA WindowIs ==
    ASSUME NEW S, NEW q \in Seq(S), NEW k \in Nat, k + History <= Len(q),
           NEW w, w = SubSeq(q, k + 1, k + History)
    PROVE  /\ w \in [1..History -> S] /\ Len(w) = History
           /\ \A i \in 1..History : w[i] = q[k + i] /\ k + i \in DOMAIN q
<1>1. History \in Nat /\ History > 0
  BY WindowAssumption
<1>2. DOMAIN q = 1..Len(q) /\ Len(q) \in Nat /\ \A i \in 1..Len(q) : q[i] \in S
  OBVIOUS
<1>3. \A i \in (k + 1)..(k + History) : q[i] \in S
  BY <1>1, <1>2
<1>4. /\ w \in Seq(S) /\ Len(w) = History
      /\ \A i \in 1..History : w[i] = q[(k + 1) + i - 1]
  BY <1>1, <1>3, SubSeqProperties
<1>5. w \in [1..History -> S]
  <2>1. \A s \in Seq(S) : s \in [1..Len(s) -> S]
    OBVIOUS
  <2>2. w \in [1..Len(w) -> S]
    BY <1>4, <2>1, Zenon
  <2> QED BY <1>4, <2>2
<1>6. \A i \in 1..History : (k + 1) + i - 1 = k + i /\ k + i \in 1..Len(q)
  BY <1>1, <1>2
<1> QED BY <1>2, <1>4, <1>5, <1>6

(* Windows are histories. *)
LEMMA WindowsAre ==
    ASSUME NEW m, WellFormed(m), NEW targets PROVE Windows(m, targets) \subseteq Histories(m, targets)
<1>1. SUFFICES ASSUME NEW w \in Windows(m, targets) PROVE w \in Histories(m, targets)
  OBVIOUS
<1>2. PICK r \in {s.recording : s \in m.samples} :
          w \in {v \in {SubSeq(Ordered(m, r), k + 1, k + History) : k \in Starts(Len(Ordered(m, r)))} :
                    v[History] \in targets /\ Continuous(v) /\ SameCameras(v)}
  BY DEF Windows
<1> DEFINE S == {s \in m.samples : s.recording = r}
           q == Ordered(m, r)
<1>3. q \in Seq(S) /\ Sorts(q, S)
  BY OrderedSorts
<1>4. w[History] \in targets /\ Continuous(w) /\ SameCameras(w)
  BY <1>2
<1>5. PICK k \in Starts(Len(q)) : w = SubSeq(q, k + 1, k + History)
  BY <1>2
<1>6. S \subseteq m.samples /\ (\A s \in S : s.recording = r) /\ (\A s \in m.samples : s.recording = r => s \in S)
      /\ Orderable(S)
  BY DEF WellFormed, Orderable
<1> HIDE DEF q, S
<1>7. k \in Nat /\ k + History <= Len(q) /\ History \in Nat /\ History > 0 /\ Len(q) \in Nat
  BY <1>3, <1>5, WindowAssumption DEF Starts
<1>8. /\ w \in [1..History -> S] /\ Len(w) = History
      /\ \A i \in 1..History : w[i] = q[k + i] /\ k + i \in DOMAIN q
  BY <1>3, <1>5, <1>7, WindowIs
<1>9. DOMAIN q = 1..Len(q) /\ \A i \in DOMAIN q : q[i] \in S
  BY <1>3
<1>10. \A i \in 1..History - 1 : Earlier(w[i], w[i + 1])
  <2>1. SUFFICES ASSUME NEW i \in 1..History - 1 PROVE Earlier(w[i], w[i + 1])
    OBVIOUS
  <2>2. i \in 1..History /\ i + 1 \in 1..History /\ k + i < k + (i + 1)
    BY <1>7
  <2> QED BY <1>3, <1>8, <2>2 DEF Sorts, Sorted
<1>11. ASSUME NEW s \in m.samples, s.recording = w[1].recording, Earlier(w[1], s), Earlier(s, w[History])
       PROVE  \E i \in 1..History : w[i] = s
  <2>1. 1 \in 1..History /\ History \in 1..History
    BY <1>7
  <2>2. s \in S
    BY <1>6, <1>8, <1>11, <2>1
  <2>3. PICK j \in DOMAIN q : q[j] = s
    BY <1>3, <2>2 DEF Sorts
  <2>4. j > k + 1
    <3>1. ASSUME j < k + 1 PROVE FALSE
      <4>1. Earlier(s, w[1])
        BY <1>3, <1>8, <2>1, <2>3, <3>1 DEF Sorts, Sorted
      <4> QED BY <1>6, <1>8, <1>11, <2>1, <2>2, <4>1, EarlierOrders
    <3>2. j # k + 1
      BY <1>6, <1>8, <1>11, <2>1, <2>2, <2>3, EarlierOrders
    <3> QED BY <1>7, <1>9, <3>1, <3>2
  <2>5. j < k + History
    <3>1. ASSUME j > k + History PROVE FALSE
      <4>1. Earlier(w[History], s)
        BY <1>3, <1>8, <2>1, <2>3, <3>1 DEF Sorts, Sorted
      <4> QED BY <1>6, <1>8, <1>11, <2>1, <2>2, <4>1, EarlierOrders
    <3>2. j # k + History
      BY <1>6, <1>8, <1>11, <2>1, <2>2, <2>3, EarlierOrders
    <3> QED BY <1>7, <1>9, <3>1, <3>2
  <2>6. j - k \in 1..History /\ k + (j - k) = j
    BY <1>7, <1>9, <2>4, <2>5
  <2> QED BY <1>8, <2>3, <2>6
<1>12. \A i \in 1..History : w[i].recording = w[1].recording /\ w[i].cameras = w[1].cameras
  <2>1. \A i \in 1..History : w[i] \in S /\ w[1] \in S
    BY <1>7, <1>8
  <2>2. \A i \in 1..History : w[i].cameras = w[1].cameras
    BY <1>4, <1>8 DEF SameCameras
  <2> QED BY <1>6, <2>1, <2>2
<1>13. \A i \in 1..History - 1 : w[i + 1].time - w[i].time <= MaxGap
  BY <1>4, <1>8 DEF Continuous
<1>14. w \in [1..History -> m.samples]
  BY <1>6, <1>8
<1> QED BY <1>4, <1>10, <1>11, <1>12, <1>13, <1>14 DEF Histories

(* And with a stride of one, every history is a window: it begins somewhere in its
   recording, and goes on with the next sample each time. *)
LEMMA HistoriesAre ==
    ASSUME NEW m, WellFormed(m), NEW targets, Stride = 1 PROVE Histories(m, targets) \subseteq Windows(m, targets)
<1>1. SUFFICES ASSUME NEW w \in Histories(m, targets) PROVE w \in Windows(m, targets)
  OBVIOUS
<1> DEFINE r == w[1].recording
           S == {s \in m.samples : s.recording = r}
           q == Ordered(m, r)
<1>2. q \in Seq(S) /\ Sorts(q, S)
  BY OrderedSorts
<1>3. History \in Nat /\ History > 0 /\ 1 \in 1..History /\ History \in 1..History
  BY WindowAssumption
<1>4. w \in [1..History -> S]
  BY DEF Histories
<1>5. S \subseteq m.samples /\ Orderable(S)
  BY DEF WellFormed, Orderable
<1>6. /\ w[History] \in targets
      /\ \A i \in 1..History - 1 : Earlier(w[i], w[i + 1])
      /\ \A s \in S : Earlier(w[1], s) /\ Earlier(s, w[History]) => \E i \in 1..History : w[i] = s
      /\ \A i \in 1..History : w[i].cameras = w[1].cameras
      /\ \A i \in 1..History - 1 : w[i + 1].time - w[i].time <= MaxGap
  BY DEF Histories
<1>7. r \in {s.recording : s \in m.samples}
  BY <1>3 DEF Histories
<1> HIDE DEF q, S, r
<1>8. DOMAIN q = 1..Len(q) /\ Len(q) \in Nat /\ \A i \in DOMAIN q : q[i] \in S
  BY <1>2
(* It goes one way only. *)
<1>9. \A d \in Nat : \A i, j \in 1..History : j = i + d + 1 => Earlier(w[i], w[j])
  <2> DEFINE D == {d \in Nat : \A i, j \in 1..History : j = i + d + 1 => Earlier(w[i], w[j])}
  <2>1. 0 \in D
    <3>1. \A i, j \in 1..History : j = i + 0 + 1 => i \in 1..History - 1 /\ j = i + 1
      BY <1>3
    <3> QED BY <1>6, <3>1
  <2>2. ASSUME NEW d \in Nat, d \in D PROVE d + 1 \in D
    <3>1. SUFFICES ASSUME NEW i \in 1..History, NEW j \in 1..History, j = i + (d + 1) + 1
                   PROVE  Earlier(w[i], w[j])
      OBVIOUS
    <3>2. j - 1 \in 1..History /\ j - 1 = i + d + 1 /\ j - 1 \in 1..History - 1 /\ (j - 1) + 1 = j
      BY <1>3, <3>1
    <3>3. Earlier(w[i], w[j - 1])
      BY <2>2, <3>2
    <3>4. Earlier(w[j - 1], w[j])
      BY <1>6, <3>2
    <3>5. w[i] \in S /\ w[j] \in S /\ w[j - 1] \in S
      BY <1>4, <3>2
    <3> QED BY <1>5, <3>3, <3>4, <3>5, EarlierOrders
  <2> HIDE DEF D
  <2>3. Nat \subseteq D
    BY <2>1, <2>2, Induct
  <2> QED BY <2>3 DEF D
<1>10. \A i, j \in 1..History : i < j => Earlier(w[i], w[j])
  <2>1. SUFFICES ASSUME NEW i \in 1..History, NEW j \in 1..History, i < j PROVE Earlier(w[i], w[j])
    OBVIOUS
  <2>2. j - i - 1 \in Nat /\ j = i + (j - i - 1) + 1
    BY <2>1
  <2> QED BY <1>9, <2>2
(* It takes the next sample each time. *)
<1>11. ASSUME NEW i \in 1..History - 1, NEW a \in DOMAIN q, w[i] = q[a]
       PROVE  a + 1 \in DOMAIN q /\ w[i + 1] = q[a + 1]
  <2>1. i \in 1..History /\ i + 1 \in 1..History /\ w[i] \in S /\ w[i + 1] \in S
        /\ w[1] \in S /\ w[History] \in S
    BY <1>3, <1>4
  <2>2. PICK b \in DOMAIN q : q[b] = w[i + 1]
    BY <1>2, <2>1 DEF Sorts
  <2>3. Earlier(w[i], w[i + 1])
    BY <1>6
  <2>4. b > a
    <3>1. b # a
      BY <1>5, <1>11, <2>1, <2>2, <2>3, EarlierOrders
    <3>2. ASSUME b < a PROVE FALSE
      <4>1. Earlier(w[i + 1], w[i])
        BY <1>2, <1>11, <2>2, <3>2 DEF Sorts, Sorted
      <4> QED BY <1>5, <2>1, <2>3, <4>1, EarlierOrders
    <3> QED BY <1>8, <3>1, <3>2
  <2>5. a + 1 \in DOMAIN q /\ q[a + 1] \in S
    BY <1>8, <2>4
  <2>6. ASSUME b > a + 1 PROVE FALSE
    <3> DEFINE s == q[a + 1]
    <3>1. Earlier(w[i], s) /\ Earlier(s, w[i + 1])
      BY <1>2, <1>8, <1>11, <2>2, <2>5, <2>6 DEF Sorts, Sorted
    <3>2. Earlier(w[1], s)
      <4>1. i = 1 \/ 1 < i
        BY <1>3
      <4> QED BY <1>3, <1>5, <1>10, <2>1, <2>5, <3>1, <4>1, EarlierOrders
    <3>3. Earlier(s, w[History])
      <4>1. i + 1 = History \/ i + 1 < History
        BY <1>3
      <4> QED BY <1>3, <1>5, <1>10, <2>1, <2>5, <3>1, <4>1, EarlierOrders
    <3>4. PICK j \in 1..History : w[j] = s
      BY <1>6, <2>5, <3>2, <3>3
    <3> HIDE DEF s
    <3>5. j < i \/ j = i \/ j = i + 1 \/ j > i + 1
      BY <1>3
    <3>6. w[j] \in S
      BY <1>4
    <3>7. Earlier(w[i], w[j]) /\ Earlier(w[j], w[i + 1])
      BY <3>1, <3>4
    <3>8. CASE j < i
      <4>1. Earlier(w[j], w[i])
        BY <1>10, <2>1, <3>8
      <4> QED BY <1>5, <2>1, <3>6, <3>7, <4>1, EarlierOrders
    <3>9. CASE j > i + 1
      <4>1. Earlier(w[i + 1], w[j])
        BY <1>10, <2>1, <3>9
      <4> QED BY <1>5, <2>1, <3>6, <3>7, <4>1, EarlierOrders
    <3>10. CASE j = i \/ j = i + 1
      BY <1>5, <2>1, <3>6, <3>7, <3>10, EarlierOrders
    <3> QED BY <3>5, <3>8, <3>9, <3>10
  <2>7. b = a + 1
    BY <1>8, <2>4, <2>6
  <2> QED BY <2>2, <2>7
<1>12. PICK a \in DOMAIN q : q[a] = w[1]
  BY <1>2, <1>3, <1>4 DEF Sorts
<1>13. \A d \in Nat : d < History => a + d \in DOMAIN q /\ w[d + 1] = q[a + d]
  <2> DEFINE D == {d \in Nat : d < History => a + d \in DOMAIN q /\ w[d + 1] = q[a + d]}
  <2>1. 0 \in D
    BY <1>8, <1>12
  <2>2. ASSUME NEW d \in Nat, d \in D PROVE d + 1 \in D
    <3>1. SUFFICES ASSUME d + 1 < History PROVE a + (d + 1) \in DOMAIN q /\ w[(d + 1) + 1] = q[a + (d + 1)]
      OBVIOUS
    <3>2. d + 1 \in 1..History - 1 /\ a + d \in DOMAIN q /\ w[d + 1] = q[a + d]
      BY <1>3, <2>2, <3>1
    <3>3. (a + d) + 1 \in DOMAIN q /\ w[(d + 1) + 1] = q[(a + d) + 1]
      BY <1>11, <3>2
    <3>4. (a + d) + 1 = a + (d + 1)
      BY <1>8
    <3> QED BY <3>3, <3>4
  <2> HIDE DEF D
  <2>3. Nat \subseteq D
    BY <2>1, <2>2, Induct
  <2> QED BY <2>3 DEF D
<1> DEFINE k == a - 1
           v == SubSeq(q, k + 1, k + History)
<1>14. k \in Nat /\ k + History <= Len(q)
  <2>1. History - 1 \in Nat /\ History - 1 < History /\ a \in 1..Len(q)
    BY <1>3, <1>8
  <2>2. a + (History - 1) \in 1..Len(q)
    BY <1>8, <1>13, <2>1
  <2> QED BY <1>3, <1>8, <2>1, <2>2
<1>15. /\ v \in [1..History -> S] /\ Len(v) = History
       /\ \A i \in 1..History : v[i] = q[k + i]
  BY <1>2, <1>14, WindowIs
<1> HIDE DEF v
<1>16. \A i \in 1..History : w[i] = v[i]
  <2>1. SUFFICES ASSUME NEW i \in 1..History PROVE w[i] = v[i]
    OBVIOUS
  <2>2. i - 1 \in Nat /\ i - 1 < History /\ (i - 1) + 1 = i /\ a + (i - 1) = k + i
    BY <1>3, <1>8
  <2> QED BY <1>13, <1>15, <2>2
<1>17. w = v
  BY <1>4, <1>15, <1>16
<1>18. k \in Starts(Len(q))
  BY <1>3, <1>8, <1>14 DEF Starts
<1>19. Continuous(w) /\ SameCameras(w)
  BY <1>6, <1>15, <1>17 DEF Continuous, SameCameras
<1>20. w \in {SubSeq(q, j + 1, j + History) : j \in Starts(Len(q))}
  BY <1>17, <1>18 DEF v
<1> QED BY <1>6, <1>7, <1>19, <1>20 DEF Windows, q

(* For any dataset, history, stride and gap, a command trains on histories of its
   dataset; with a stride of one, on all of them. *)
THEOREM WindowsStayHistories == Spec => []WindowsAreHistories
<1>1. ASSUME NEW m \in Manifests, NEW name \in {"train", "validation"}
      PROVE  /\ Dataset[m][name] \subseteq Histories(m, Split(m, name))
             /\ Stride = 1 => Histories(m, Split(m, name)) \subseteq Dataset[m][name]
  <2>1. Dataset[m][name] = Windows(m, Split(m, name))
    BY DEF Dataset
  <2>2. WellFormed(m)
    BY LearningAssumption
  <2> QED BY <2>1, <2>2, WindowsAre, HistoriesAre
<1>2. IInv => \A p \in Processes : process[p].pc = "fit" => process[p].manifest \in Manifests
  BY DEF IInv, Progress
<1>3. IInv => WindowsAreHistories
  BY <1>1, <1>2 DEF WindowsAreHistories
<1> QED BY <1>3, Invariant, PTL
=============================================================================
