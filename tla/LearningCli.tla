---------------------------- MODULE LearningCli ----------------------------
(***************************************************************************)
(* vision_shark/learning_cli.py with autonomy/training.py,                 *)
(* autonomy/learning_provenance.py and model_registry.py: the commands that *)
(* train a model, save its checkpoint with a sidecar and enter datasets and *)
(* models in the provenance registry.                                      *)
(*                                                                         *)
(* Every command is a process of its own; they share the files, here one   *)
(* registry and one checkpoint path.  A process reads the registry once    *)
(* and replaces the whole file when it enters something.  A checkpoint is  *)
(* told from others by a stamp, which stands for its digest.               *)
(*                                                                         *)
(* An operator whose comment begins with `Slip' is no part of the model: it *)
(* is a mistake the operator after it could have been written with, and     *)
(* which the runs tell from the model.                                      *)
(***************************************************************************)
EXTENDS SequenceWindows

CONSTANTS
    Processes, Manifests, Models,
    Epochs,
    Losses,    \* finite validation losses
    NaN,       \* one that is not
    MaxSaves,  \* bound on the checkpoints saved
    Torn,      \* a sidecar that was begun and not finished
    None

Names == {m.name : m \in Manifests}

(* The SequenceWindowDataset of each split of each manifest. *)
Dataset == [m \in Manifests |-> [name \in {"train", "validation"} |-> Windows(m, Split(m, name))]]

ASSUME LearningAssumption ==
    /\ \A m \in Manifests : WellFormed(m)
    /\ None \notin Manifests
    /\ Epochs \in Nat \ {0} /\ MaxSaves \in Nat
    /\ Losses \subseteq Nat /\ NaN \notin Losses

VARIABLES
    registry,    \* the registry file: datasets by name, models by name
    checkpoint,  \* what is at the checkpoint path: [stamp, manifest] or None
    sidecar,     \* the checkpoint its sidecar describes, Torn or None
    saves,       \* checkpoints saved so far
    process      \* the command each process runs

vars == <<registry, checkpoint, sidecar, saves, process>>
files == <<registry, checkpoint, sidecar, saves>>

Checkpoint == [stamp : 1..MaxSaves, manifest : Manifests]
Entry == [artifact : Checkpoint, datasets : SUBSET Names,
          described : Checkpoint \cup {None}]
Registry == [datasets : [Names -> Manifests \cup {None}],
             models : [Models -> Entry \cup {None}]]

LossList == UNION {[1..n -> Losses \cup {NaN}] : n \in 0..Epochs}

Process == [pc : {"idle", "fit", "save", "describe", "write", "load", "dataset",
                  "digest", "sidecar", "model"},
            manifest : Manifests \cup {None}, model : Models \cup {None},
            names : SUBSET Names,                 \* datasets a model is entered with
            losses : LossList,
            best : 0..Epochs,                     \* best_epoch
            weights : 0..Epochs,                  \* the epoch the model is left at
            copy : Registry \cup {None},          \* ProvenanceRegistry.data
            artifact : Checkpoint \cup {None}, described : Checkpoint \cup {None}]

Idle == [pc |-> "idle", manifest |-> None, model |-> None, names |-> {},
         losses |-> <<>>, best |-> 0, weights |-> 0, copy |-> None,
         artifact |-> None, described |-> None]

Init ==
    /\ registry = [datasets |-> [n \in Names |-> None], models |-> [x \in Models |-> None]]
    /\ checkpoint = None /\ sidecar = None /\ saves = 0
    /\ process = [p \in Processes |-> Idle]

Become(p, next) == process' = [process EXCEPT ![p] = next]

-----------------------------------------------------------------------------
(* train.                                                                     *)

(* _training_objects: either dataset without a window ends the command.  Without
   --registry there is no model to enter. *)
Train(p, m, model) ==
    /\ process[p].pc = "idle"
    /\ Dataset[m]["train"] # {} /\ Dataset[m]["validation"] # {}
    /\ Become(p, [Idle EXCEPT !.pc = "fit", !.manifest = m, !.model = model,
                              !.names = {m.name}])
    /\ UNCHANGED files

(* Slip: an epoch with a loss that is no number counts as an improvement. *)
ImprovesNot(loss, me) ==
    ~(me.best # 0 /\ me.losses[me.best] \in Losses
        /\ loss \in Losses /\ loss >= me.losses[me.best])

(* validation_result["loss"] < best_validation, which begins at infinity. *)
Improves(loss, me) ==
    loss \in Losses /\ (me.best # 0 => loss < me.losses[me.best])

(* One round of fit_world_model. *)
Epoch(p) ==
    LET me == process[p]
        m == me.manifest IN
    /\ me.pc = "fit" /\ Len(me.losses) < Epochs
    /\ \A name \in {"train", "validation"} :
            \A w \in Dataset[m][name] : Loadable(m, w)
    /\ \E loss \in Losses \cup {NaN} :
            Become(p, [me EXCEPT !.losses = Append(@, loss),
                                 !.best = IF Improves(loss, me) THEN Len(me.losses) + 1 ELSE @])
    /\ UNCHANGED files

(* The best state is loaded back, if there is one. *)
Fitted(p) ==
    LET me == process[p] IN
    /\ me.pc = "fit" /\ Len(me.losses) = Epochs
    /\ Become(p, [me EXCEPT !.pc = "save",
                            !.weights = IF me.best # 0 THEN me.best ELSE Epochs])
    /\ UNCHANGED files

(* save_checkpoint: the checkpoint is replaced as a whole. *)
Save(p) ==
    LET me == process[p]
        saved == [stamp |-> saves + 1, manifest |-> me.manifest] IN
    /\ me.pc = "save" /\ saves < MaxSaves
    /\ saves' = saves + 1
    /\ checkpoint' = saved
    /\ Become(p, [me EXCEPT !.pc = "describe", !.artifact = saved,
                            !.losses = <<>>, !.best = 0, !.weights = 0])
    /\ UNCHANGED <<registry, sidecar>>

(* Its sidecar is written in place; over what another command has put there since,
   the end of the other one's text may stay behind. *)
OpenSidecar(p) ==
    /\ process[p].pc = "describe"
    /\ sidecar' = Torn
    /\ Become(p, [process[p] EXCEPT !.pc = "write"])
    /\ UNCHANGED <<registry, checkpoint, saves>>

WriteSidecar(p) ==
    LET me == process[p] IN
    /\ me.pc = "write"
    /\ \/ sidecar' = me.artifact
       \/ sidecar # Torn /\ sidecar' = Torn
    /\ Become(p, IF me.model = None THEN Idle
                 ELSE [me EXCEPT !.pc = "load", !.artifact = None])
    /\ UNCHANGED <<registry, checkpoint, saves>>

-----------------------------------------------------------------------------
(* register-dataset, register-model and the end of train.                     *)

RegisterDatasetCommand(p, m) ==
    /\ process[p].pc = "idle"
    /\ Become(p, [Idle EXCEPT !.pc = "load", !.manifest = m])
    /\ UNCHANGED files

RegisterModelCommand(p, model, names) ==
    /\ process[p].pc = "idle"
    /\ names # {}
    /\ Become(p, [Idle EXCEPT !.pc = "load", !.model = model, !.names = names])
    /\ UNCHANGED files

(* ProvenanceRegistry(path). *)
Load(p) ==
    LET me == process[p] IN
    /\ me.pc = "load"
    /\ Become(p, [me EXCEPT !.pc = IF me.manifest # None THEN "dataset" ELSE "digest",
                            !.copy = registry])
    /\ UNCHANGED files

(* register_dataset_manifest.  A dataset that is entered already ends
   register-dataset; train goes on with the one that is there. *)
RegisterDataset(p) ==
    LET me == process[p]
        name == me.manifest.name
        entered == [me.copy EXCEPT !.datasets[name] = me.manifest]
        next(copy) == IF me.model = None THEN Idle
                      ELSE [me EXCEPT !.pc = "digest", !.copy = copy] IN
    /\ me.pc = "dataset"
    /\ \/ /\ me.copy.datasets[name] = None
          /\ registry' = entered
          /\ Become(p, next(entered))
       \/ /\ me.copy.datasets[name] # None
          /\ Become(p, next(me.copy))
          /\ UNCHANGED registry
    /\ UNCHANGED <<checkpoint, sidecar, saves>>

(* register_model_checkpoint: the checkpoint's digest, ... *)
Digest(p) ==
    /\ process[p].pc = "digest"
    /\ Become(p, IF checkpoint = None THEN Idle
                 ELSE [process[p] EXCEPT !.pc = "sidecar", !.artifact = checkpoint])
    /\ UNCHANGED files

(* Slip: the digest a sidecar claims is not looked at. *)
DescribeUnchecked(p) ==
    LET me == process[p] IN
    /\ me.pc = "sidecar"
    /\ Become(p, IF sidecar = Torn THEN Idle
                 ELSE [me EXCEPT !.pc = "model", !.described = sidecar])
    /\ UNCHANGED files

(* ... its sidecar, if there is one, ... *)
Describe(p) ==
    LET me == process[p] IN
    /\ me.pc = "sidecar"
    /\ Become(p, IF sidecar \in {None, me.artifact}
                 THEN [me EXCEPT !.pc = "model", !.described = sidecar]
                 ELSE Idle)
    /\ UNCHANGED files

(* Slip: a later model takes the name of an earlier one. *)
AdmittedAgain(copy, me) == \A n \in me.names : copy.datasets[n] # None

Admitted(copy, me) ==
    copy.models[me.model] = None /\ \A n \in me.names : copy.datasets[n] # None

(* ... and register_model. *)
RegisterModel(p) ==
    LET me == process[p] IN
    /\ me.pc = "model"
    /\ \/ /\ Admitted(me.copy, me)
          /\ registry' = [me.copy EXCEPT !.models[me.model] =
                            [artifact |-> me.artifact, datasets |-> me.names,
                             described |-> me.described]]
       \/ ~Admitted(me.copy, me) /\ UNCHANGED registry
    /\ Become(p, Idle)
    /\ UNCHANGED <<checkpoint, sidecar, saves>>

(* A command is killed, or ends with an error that is none of the above. *)
Abandon(p) ==
    /\ process[p].pc # "idle"
    /\ Become(p, Idle)
    /\ UNCHANGED files

Step(p) ==
    \/ Epoch(p) \/ Fitted(p) \/ Save(p) \/ OpenSidecar(p) \/ WriteSidecar(p)
    \/ Load(p) \/ RegisterDataset(p) \/ Digest(p) \/ Describe(p) \/ RegisterModel(p)

Next == \E p \in Processes :
    \/ \E m \in Manifests, model \in Models \cup {None} : Train(p, m, model)
    \/ \E m \in Manifests : RegisterDatasetCommand(p, m)
    \/ \E model \in Models, names \in SUBSET Names : RegisterModelCommand(p, model, names)
    \/ Step(p)
    \/ Abandon(p)

Spec == Init /\ [][Next]_vars

-----------------------------------------------------------------------------
TypeOK ==
    /\ registry \in Registry
    /\ checkpoint \in Checkpoint \cup {None}
    /\ sidecar \in Checkpoint \cup {Torn, None}
    /\ saves \in 0..MaxSaves
    /\ process \in [Processes -> Process]

(* A command trains on exactly the histories its dataset has: no window crosses a
   gap, a recording or a change of cameras, none is left out (a stride of one
   takes them all), and only what comes last decides which split it is in. *)
WindowsAreHistories ==
    \A p \in Processes : process[p].pc = "fit" =>
        LET m == process[p].manifest IN
        \A name \in {"train", "validation"} :
            /\ Dataset[m][name] \subseteq Histories(m, Split(m, name))
            /\ Stride = 1 => Histories(m, Split(m, name)) \subseteq Dataset[m][name]

(* "Best-validation model restoration": what is saved is the first epoch with the
   least validation loss, whatever epochs without a finite loss came between; the
   last epoch if none had one. *)
BestIsSaved ==
    \A p \in Processes : process[p].pc = "save" =>
        LET losses == process[p].losses
            finite == {k \in 1..Epochs : losses[k] \in Losses} IN
        IF finite = {} THEN process[p].weights = Epochs
        ELSE /\ process[p].weights \in finite
             /\ \A k \in finite : losses[k] >= losses[process[p].weights]
             /\ \A k \in finite : k < process[p].weights =>
                    losses[k] > losses[process[p].weights]

(* "Model requires registered dataset": no registry file has a model without the
   datasets it names, although every command overwrites the whole file with what
   it has read before. *)
DatasetsAreKnown ==
    \A x \in Models : registry.models[x] # None =>
        \A n \in registry.models[x].datasets : registry.datasets[n] # None

(* "If a checkpoint sidecar claims a different hash than the actual checkpoint,
   registration is rejected": the metadata entered with a model is of the
   checkpoint entered, although another command may replace one or the other
   between the two reads. *)
DescribesItself ==
    \A x \in Models : registry.models[x] # None =>
        registry.models[x].described \in {None, registry.models[x].artifact}

(* What a model's entry rests on is what it says: datasets that are registered,
   and the metadata of its own checkpoint. *)
ModelsAreGrounded == DatasetsAreKnown /\ DescribesItself

(* "Immutable dataset/model registry": a command which no other one has written
   the registry under loses and changes no entry. *)
EntriesStay ==
    [][\A p \in Processes :
        process'[p] # process[p] /\ process[p].copy = registry =>
            /\ \A n \in Names : registry.datasets[n] # None =>
                    registry'.datasets[n] = registry.datasets[n]
            /\ \A x \in Models : registry.models[x] # None =>
                    registry'.models[x] = registry.models[x]]_vars
=============================================================================
