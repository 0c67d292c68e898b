----------------------- MODULE ProfileRegistryProofs -----------------------
(***************************************************************************)
(* Proofs about ProfileRegistry, for any number of processes that share    *)
(* the registry, any bundles, vehicles and catalogs.                       *)
(*                                                                         *)
(* What a synchronization records rests on what it has done in between, so *)
(* the invariant follows each process: what it no longer misses of its     *)
(* catalog is installed.  Others can only add to what is installed.        *)
(*                                                                         *)
(* What an import has read goes stale when another process imports, so     *)
(* what rests on it is proved for one process at a time (OneProcess): two  *)
(* violate it, as the run MCProfileRegistryTwo shows of the active one.    *)
(***************************************************************************)
EXTENDS ProfileRegistry, TLAPS

Importing == {"import", "copy", "insert"}
Settled == {"assign", "record"}

(* How far a process has come with its catalog. *)
Progress(p) ==
    LET me == process[p] IN
    /\ me.pc \in {"copy", "insert"} => me.bundle # None
    /\ me.pc \in {"plan", "import"} \cup Settled => me.catalog # None
    /\ me.pc \in Importing /\ me.catalog # None =>
            me.catalog.bundles \ me.missing \subseteq profiles
    /\ me.pc \in Settled => me.catalog.bundles \subseteq profiles

IInv ==
    /\ TypeOK
    /\ \A p \in Processes : Progress(p)
    /\ AssignedIsInstalled
    /\ RecordedIsInstalled

-----------------------------------------------------------------------------
(* The fields of a process and of a catalog. *)
LEMMA Fields ==
    ASSUME NEW me \in Process
    PROVE  /\ me.bundle \in Bundles \cup {None}
           /\ me.seen \in Versions \cup {0}
           /\ me.catalog \in Catalogs \cup {None}
           /\ me.catalog # None => me.catalog \in Catalogs /\ me.catalog.bundles \subseteq Bundles
           /\ me.missing \subseteq Bundles
           /\ me.unassigned \subseteq Vehicles
BY RegistryAssumption DEF Process, WellFormed

LEMMA IdleIsProcess == Idle \in Process
BY DEF Idle, Process, Versions

(* A process that moves on keeps the others as they are. *)
LEMMA BecomeKeeps ==
    ASSUME IInv, NEW p \in Processes, NEW next \in Process, Become(p, next),
           profiles \subseteq profiles',
           next.pc \in {"copy", "insert"} => next.bundle # None,
           next.pc \in {"plan", "import"} \cup Settled => next.catalog # None,
           next.pc \in Importing /\ next.catalog # None =>
                next.catalog.bundles \ next.missing \subseteq profiles',
           next.pc \in Settled => next.catalog.bundles \subseteq profiles'
    PROVE  /\ process' \in [Processes -> Process]
           /\ \A q \in Processes : Progress(q)'
<1>1. process \in [Processes -> Process]
  BY DEF IInv, TypeOK
<1>2. process' = [process EXCEPT ![p] = next]
  BY DEF Become
<1>3. process' \in [Processes -> Process]
  BY <1>1, <1>2
<1>4. ASSUME NEW q \in Processes PROVE Progress(q)'
  <2>1. CASE q = p
    <3>1. process'[q] = next
      BY <1>1, <1>2, <2>1
    <3>2. QED
      BY <3>1 DEF Progress
  <2>2. CASE q # p
    <3>1. process'[q] = process[q]
      BY <1>1, <1>2, <2>2
    <3>2. Progress(q)
      BY DEF IInv
    <3>3. QED
      BY <3>1, <3>2 DEF Progress
  <2>3. QED
    BY <2>1, <2>2
<1>5. QED
  BY <1>3, <1>4

(* An operation that ends leaves nothing to follow. *)
LEMMA FailKeeps ==
    ASSUME IInv, NEW p \in Processes, Become(p, Idle), profiles \subseteq profiles'
    PROVE  /\ process' \in [Processes -> Process]
           /\ \A q \in Processes : Progress(q)'
<1>1. Idle.pc = "idle"
  BY DEF Idle
<1>2. QED
  BY <1>1, IdleIsProcess, BecomeKeeps DEF Importing, Settled

(* What does not touch the database leaves its part of the invariant. *)
LEMMA SameDatabase ==
    ASSUME IInv, UNCHANGED db, files' \subseteq Bundles,
           process' \in [Processes -> Process], \A q \in Processes : Progress(q)'
    PROVE  IInv'
BY DEF IInv, TypeOK, db, AssignedIsInstalled, RecordedIsInstalled

(* An import returns to the synchronization it is part of, with its bundle
   installed, or ends. *)
LEMMA ReturnedKeeps ==
    ASSUME IInv, NEW p \in Processes, NEW me \in Process, Become(p, Returned(me)),
           profiles \subseteq profiles', me.bundle \in profiles',
           me.catalog # None => me.catalog.bundles \ me.missing \subseteq profiles'
    PROVE  /\ process' \in [Processes -> Process]
           /\ \A q \in Processes : Progress(q)'
<1>1. CASE me.catalog = None
  BY <1>1, FailKeeps DEF Returned
<1>2. CASE me.catalog # None
  <2> DEFINE next == [me EXCEPT !.pc = "import", !.bundle = None, !.seen = 0,
                                !.missing = @ \ {me.bundle}]
  <2>1. Returned(me) = next
    BY <1>2 DEF Returned
  <2>2. next \in Process
    BY DEF Process
  <2>3. /\ next.pc = "import" /\ next.catalog = me.catalog
        /\ next.missing = me.missing \ {me.bundle}
    BY DEF Process
  <2>4. next.catalog.bundles \ next.missing \subseteq profiles'
    BY <1>2, <2>3
  <2> HIDE DEF next
  <2>5. QED
    BY <1>2, <2>1, <2>2, <2>3, <2>4, BecomeKeeps DEF Importing, Settled
<1>3. QED
  BY <1>1, <1>2

(* import_bundle up to the copy: it fails, returns or has a copy before it. *)
LEMMA LookupKeeps ==
    ASSUME IInv, NEW p \in Processes, NEW me \in Process, NEW b \in Bundles, Lookup(p, me, b),
           UNCHANGED profiles,
           me.catalog # None => me.catalog.bundles \ me.missing \subseteq profiles
    PROVE  /\ process' \in [Processes -> Process]
           /\ \A q \in Processes : Progress(q)'
<1>1. CASE Conflicting(b)
  BY <1>1, FailKeeps DEF Lookup, Fail
<1>2. CASE ~Conflicting(b) /\ b \in profiles
  <2> DEFINE here == [me EXCEPT !.bundle = b]
  <2>1. /\ here \in Process /\ here.bundle = b /\ here.catalog = me.catalog
        /\ here.missing = me.missing
    BY DEF Process
  <2>2. Become(p, Returned(here))
    BY <1>2 DEF Lookup
  <2> HIDE DEF here
  <2>3. QED
    BY <1>2, <2>1, <2>2, ReturnedKeeps
<1>3. CASE ~Conflicting(b) /\ b \notin profiles
  <2> DEFINE next == [me EXCEPT !.pc = "copy", !.bundle = b, !.seen = active[b.pack]]
  <2>1. Become(p, next)
    BY <1>3 DEF Lookup
  <2>2. active[b.pack] \in Versions \cup {0}
    BY DEF IInv, TypeOK, Packs
  <2>3. /\ next \in Process /\ next.pc = "copy" /\ next.bundle = b
        /\ next.catalog = me.catalog /\ next.missing = me.missing
    BY <2>2 DEF Process
  <2>4. b # None
    BY RegistryAssumption
  <2> HIDE DEF next
  <2>5. QED
    BY <2>1, <2>3, <2>4, BecomeKeeps DEF Importing, Settled
<1>4. QED
  BY <1>1, <1>2, <1>3

-----------------------------------------------------------------------------
(* One lemma per operation: it keeps the invariant. *)

(* What the invariant says of one process. *)
LEMMA TypeOfProcess ==
    ASSUME IInv, NEW p \in Processes
    PROVE  process[p] \in Process /\ Progress(p)
BY DEF IInv, TypeOK

(* `profile import' begins. *)
LEMMA ImportKeeps ==
    ASSUME IInv, NEW p \in Processes, NEW b \in Bundles, Import(p, b)
    PROVE  IInv'
<1>1. Lookup(p, Idle, b) /\ UNCHANGED db /\ UNCHANGED profiles /\ UNCHANGED files
  BY DEF Import, db
<1>2. Idle.catalog = None
  BY DEF Idle
<1>3. /\ process' \in [Processes -> Process]
      /\ \A q \in Processes : Progress(q)'
  BY <1>1, <1>2, IdleIsProcess, LookupKeeps
<1>4. files' \subseteq Bundles
  BY <1>1 DEF IInv, TypeOK
<1>5. QED
  BY <1>1, <1>3, <1>4, SameDatabase

(* The bundle is copied, or the import fails. *)
LEMMA CopyKeeps ==
    ASSUME IInv, NEW p \in Processes, Copy(p)
    PROVE  IInv'
<1> DEFINE me == process[p]
           next == [me EXCEPT !.pc = "insert"]
<1>1. me \in Process /\ Progress(p) /\ me.pc = "copy"
  BY TypeOfProcess DEF Copy
<1>2. me.bundle \in Bundles
  BY <1>1, Fields DEF Progress
<1>3. UNCHANGED db /\ UNCHANGED profiles
  BY DEF Copy, db
<1>4. Become(p, next) \/ Become(p, Idle)
  BY DEF Copy, Fail
<1>5. files' \subseteq Bundles
  BY <1>2 DEF Copy, IInv, TypeOK
<1>6. /\ next \in Process /\ next.pc = "insert" /\ next.bundle = me.bundle
      /\ next.catalog = me.catalog /\ next.missing = me.missing
  BY <1>1 DEF Process
<1>7. next.catalog # None => next.catalog.bundles \ next.missing \subseteq profiles'
  BY <1>1, <1>3, <1>6 DEF Progress, Importing
<1>8. me.bundle # None
  BY <1>1 DEF Progress
<1> HIDE DEF next, me
<1>9. /\ process' \in [Processes -> Process]
      /\ \A q \in Processes : Progress(q)'
  <2>1. CASE Become(p, next)
    BY <2>1, <1>3, <1>6, <1>7, <1>8, BecomeKeeps DEF Importing, Settled
  <2>2. CASE Become(p, Idle)
    BY <2>2, <1>3, FailKeeps
  <2>3. QED
    BY <1>4, <2>1, <2>2
<1>10. QED
  BY <1>3, <1>5, <1>9, SameDatabase

(* The transaction of import_bundle only adds to what is installed. *)
LEMMA InsertKeeps ==
    ASSUME IInv, NEW p \in Processes, Insert(p)
    PROVE  IInv'
<1> DEFINE me == process[p]
<1>1. me \in Process /\ Progress(p) /\ me.pc = "insert"
  BY TypeOfProcess DEF Insert
<1>2. me.bundle \in Bundles
  BY <1>1, Fields DEF Progress
<1>3. me.catalog # None => me.catalog.bundles \ me.missing \subseteq profiles
  BY <1>1 DEF Progress, Importing
<1>4. /\ UNCHANGED <<assigned, peer>>
      /\ profiles' = profiles \/ profiles' = profiles \cup {me.bundle}
      /\ files' = files \/ files' = files \ {me.bundle}
  BY DEF Insert
<1>5. active' \in [Packs -> Versions \cup {0}]
  <2>1. active' = active \/ active' = [active EXCEPT ![me.bundle.pack] = me.bundle.version]
    BY DEF Insert, ActiveAfter
  <2>2. me.bundle.version \in Versions /\ active \in [Packs -> Versions \cup {0}]
    BY <1>2 DEF Versions, IInv, TypeOK
  <2>3. QED
    BY <2>1, <2>2
<1>6. \/ Become(p, Returned(me)) /\ me.bundle \in profiles'
      \/ Become(p, Idle)
  BY DEF Insert, Fail
<1>7. /\ process' \in [Processes -> Process]
      /\ \A q \in Processes : Progress(q)'
  <2>1. CASE Become(p, Returned(me)) /\ me.bundle \in profiles'
    <3>1. me.catalog # None => me.catalog.bundles \ me.missing \subseteq profiles'
      BY <1>3, <1>4
    <3> HIDE DEF me
    <3>2. QED
      BY <2>1, <3>1, <1>1, <1>4, ReturnedKeeps
  <2>2. CASE Become(p, Idle)
    BY <2>2, <1>4, FailKeeps
  <2>3. QED
    BY <1>6, <2>1, <2>2
<1>8. TypeOK'
  BY <1>2, <1>4, <1>5, <1>7 DEF IInv, TypeOK
<1>9. AssignedIsInstalled' /\ RecordedIsInstalled'
  BY <1>4 DEF IInv, AssignedIsInstalled, RecordedIsInstalled
<1>10. QED
  BY <1>7, <1>8, <1>9 DEF IInv

(* assign_vehicle names an installed profile. *)
LEMMA AssignVehicleKeeps ==
    ASSUME IInv, NEW p \in Processes, NEW v \in Vehicles, NEW b \in Bundles,
           AssignVehicle(p, v, b)
    PROVE  IInv'
BY DEF AssignVehicle, IInv, TypeOK, Progress, AssignedIsInstalled, RecordedIsInstalled

(* A synchronization begins with nothing done. *)
LEMMA SyncKeeps ==
    ASSUME IInv, NEW p \in Processes, NEW c \in Catalogs, NEW apply \in BOOLEAN,
           Sync(p, c, apply)
    PROVE  IInv'
<1> DEFINE next == [Idle EXCEPT !.pc = "plan", !.catalog = c, !.apply = apply]
<1>1. /\ next \in Process /\ next.pc = "plan" /\ next.catalog = c
  BY IdleIsProcess DEF Process, Idle
<1>2. c # None
  BY RegistryAssumption
<1>3. Become(p, next) /\ UNCHANGED db /\ UNCHANGED profiles /\ UNCHANGED files
  BY DEF Sync, db
<1> HIDE DEF next
<1>4. /\ process' \in [Processes -> Process]
      /\ \A q \in Processes : Progress(q)'
  BY <1>1, <1>2, <1>3, BecomeKeeps DEF Importing, Settled
<1>5. files' \subseteq Bundles
  BY <1>3 DEF IInv, TypeOK
<1>6. QED
  BY <1>3, <1>4, <1>5, SameDatabase

(* What the plan does not list as missing is installed. *)
LEMMA PlanKeeps ==
    ASSUME IInv, NEW p \in Processes, Plan(p)
    PROVE  IInv'
<1> DEFINE me == process[p]
           next == [me EXCEPT !.pc = "import", !.missing = me.catalog.bundles \ profiles]
<1>1. me \in Process /\ Progress(p) /\ me.pc = "plan"
  BY TypeOfProcess DEF Plan
<1>2. me.catalog # None /\ me.catalog.bundles \subseteq Bundles
  BY <1>1, Fields DEF Progress
<1>3. UNCHANGED db /\ UNCHANGED profiles /\ UNCHANGED files
  BY DEF Plan, db
<1>4. /\ next \in Process /\ next.pc = "import" /\ next.catalog = me.catalog
      /\ next.missing = me.catalog.bundles \ profiles
  BY <1>1, <1>2 DEF Process
<1>5. next.catalog.bundles \ next.missing \subseteq profiles'
  BY <1>3, <1>4
<1>6. Become(p, next) \/ Become(p, Idle)
  BY DEF Plan, Fail
<1> HIDE DEF next, me
<1>7. /\ process' \in [Processes -> Process]
      /\ \A q \in Processes : Progress(q)'
  <2>1. CASE Become(p, next)
    BY <2>1, <1>2, <1>3, <1>4, <1>5, BecomeKeeps DEF Importing, Settled
  <2>2. CASE Become(p, Idle)
    BY <2>2, <1>3, FailKeeps
  <2>3. QED
    BY <1>6, <2>1, <2>2
<1>8. files' \subseteq Bundles
  BY <1>3 DEF IInv, TypeOK
<1>9. QED
  BY <1>3, <1>7, <1>8, SameDatabase

(* A missing bundle is imported, or the wrong one, or none. *)
LEMMA SyncImportKeeps ==
    ASSUME IInv, NEW p \in Processes, SyncImport(p)
    PROVE  IInv'
<1> DEFINE me == process[p]
<1>1. me \in Process /\ Progress(p) /\ me.pc = "import"
  BY TypeOfProcess DEF SyncImport
<1>2. UNCHANGED db /\ UNCHANGED profiles /\ UNCHANGED files
  BY DEF SyncImport, db
<1>3. me.catalog # None => me.catalog.bundles \ me.missing \subseteq profiles
  BY <1>1 DEF Progress, Importing
<1>4. PICK b \in FirstOf(me.missing) :
        \/ Lookup(p, me, b)
        \/ \E other \in Bundles \ {b} : Lookup(p, Idle, other)
        \/ Fail(p)
  BY DEF SyncImport
<1>5. b \in Bundles
  BY <1>1, Fields DEF FirstOf
<1> HIDE DEF me
<1>6. /\ process' \in [Processes -> Process]
      /\ \A q \in Processes : Progress(q)'
  <2>1. CASE Lookup(p, me, b)
    BY <2>1, <1>1, <1>2, <1>3, <1>5, LookupKeeps
  <2>2. CASE \E other \in Bundles \ {b} : Lookup(p, Idle, other)
    <3>1. PICK other \in Bundles : Lookup(p, Idle, other)
      BY <2>2
    <3>2. Idle.catalog = None
      BY DEF Idle
    <3>3. QED
      BY <3>1, <3>2, <1>2, IdleIsProcess, LookupKeeps
  <2>3. CASE Fail(p)
    BY <2>3, <1>2, FailKeeps DEF Fail
  <2>4. QED
    BY <1>4, <2>1, <2>2, <2>3
<1>7. files' \subseteq Bundles
  BY <1>2 DEF IInv, TypeOK
<1>8. QED
  BY <1>2, <1>6, <1>7, SameDatabase

(* With nothing missing any more, the whole catalog is installed. *)
LEMMA SyncImportedKeeps ==
    ASSUME IInv, NEW p \in Processes, SyncImported(p)
    PROVE  IInv'
<1> DEFINE me == process[p]
           assign == [me EXCEPT !.pc = "assign", !.unassigned =
                         {v \in Vehicles : me.catalog.assigned[v] # None}]
           record == [me EXCEPT !.pc = "record"]
<1>1. me \in Process /\ Progress(p) /\ me.pc = "import" /\ me.missing = {}
  BY TypeOfProcess DEF SyncImported
<1>2. UNCHANGED db /\ UNCHANGED profiles /\ UNCHANGED files
  BY DEF SyncImported, db
<1>3. me.catalog # None /\ me.catalog.bundles \subseteq profiles
  BY <1>1 DEF Progress, Importing
<1>4. Become(p, assign) \/ Become(p, record)
  BY DEF SyncImported
<1>5. /\ assign \in Process /\ assign.pc = "assign" /\ assign.catalog = me.catalog
      /\ record \in Process /\ record.pc = "record" /\ record.catalog = me.catalog
  BY <1>1 DEF Process
<1> HIDE DEF assign, record, me
<1>6. /\ process' \in [Processes -> Process]
      /\ \A q \in Processes : Progress(q)'
  <2>1. CASE Become(p, assign)
    BY <2>1, <1>2, <1>3, <1>5, BecomeKeeps DEF Importing, Settled
  <2>2. CASE Become(p, record)
    BY <2>2, <1>2, <1>3, <1>5, BecomeKeeps DEF Importing, Settled
  <2>3. QED
    BY <1>4, <2>1, <2>2
<1>7. files' \subseteq Bundles
  BY <1>2 DEF IInv, TypeOK
<1>8. QED
  BY <1>2, <1>6, <1>7, SameDatabase

(* The assignments of a catalog, all of whose bundles are installed. *)
LEMMA SyncAssignKeeps ==
    ASSUME IInv, NEW p \in Processes, SyncAssign(p)
    PROVE  IInv'
<1> DEFINE me == process[p]
<1>1. me \in Process /\ Progress(p) /\ me.pc = "assign"
  BY TypeOfProcess DEF SyncAssign
<1>2. UNCHANGED <<profiles, active, peer, files>>
  BY DEF SyncAssign
<1>3. me.catalog # None /\ me.catalog.bundles \subseteq profiles
  BY <1>1 DEF Progress, Settled
<1>4. PICK next \in Process :
        /\ Become(p, next)
        /\ \/ next = Idle
           \/ next.pc \in Settled /\ next.catalog = me.catalog
  <2>1. CASE \E v \in me.unassigned : Become(p, [me EXCEPT !.unassigned = @ \ {v}])
    <3>1. PICK v \in me.unassigned : Become(p, [me EXCEPT !.unassigned = @ \ {v}])
      BY <2>1
    <3> DEFINE next == [me EXCEPT !.unassigned = @ \ {v}]
    <3>2. next \in Process /\ next.pc = "assign" /\ next.catalog = me.catalog
      BY <1>1 DEF Process
    <3>3. QED
      BY <3>1, <3>2 DEF Settled
  <2>2. CASE Become(p, [me EXCEPT !.pc = "record"])
    <3> DEFINE next == [me EXCEPT !.pc = "record"]
    <3>1. next \in Process /\ next.pc = "record" /\ next.catalog = me.catalog
      BY <1>1 DEF Process
    <3>2. QED
      BY <2>2, <3>1 DEF Settled
  <2>3. CASE Become(p, Idle)
    BY <2>3, IdleIsProcess
  <2>4. QED
    BY <2>1, <2>2, <2>3 DEF SyncAssign, Fail
<1>5. /\ process' \in [Processes -> Process]
      /\ \A q \in Processes : Progress(q)'
  <2>1. CASE next = Idle
    BY <2>1, <1>2, <1>4, FailKeeps
  <2>2. CASE next.pc \in Settled /\ next.catalog = me.catalog
    <3> HIDE DEF me
    <3>1. next.pc \notin Importing /\ next.pc # "plan"
      BY <2>2 DEF Importing, Settled
    <3>2. QED
      BY <2>2, <3>1, <1>2, <1>3, <1>4, BecomeKeeps DEF Importing, Settled
  <2>3. QED
    BY <1>4, <2>1, <2>2
<1>6. /\ assigned' \in [Vehicles -> Bundles \cup {None}]
      /\ AssignedIsInstalled'
  <2>1. \/ UNCHANGED assigned
        \/ \E v \in Vehicles, b \in profiles : assigned' = [assigned EXCEPT ![v] = b]
    BY <1>1, Fields DEF SyncAssign
  <2>2. QED
    BY <1>2, <2>1 DEF IInv, TypeOK, AssignedIsInstalled
<1>7. QED
  BY <1>2, <1>5, <1>6 DEF IInv, TypeOK, RecordedIsInstalled

(* The catalog that is recorded is installed. *)
LEMMA RecordKeeps ==
    ASSUME IInv, NEW p \in Processes, Record(p)
    PROVE  IInv'
<1>1. /\ process[p] \in Process /\ Progress(p) /\ process[p].pc = "record"
      /\ peer' = process[p].catalog /\ Become(p, Idle)
      /\ UNCHANGED <<profiles, active, assigned, files>>
  BY TypeOfProcess DEF Record
<1>2. peer' \in Catalogs \cup {None}
  BY <1>1, Fields
<1>3. RecordedIsInstalled'
  BY <1>1 DEF Progress, Settled, RecordedIsInstalled
<1>4. /\ process' \in [Processes -> Process]
      /\ \A q \in Processes : Progress(q)'
  BY <1>1, FailKeeps
<1>5. QED
  BY <1>1, <1>2, <1>3, <1>4 DEF IInv, TypeOK, AssignedIsInstalled

(* A killed process leaves the database and the files as they are. *)
LEMMA CrashKeeps ==
    ASSUME IInv, NEW p \in Processes, Crash(p)
    PROVE  IInv'
<1>1. Become(p, Idle) /\ UNCHANGED db /\ UNCHANGED profiles /\ UNCHANGED files
  BY DEF Crash, db
<1>2. files' \subseteq Bundles
  BY <1>1 DEF IInv, TypeOK
<1>3. QED
  BY <1>1, <1>2, FailKeeps, SameDatabase

-----------------------------------------------------------------------------
(* A new registry satisfies the invariant. *)
LEMMA InitHolds == Init => IInv
<1> SUFFICES ASSUME Init PROVE IInv
  OBVIOUS
<1>1. TypeOK
  BY IdleIsProcess DEF Init, TypeOK
<1>2. \A p \in Processes : Progress(p)
  BY DEF Init, Progress, Idle, Importing, Settled
<1>3. QED
  BY <1>1, <1>2 DEF Init, IInv, AssignedIsInstalled, RecordedIsInstalled

(* Every step keeps the invariant. *)
LEMMA NextKeeps == IInv /\ [Next]_vars => IInv'
<1> SUFFICES ASSUME IInv, [Next]_vars PROVE IInv'
  OBVIOUS
<1>1. ASSUME NEW p \in Processes, NEW b \in Bundles, Import(p, b) PROVE IInv'
  BY <1>1, ImportKeeps
<1>2. ASSUME NEW p \in Processes, NEW v \in Vehicles, NEW b \in Bundles,
             AssignVehicle(p, v, b)
      PROVE  IInv'
  BY <1>2, AssignVehicleKeeps
<1>3. ASSUME NEW p \in Processes, NEW c \in Catalogs, NEW apply \in BOOLEAN,
             Sync(p, c, apply)
      PROVE  IInv'
  BY <1>3, SyncKeeps
<1>4. ASSUME NEW p \in Processes, Step(p) PROVE IInv'
  BY <1>4, CopyKeeps, InsertKeeps, PlanKeeps, SyncImportKeeps, SyncImportedKeeps,
     SyncAssignKeeps, RecordKeeps DEF Step
<1>5. ASSUME NEW p \in Processes, Crash(p) PROVE IInv'
  BY <1>5, CrashKeeps
<1>6. CASE UNCHANGED vars
  BY <1>6 DEF vars, IInv, TypeOK, Progress, AssignedIsInstalled, RecordedIsInstalled
<1>7. QED
  BY <1>1, <1>2, <1>3, <1>4, <1>5, <1>6 DEF Next

(* The invariant of the registry holds throughout. *)
THEOREM Invariance == Spec => []IInv
BY InitHolds, NextKeeps, PTL DEF Spec

(* Every operation keeps the tables, the files and the processes well typed,
   whoever else uses the registry. *)
THEOREM TypeCorrect == Spec => []TypeOK
<1>1. IInv => TypeOK
  BY DEF IInv
<1>2. QED
  BY <1>1, Invariance, PTL

(* However processes import, assign and synchronize next to each other, and
   wherever they are killed, assign_vehicle and the assignments of a catalog
   only ever name an installed profile, and record_peer_state only ever records
   a catalog whose bundles are all installed: one that was cut short is done
   again. *)
THEOREM UsedStaysInstalled == Spec => []UsedIsInstalled
<1>1. IInv => UsedIsInstalled
  BY DEF IInv, UsedIsInstalled
<1>2. QED
  BY <1>1, Invariance, PTL

-----------------------------------------------------------------------------
(* One process at a time.  What an import has looked up is still so when it   *)
(* copies and inserts, and what a synchronization was allowed to accept it is *)
(* still allowed to record.  With two processes neither holds.                *)

(* At most one process has the registry open. *)
OneProcess == \A p, q \in Processes : p = q

(* An import has a bundle that is not installed under its version, goes by the
   active version there is, and has the file in place before it inserts. *)
Current(p) ==
    LET me == process[p] IN
    /\ me.pc \in {"copy", "insert"} =>
            /\ ~\E a \in profiles : SameVersion(a, me.bundle)
            /\ me.seen = active[me.bundle.pack]
    /\ me.pc = "insert" => me.bundle \in files
    /\ me.catalog # None => Acceptable(me.catalog)

(* The invariant of one process, on top of what holds of any number. *)
SoloInv ==
    /\ IInv
    /\ InstalledHasFile
    /\ ActiveIsNewest
    /\ \A p \in Processes : Current(p)

(* The process goes on; what it goes by is as the registry is then. *)
LEMMA GoesOn ==
    ASSUME OneProcess, IInv, NEW p \in Processes, NEW next \in Process, Become(p, next),
           next.pc \in {"copy", "insert"} =>
                /\ ~\E a \in profiles' : SameVersion(a, next.bundle)
                /\ next.seen = active'[next.bundle.pack],
           next.pc = "insert" => next.bundle \in files',
           next.catalog # None /\ peer' # None =>
                next.catalog.sequence > peer'.sequence \/ next.catalog = peer'
    PROVE  \A q \in Processes : Current(q)'
<1> SUFFICES ASSUME NEW q \in Processes PROVE Current(q)'
  OBVIOUS
<1>1. process'[q] = next
  BY DEF OneProcess, Become, IInv, TypeOK
<1> QED BY <1>1 DEF Current, Acceptable, SameVersion

(* Which version is the newest depends on the database alone. *)
LEMMA StillNewest ==
    ASSUME ActiveIsNewest, UNCHANGED db PROVE ActiveIsNewest'
BY DEF ActiveIsNewest, db

(* A process that ends has looked at nothing. *)
LEMMA EndsCurrent ==
    ASSUME OneProcess, IInv, NEW p \in Processes, Become(p, Idle)
    PROVE  \A q \in Processes : Current(q)'
<1>1. Idle \in Process /\ Idle.pc = "idle" /\ Idle.catalog = None
  BY IdleIsProcess DEF Idle
<1> QED BY <1>1, GoesOn

(* A process that returns from an import is at no bundle. *)
LEMMA ReturnsCurrent ==
    ASSUME OneProcess, IInv, NEW p \in Processes, NEW me \in Process, Become(p, Returned(me)),
           me.catalog # None /\ peer' # None =>
                me.catalog.sequence > peer'.sequence \/ me.catalog = peer'
    PROVE  \A q \in Processes : Current(q)'
<1>1. CASE me.catalog = None
  BY <1>1, EndsCurrent DEF Returned
<1>2. CASE me.catalog # None
  <2> DEFINE next == [me EXCEPT !.pc = "import", !.bundle = None, !.seen = 0,
                                !.missing = @ \ {me.bundle}]
  <2>1. Returned(me) = next
    BY <1>2 DEF Returned
  <2>2. next \in Process /\ next.pc = "import" /\ next.catalog = me.catalog
    BY DEF Process
  <2> HIDE DEF next
  <2> QED BY <2>1, <2>2, GoesOn
<1> QED BY <1>1, <1>2

(* A look at the registry is up to date. *)
LEMMA LookupCurrent ==
    ASSUME OneProcess, IInv, NEW p \in Processes, NEW me \in Process, NEW b \in Bundles,
           Lookup(p, me, b), UNCHANGED <<profiles, active, peer, files>>,
           me.catalog # None => Acceptable(me.catalog)
    PROVE  \A q \in Processes : Current(q)'
<1>0. me.catalog # None /\ peer' # None =>
           me.catalog.sequence > peer'.sequence \/ me.catalog = peer'
  BY DEF Acceptable
<1>1. CASE Conflicting(b)
  BY <1>1, EndsCurrent DEF Lookup, Fail
<1>2. CASE ~Conflicting(b) /\ b \in profiles
  <2> DEFINE here == [me EXCEPT !.bundle = b]
  <2>1. here \in Process /\ here.catalog = me.catalog
    BY DEF Process
  <2>2. Become(p, Returned(here))
    BY <1>2 DEF Lookup
  <2> HIDE DEF here
  <2> QED BY <1>0, <2>1, <2>2, ReturnsCurrent
<1>3. CASE ~Conflicting(b) /\ b \notin profiles
  <2> DEFINE next == [me EXCEPT !.pc = "copy", !.bundle = b, !.seen = active[b.pack]]
  <2>1. Become(p, next)
    BY <1>3 DEF Lookup
  <2>2. active[b.pack] \in Versions \cup {0}
    BY DEF IInv, TypeOK, Packs
  <2>3. /\ next \in Process /\ next.pc = "copy" /\ next.bundle = b
        /\ next.catalog = me.catalog /\ next.seen = active[b.pack]
    BY <2>2 DEF Process
  <2>4. ~\E a \in profiles' : SameVersion(a, b)
    BY <1>3 DEF Conflicting
  <2> HIDE DEF next
  <2> QED BY <1>0, <2>1, <2>3, <2>4, GoesOn
<1> QED BY <1>1, <1>2, <1>3

(* A step that leaves the tables and the files as they are. *)
LEMMA ReadsOnly ==
    ASSUME SoloInv, IInv', UNCHANGED <<profiles, active, files>>,
           \A q \in Processes : Current(q)'
    PROVE  SoloInv'
BY DEF SoloInv, InstalledHasFile, ActiveIsNewest

(* The copy is made whatever the folder held: the file is then there to insert. *)
LEMMA CopyCurrent == ASSUME OneProcess, SoloInv, NEW p \in Processes, Copy(p) PROVE SoloInv'
<1> DEFINE me == process[p]
           next == [me EXCEPT !.pc = "insert"]
<1>1. /\ me \in Process /\ Progress(p) /\ Current(p) /\ me.pc = "copy"
      /\ UNCHANGED <<profiles, active, assigned, peer>> /\ IInv /\ IInv'
  BY TypeOfProcess, CopyKeeps DEF Copy, SoloInv, db
<1>2. me.bundle \notin profiles
  BY <1>1 DEF Current, SameVersion
<1>3. InstalledHasFile'
  BY <1>1, <1>2 DEF Copy, SoloInv, InstalledHasFile
<1>4. /\ next \in Process /\ next.pc = "insert" /\ next.bundle = me.bundle
      /\ next.catalog = me.catalog /\ next.seen = me.seen
  BY <1>1 DEF Process
<1>5. (Become(p, next) /\ me.bundle \in files') \/ Become(p, Idle)
  BY DEF Copy, Fail
<1> HIDE DEF next
<1>6. \A q \in Processes : Current(q)'
  BY <1>1, <1>4, <1>5, GoesOn, EndsCurrent DEF Current, Acceptable
<1>7. ActiveIsNewest'
  BY <1>1, StillNewest DEF SoloInv, db
<1> QED BY <1>1, <1>3, <1>6, <1>7 DEF SoloInv

(* The version that is inserted is the active one if it is the newest. *)
LEMMA InsertCurrent ==
    ASSUME OneProcess, SoloInv, NEW p \in Processes, Insert(p)
    PROVE  SoloInv' /\ \A pack \in Packs : active'[pack] >= active[pack]
<1> DEFINE me == process[p]
           b == me.bundle
<1>1. /\ me \in Process /\ Progress(p) /\ Current(p) /\ me.pc = "insert"
      /\ UNCHANGED <<assigned, peer>> /\ IInv /\ IInv' /\ b \in Bundles
  BY TypeOfProcess, InsertKeeps, Fields DEF Insert, SoloInv, Progress
<1>2. /\ b \notin profiles /\ b \in files /\ me.seen = active[b.pack] /\ b.pack \in Packs
      /\ b.version \in Nat \ {0} /\ b.version \in Versions
      /\ \A a \in profiles : a \in Bundles /\ a.version \in Nat \ {0}
      /\ active \in [Packs -> Versions \cup {0}] /\ Versions \subseteq Nat
  BY <1>1, RegistryAssumption DEF Current, SameVersion, Packs, Versions, IInv, TypeOK
<1>0. \A pack \in Packs : active[pack] \in Nat
  <2>1. active \in [Packs -> Versions \cup {0}] /\ Versions \subseteq Nat
    BY RegistryAssumption DEF Versions, SoloInv, IInv, TypeOK
  <2>2. Versions \cup {0} \subseteq Nat
    BY <2>1
  <2> QED BY <2>1, <2>2
<1>3. CASE /\ profiles' = profiles \cup {b} /\ active' = ActiveAfter(me)
           /\ Become(p, Returned(me)) /\ UNCHANGED files
  <2>1. InstalledHasFile'
    BY <1>2, <1>3 DEF SoloInv, InstalledHasFile
  <2>2. \A q \in Processes : Current(q)'
    <3> HIDE DEF me
    <3> QED BY <1>1, <1>3, ReturnsCurrent DEF Current, Acceptable, me
  <2> DEFINE old == {c.version : c \in {d \in profiles : d.pack = b.pack}}
             was == active[b.pack]
  <2>3. /\ old \subseteq Nat \ {0} /\ was \in Nat
        /\ IF old = {} THEN was = 0 ELSE was \in old /\ \A v \in old : v <= was
    <3>1. old \subseteq Nat \ {0}
      BY <1>2
    <3>2. was \in Nat
      BY <1>0, <1>2
    <3>3. IF old = {} THEN was = 0 ELSE was \in old /\ \A v \in old : v <= was
      BY <1>2 DEF SoloInv, ActiveIsNewest
    <3> QED BY <3>1, <3>2, <3>3
  <2>4. {c.version : c \in {d \in profiles' : d.pack = b.pack}} = old \cup {b.version}
    BY <1>3
  <2>5. active'[b.pack] = IF was = 0 \/ b.version > was THEN b.version ELSE was
    BY <1>2, <1>3 DEF ActiveAfter
  <2>6. \A pack \in Packs \ {b.pack} : active'[pack] = active[pack]
    BY <1>2, <1>3 DEF ActiveAfter
  <2> HIDE DEF old, was, b
  <2>7. /\ active'[b.pack] \in old \cup {b.version}
        /\ \A v \in old \cup {b.version} : v <= active'[b.pack]
        /\ active'[b.pack] >= was
    <3>1. b.version \in Nat \ {0}
      BY <1>2
    <3> QED BY <2>3, <2>5, <3>1
  <2>8. ActiveIsNewest'
    <3> SUFFICES ASSUME NEW pack \in Packs
                 PROVE  LET installed == {c.version : c \in {d \in profiles' : d.pack = pack}} IN
                        IF installed = {} THEN active'[pack] = 0
                        ELSE active'[pack] \in installed /\ \A v \in installed : v <= active'[pack]
      BY DEF ActiveIsNewest
    <3>1. CASE pack = b.pack
      BY <2>4, <2>7, <3>1
    <3>2. CASE pack # b.pack
      <4>1. {d \in profiles' : d.pack = pack} = {d \in profiles : d.pack = pack}
        BY <1>3, <3>2
      <4>2. active'[pack] = active[pack]
        BY <2>6, <3>2
      <4> QED BY <4>1, <4>2 DEF SoloInv, ActiveIsNewest
    <3> QED BY <3>1, <3>2
  <2>9. \A pack \in Packs : active'[pack] >= active[pack]
    BY <1>0, <2>6, <2>7 DEF was
  <2> QED BY <1>1, <2>1, <2>2, <2>8, <2>9 DEF SoloInv
<1>4. CASE files' = files \ {b} /\ Become(p, Idle) /\ UNCHANGED <<profiles, active>>
  <2>1. InstalledHasFile'
    BY <1>2, <1>4 DEF SoloInv, InstalledHasFile
  <2>2. \A q \in Processes : Current(q)'
    BY <1>1, <1>4, EndsCurrent
  <2>3. ActiveIsNewest'
    BY <1>1, <1>4, StillNewest DEF SoloInv, db
  <2> QED BY <1>0, <1>1, <1>4, <2>1, <2>2, <2>3 DEF SoloInv
<1> QED BY <1>3, <1>4 DEF Insert, Fail

(* A synchronization goes on with its catalog, between two imports. *)
LEMMA SyncCurrent ==
    ASSUME OneProcess, SoloInv, NEW p \in Processes, UNCHANGED peer,
           Plan(p) \/ SyncImported(p) \/ SyncAssign(p)
    PROVE  SoloInv'
<1> DEFINE me == process[p]
<1>1. /\ me \in Process /\ Current(p) /\ IInv /\ UNCHANGED <<profiles, active, files>>
  BY TypeOfProcess DEF SoloInv, Plan, SyncImported, SyncAssign, db
<1>2. IInv'
  BY <1>1, PlanKeeps, SyncImportedKeeps, SyncAssignKeeps
<1>3. PICK next \in Process :
        /\ Become(p, next)
        /\ next = Idle \/ (next.pc \in {"import"} \cup Settled /\ next.catalog = me.catalog)
  <2>1. CASE Plan(p)
    <3> DEFINE next == [me EXCEPT !.pc = "import", !.missing = me.catalog.bundles \ profiles]
    <3>1. me.catalog.bundles \subseteq Bundles
      BY <1>1, <2>1, TypeOfProcess, Fields DEF Plan, Progress
    <3>2. next \in Process /\ next.pc = "import" /\ next.catalog = me.catalog
      BY <1>1, <3>1 DEF Process
    <3>3. Become(p, next) \/ Become(p, Idle)
      BY <2>1 DEF Plan, Fail
    <3> HIDE DEF next
    <3> QED BY <3>2, <3>3, IdleIsProcess
  <2>2. CASE SyncImported(p)
    <3> DEFINE assign == [me EXCEPT !.pc = "assign", !.unassigned =
                             {v \in Vehicles : me.catalog.assigned[v] # None}]
               record == [me EXCEPT !.pc = "record"]
    <3>1. Become(p, assign) \/ Become(p, record)
      BY <2>2 DEF SyncImported
    <3>2. /\ assign \in Process /\ assign.pc = "assign" /\ assign.catalog = me.catalog
          /\ record \in Process /\ record.pc = "record" /\ record.catalog = me.catalog
      BY <1>1 DEF Process
    <3> HIDE DEF assign, record
    <3> QED BY <3>1, <3>2 DEF Settled
  <2>3. CASE SyncAssign(p)
    <3>1. CASE \E v \in me.unassigned : Become(p, [me EXCEPT !.unassigned = @ \ {v}])
      <4>1. PICK v \in me.unassigned : Become(p, [me EXCEPT !.unassigned = @ \ {v}])
        BY <3>1
      <4> DEFINE next == [me EXCEPT !.unassigned = @ \ {v}]
      <4>2. next \in Process /\ next.pc = "assign" /\ next.catalog = me.catalog
        BY <1>1, <2>3 DEF Process, SyncAssign
      <4> HIDE DEF next
      <4> QED BY <4>1, <4>2 DEF Settled, next
    <3>2. CASE Become(p, [me EXCEPT !.pc = "record"])
      <4> DEFINE next == [me EXCEPT !.pc = "record"]
      <4>1. next \in Process /\ next.pc = "record" /\ next.catalog = me.catalog
        BY <1>1 DEF Process
      <4> QED BY <3>2, <4>1 DEF Settled
    <3>3. CASE Become(p, Idle)
      BY <3>3, IdleIsProcess
    <3> QED BY <2>3, <3>1, <3>2, <3>3 DEF SyncAssign, Fail
  <2> QED BY <2>1, <2>2, <2>3
<1>4. CASE next = Idle
  BY <1>1, <1>2, <1>3, <1>4, EndsCurrent, ReadsOnly
<1>5. CASE next.pc \in {"import"} \cup Settled /\ next.catalog = me.catalog
  <2>1. \A q \in Processes : Current(q)'
    BY <1>1, <1>3, <1>5, GoesOn DEF Settled, Current, Acceptable
  <2> QED BY <1>1, <1>2, <2>1, ReadsOnly
<1> QED BY <1>3, <1>4, <1>5

(* Every step keeps the invariant, and moves neither the peer nor what is
   active backwards: both are compared with what is there, not what was read. *)
LEMMA SoloStep ==
    ASSUME OneProcess, SoloInv, [Next]_vars
    PROVE  /\ SoloInv'
           /\ peer # None => peer'.sequence > peer.sequence \/ peer' = peer
           /\ \A pack \in Packs : active'[pack] >= active[pack]
<1> DEFINE Forward == peer # None => peer'.sequence > peer.sequence \/ peer' = peer
           Newer == \A pack \in Packs : active'[pack] >= active[pack]
<1>1. IInv /\ IInv' /\ \A p \in Processes : Current(p)
  BY NextKeeps DEF SoloInv
<1>2. \A pack \in Packs : active[pack] \in Nat
  <2>1. active \in [Packs -> Versions \cup {0}] /\ Versions \subseteq Nat
    BY <1>1, RegistryAssumption DEF Versions, IInv, TypeOK
  <2>2. Versions \cup {0} \subseteq Nat
    BY <2>1
  <2> QED BY <2>1, <2>2
<1>3. active' = active => Newer
  BY <1>2
<1>4. ASSUME NEW p \in Processes, NEW b \in Bundles, Import(p, b)
      PROVE  SoloInv' /\ Forward /\ Newer
  <2>1. Lookup(p, Idle, b) /\ UNCHANGED <<profiles, active, assigned, peer, files>>
    BY <1>4 DEF Import, db
  <2>2. Idle.catalog = None
    BY DEF Idle
  <2>3. \A q \in Processes : Current(q)'
    BY <1>1, <2>1, <2>2, IdleIsProcess, LookupCurrent
  <2> QED BY <1>1, <1>3, <2>1, <2>3, ReadsOnly
<1>5. ASSUME NEW p \in Processes, NEW v \in Vehicles, NEW b \in Bundles, AssignVehicle(p, v, b)
      PROVE  SoloInv' /\ Forward /\ Newer
  <2>1. UNCHANGED <<profiles, active, peer, files, process>>
    BY <1>5 DEF AssignVehicle
  <2>2. \A q \in Processes : Current(q)'
    BY <1>1, <2>1 DEF Current, Acceptable, SameVersion
  <2> QED BY <1>1, <1>3, <2>1, <2>2, ReadsOnly
<1>6. ASSUME NEW p \in Processes, NEW c \in Catalogs, NEW apply \in BOOLEAN, Sync(p, c, apply)
      PROVE  SoloInv' /\ Forward /\ Newer
  <2> DEFINE next == [Idle EXCEPT !.pc = "plan", !.catalog = c, !.apply = apply]
  <2>1. next \in Process /\ next.pc = "plan" /\ next.catalog = c
    BY IdleIsProcess DEF Process, Idle
  <2>2. Become(p, next) /\ UNCHANGED <<profiles, active, assigned, peer, files>> /\ Acceptable(c)
    BY <1>6 DEF Sync, db
  <2> HIDE DEF next
  <2>3. \A q \in Processes : Current(q)'
    BY <1>1, <2>1, <2>2, GoesOn DEF Acceptable
  <2> QED BY <1>1, <1>3, <2>2, <2>3, ReadsOnly
<1>7. ASSUME NEW p \in Processes, Copy(p) PROVE SoloInv' /\ Forward /\ Newer
  BY <1>3, <1>7, CopyCurrent DEF Copy, db
<1>8. ASSUME NEW p \in Processes, Insert(p) PROVE SoloInv' /\ Forward /\ Newer
  <2>1. peer' = peer
    BY <1>8 DEF Insert
  <2> QED BY <1>8, <2>1, InsertCurrent
<1>9. ASSUME NEW p \in Processes, Plan(p) \/ SyncImported(p) \/ SyncAssign(p)
      PROVE  SoloInv' /\ Forward /\ Newer
  <2>1. peer' = peer /\ active' = active
    BY <1>9 DEF Plan, SyncImported, SyncAssign, db
  <2> QED BY <1>3, <1>9, <2>1, SyncCurrent
<1>10. ASSUME NEW p \in Processes, SyncImport(p) PROVE SoloInv' /\ Forward /\ Newer
  <2> DEFINE me == process[p]
  <2>1. /\ me \in Process /\ Current(p) /\ UNCHANGED <<profiles, active, assigned, peer, files>>
    BY <1>1, <1>10, TypeOfProcess DEF SyncImport, db
  <2>2. PICK b \in FirstOf(me.missing) :
        \/ Lookup(p, me, b)
        \/ \E other \in Bundles \ {b} : Lookup(p, Idle, other)
        \/ Fail(p)
    BY <1>10 DEF SyncImport
  <2>3. b \in Bundles
    BY <2>1, Fields DEF FirstOf
  <2>4. me.catalog # None => Acceptable(me.catalog)
    BY <2>1 DEF Current
  <2>5. Idle.catalog = None
    BY DEF Idle
  <2> HIDE DEF me
  <2>6. \A q \in Processes : Current(q)'
    <3>1. CASE Lookup(p, me, b)
      BY <1>1, <2>1, <2>3, <2>4, <3>1, LookupCurrent
    <3>2. CASE \E other \in Bundles \ {b} : Lookup(p, Idle, other)
      BY <1>1, <2>1, <2>5, <3>2, IdleIsProcess, LookupCurrent
    <3>3. CASE Fail(p)
      BY <1>1, <3>3, EndsCurrent DEF Fail
    <3> QED BY <2>2, <3>1, <3>2, <3>3
  <2> QED BY <1>1, <1>3, <2>1, <2>6, ReadsOnly
<1>11. ASSUME NEW p \in Processes, Record(p) PROVE SoloInv' /\ Forward /\ Newer
  <2>1. /\ UNCHANGED <<profiles, active, assigned, files>> /\ Become(p, Idle)
        /\ peer' = process[p].catalog /\ process[p].pc = "record"
    BY <1>11 DEF Record
  <2>2. Acceptable(process[p].catalog)
    BY <1>1, <2>1, TypeOfProcess DEF Current, Progress, Settled
  <2>3. \A q \in Processes : Current(q)'
    BY <1>1, <2>1, EndsCurrent
  <2> QED BY <1>1, <1>3, <2>1, <2>2, <2>3, ReadsOnly DEF Acceptable
<1>12. ASSUME NEW p \in Processes, Crash(p) PROVE SoloInv' /\ Forward /\ Newer
  <2>1. Become(p, Idle) /\ UNCHANGED <<profiles, active, assigned, peer, files>>
    BY <1>12 DEF Crash, db
  <2> QED BY <1>1, <1>3, <2>1, EndsCurrent, ReadsOnly
<1>13. CASE UNCHANGED vars
  <2>1. UNCHANGED <<profiles, active, peer, files, process>>
    BY <1>13 DEF vars
  <2>2. \A q \in Processes : Current(q)'
    BY <1>1, <2>1 DEF Current, Acceptable, SameVersion
  <2> QED BY <1>1, <1>3, <2>1, <2>2, ReadsOnly
<1> HIDE DEF Forward, Newer
<1>14. SoloInv' /\ Forward /\ Newer
  <2>1. ASSUME NEW p \in Processes, Step(p) PROVE SoloInv' /\ Forward /\ Newer
    BY <1>7, <1>8, <1>9, <1>10, <1>11, <2>1 DEF Step
  <2>2. CASE Next
    <3>1. PICK p \in Processes :
              \/ \E b \in Bundles : Import(p, b)
              \/ \E v \in Vehicles, b \in Bundles : AssignVehicle(p, v, b)
              \/ \E c \in Catalogs, apply \in BOOLEAN : Sync(p, c, apply)
              \/ Step(p)
              \/ Crash(p)
      BY <2>2 DEF Next
    <3> QED BY <1>4, <1>5, <1>6, <1>12, <2>1, <3>1
  <2>3. Next \/ UNCHANGED vars
    OBVIOUS
  <2>4. CASE UNCHANGED vars
    BY <1>13, <2>4 DEF Forward, Newer
  <2> QED BY <2>2, <2>3, <2>4
<1> QED BY <1>14 DEF Forward, Newer

(* A new registry satisfies the invariant of one process. *)
LEMMA SoloInit == Init => SoloInv
<1> SUFFICES ASSUME Init PROVE SoloInv
  OBVIOUS
<1>1. IInv
  BY InitHolds
<1>2. \A p \in Processes : Current(p)
  BY DEF Init, Current, Idle
<1> QED BY <1>1, <1>2 DEF Init, SoloInv, InstalledHasFile, ActiveIsNewest

(* The invariant of one process holds in every state. *)
LEMMA SoloInvariance == OneProcess /\ Spec => []SoloInv
<1>1. OneProcess /\ SoloInv /\ [Next]_vars => SoloInv'
  BY SoloStep
<1>2. OneProcess => (SoloInv /\ [Next]_vars => SoloInv')
  BY <1>1
<1>3. CASE OneProcess
  <2>1. SoloInv /\ [Next]_vars => SoloInv'
    BY <1>2, <1>3
  <2> QED BY <2>1, SoloInit, PTL DEF Spec
<1> QED BY <1>3

(* With one process, the file of every installed bundle is in its place, however
   often an import was killed between the copy and the insert (profile_distribution.py). *)
THEOREM FilesStayInPlace == OneProcess /\ Spec => []InstalledHasFile
<1>1. SoloInv => InstalledHasFile
  BY DEF SoloInv
<1> QED BY <1>1, SoloInvariance, PTL

(* With one process, the newest version installed of a pack is the active one. *)
THEOREM NewestStaysActive == OneProcess /\ Spec => []ActiveIsNewest
<1>1. SoloInv => ActiveIsNewest
  BY DEF SoloInv
<1> QED BY <1>1, SoloInvariance, PTL

(* With one process, the sequence recorded for a peer only grows, and no second
   catalog is accepted for a sequence (fleet_sync.py). *)
THEOREM PeerGoesForward == OneProcess /\ Spec => PeerOnlyForward
<1>1. CASE OneProcess
  <2>1. SoloInv /\ [Next]_vars => [peer # None => peer'.sequence > peer.sequence \/ peer' = peer]_vars
    BY <1>1, SoloStep
  <2> QED BY <1>1, <2>1, SoloInvariance, PTL DEF Spec, PeerOnlyForward
<1> QED BY <1>1

(* With one process, no import moves the active profile backwards.  With two it
   does (MCProfileRegistryTwo). *)
THEOREM ActiveGoesForward == OneProcess /\ Spec => ActiveNeverRollsBack
<1>1. CASE OneProcess
  <2>1. SoloInv /\ [Next]_vars => [RollsForward]_vars
    BY <1>1, SoloStep DEF RollsForward
  <2> QED BY <1>1, <2>1, SoloInvariance, PTL DEF Spec, ActiveNeverRollsBack
<1> QED BY <1>1
=============================================================================
