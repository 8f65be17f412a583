--------------------------- MODULE BridgeLifecycle ---------------------------
(***************************************************************************)
(* The bridge's life: src/src/esp_idf_uart_filebridge.cpp, with the start  *)
(* of the storage manager and the mount of its card.                       *)
(*                                                                         *)
(* The statics of that file are shared, without a lock, by the RX task     *)
(* that init starts and the tasks of the application.  A step is what a    *)
(* task does up to the next point where another one's steps matter: an     *)
(* access to a static, to the registry's mutex or to the card's.  deinit   *)
(* deletes the RX task and pause suspends it, wherever it stands.          *)
(*                                                                         *)
(* Objects are numbered in the order in which they are made; 0 is the null *)
(* pointer.                                                                *)
(***************************************************************************)
EXTENDS Naturals

CONSTANTS
    Rx,             \* the RX task
    Apps,           \* the application's tasks, which call mount_sd
    Main,           \* the one among them that inits, deinits, pauses, resumes
    Nobody,         \* nobody holds the mutex
    DeletedTask,    \* the holder of the mutex was deleted
    Slots,          \* bound: managers, and protocols, made in all
    MaxLives,       \* bound: calls of init
    MaxOoms,        \* bound: allocations that fail
    MountSdOwn,     \* cfg->mount_sd_own
    StartsAlone     \* no two tasks are in ensure_runtime_ready at once

Tasks == Apps \cup {Rx}
Pointers == 0 .. Slots

ASSUME TaskAssumption ==
    /\ Main \in Apps /\ Rx \notin Apps
    /\ {Nobody, DeletedTask} \cap Tasks = {} /\ Nobody # DeletedTask
ASSUME BoundAssumption ==
    /\ Slots \in Nat /\ MaxLives \in Nat /\ MaxOoms \in Nat
    /\ MountSdOwn \in BOOLEAN /\ StartsAlone \in BOOLEAN

VARIABLES
    protocol,       \* s_protocol
    manager,        \* s_storage_manager
    rxTask,         \* s_rx_task: none, runs or suspended
    running,        \* s_running
    ready,          \* s_runtime_ready
    managers,       \* each StorageManager's life and m_initialized
    protocols,      \* each FileProtocol's life, its manager, its open upload
    registrar,      \* the manager whose backend the registry holds
    mounted,        \* that backend's m_mounted
    lock,           \* who holds the registry's mutex and the card's
    pc,             \* where each task is
    this,           \* the object whose method it is in
    lives,          \* how often init started the bridge
    ooms            \* how many allocations have failed

statics == <<protocol, manager, rxTask, running, ready>>
objects == <<managers, protocols, registrar, mounted>>
control == <<lock, pc, this>>
bounds == <<lives, ooms>>
vars == <<statics, objects, control, bounds>>

Starting == {"new_manager", "init_manager", "register", "registering", "mark",
             "mount", "mounting", "new_protocol", "init_protocol", "set_ready"}
MountingSd == {"get_backend", "getting", "is_mounted", "mount_sd", "mounting_sd"}
Handling == {"process", "lookup", "looking", "handle"}
Stopping == {"delete_protocol", "delete_manager", "stop"}
Labels == {"none", "idle", "create", "started", "crashed"}
              \cup Starting \cup MountingSd \cup Handling \cup Stopping

\* The variables' types, and the steps at which a task holds a mutex.
DataOK ==
    /\ protocol \in Pointers /\ manager \in Pointers /\ registrar \in Pointers
    /\ rxTask \in {"none", "runs", "suspended"}
    /\ running \in BOOLEAN /\ ready \in BOOLEAN /\ mounted \in BOOLEAN
    /\ managers \in [1 .. Slots -> {"unmade", "raw", "initialized", "deleted"}]
    /\ protocols \in [1 .. Slots -> [life : {"unmade", "alive", "deleted"},
                                     manager : Pointers, open : BOOLEAN]]
    /\ lives \in 0 .. MaxLives /\ ooms \in 0 .. MaxOoms

HolderAt(l) == IF l = "registry" THEN {"registering", "getting", "looking"}
                                 ELSE {"mounting", "mounting_sd"}

ControlOK ==
    /\ lock \in [{"registry", "card"} -> Tasks \cup {Nobody, DeletedTask}]
    /\ pc \in [Tasks -> Labels]
    /\ this \in [Tasks -> Pointers]
    /\ \A t \in Tasks, l \in {"registry", "card"} : lock[l] = t => pc[t] \in HolderAt(l)

TypeOK == DataOK /\ ControlOK

Init ==
    /\ protocol = 0 /\ manager = 0 /\ registrar = 0
    /\ rxTask = "none" /\ running = FALSE /\ ready = FALSE /\ mounted = FALSE
    /\ managers = [o \in 1 .. Slots |-> "unmade"]
    /\ protocols = [o \in 1 .. Slots |-> [life |-> "unmade", manager |-> 0, open |-> FALSE]]
    /\ lock = [l \in {"registry", "card"} |-> Nobody]
    /\ pc = [t \in Tasks |-> IF t = Rx THEN "none" ELSE "idle"]
    /\ this = [t \in Tasks |-> 0]
    /\ lives = 0 /\ ooms = 0

-----------------------------------------------------------------------------
Runs(t) == t = Rx => rxTask = "runs"

At(t, label) == pc[t] = label /\ Runs(t)

Goto(t, label) == pc' = [pc EXCEPT ![t] = label]

\* A call through a pointer that is null or deleted.
AliveManager(m) == m # 0 /\ managers[m] \in {"raw", "initialized"}
AliveProtocol(p) == p # 0 /\ protocols[p].life = "alive"

Take(t, l) == lock[l] = Nobody /\ lock' = [lock EXCEPT ![l] = t]
Give(l) == lock' = [lock EXCEPT ![l] = Nobody]

Unmade(m) == managers[m] = "unmade" /\ \A o \in 1 .. Slots : managers[o] = "unmade" => m <= o
UnmadeProtocol(p) ==
    /\ protocols[p].life = "unmade"
    /\ \A o \in 1 .. Slots : protocols[o].life = "unmade" => p <= o

ManagersWithout(m) == [o \in 1 .. Slots |-> IF o = m THEN "deleted" ELSE managers[o]]

\* Mutant of ProtocolsWithout: the destructor leaves the transfer open.
ProtocolsWithoutAbort(p) ==
    [o \in 1 .. Slots |-> IF o = p THEN [protocols[o] EXCEPT !.life = "deleted"] ELSE protocols[o]]

\* delete s_protocol: the destructor aborts the transfer.
ProtocolsWithout(p) ==
    [o \in 1 .. Slots |-> IF o = p THEN [protocols[o] EXCEPT !.life = "deleted", !.open = FALSE]
                          ELSE protocols[o]]

\* Where ensure_runtime_ready returns to.
AfterStart(t) == IF t = Rx THEN "process" ELSE IF MountSdOwn THEN "get_backend" ELSE "idle"

-----------------------------------------------------------------------------
(***************************************************************************)
(* ensure_runtime_ready.                                                   *)
(***************************************************************************)
Apart(t) == StartsAlone => \A u \in Tasks \ {t} : pc[u] \notin Starting

EnsureRuntimeReady(t) ==
    \/ ready /\ Goto(t, AfterStart(t))
    \/ /\ ~ready /\ Apart(t)
       /\ Goto(t, IF manager = 0 THEN "new_manager" ELSE "new_protocol")

\* An error: the RX task drops the data, mount_sd returns it.
StartFails(t) == Goto(t, "idle")

NewManager(t) ==
    /\ At(t, "new_manager")
    /\ \/ \E m \in 1 .. Slots :
             /\ Unmade(m)
             /\ managers' = [managers EXCEPT ![m] = "raw"]
             /\ manager' = m
          /\ Goto(t, "init_manager")
          /\ UNCHANGED bounds
       \/ /\ ooms < MaxOoms /\ ooms' = ooms + 1
          /\ manager' = 0
          /\ StartFails(t)
          /\ UNCHANGED <<managers, lives>>
    /\ UNCHANGED <<protocol, rxTask, running, ready, protocols, registrar, mounted,
                   lock, this>>

\* s_storage_manager->init reads the pointer again.
InitManager(t) ==
    /\ At(t, "init_manager")
    /\ \/ ~AliveManager(manager) /\ Goto(t, "crashed") /\ UNCHANGED this
       \/ /\ AliveManager(manager)
          /\ this' = [this EXCEPT ![t] = manager]
          /\ Goto(t, IF managers[manager] = "raw" THEN "register" ELSE "new_protocol")
    /\ UNCHANGED <<statics, objects, lock, bounds>>

RegisterBackend(t) ==
    /\ At(t, "register")
    /\ Take(t, "registry")
    /\ Goto(t, "registering")
    /\ UNCHANGED <<statics, objects, this, bounds>>

\* The mount point is free, or a backend of a manager that is gone has it: init
\* returns the error, and ensure_runtime_ready logs a warning.
RegisteredOrRefused(t) ==
    /\ At(t, "registering")
    /\ Give("registry")
    /\ \/ registrar = 0 /\ registrar' = this[t] /\ Goto(t, "mark")
       \/ registrar # 0 /\ UNCHANGED registrar /\ Goto(t, "new_protocol")
    /\ UNCHANGED <<statics, managers, protocols, mounted, this, bounds>>

\* Mutant of MarkInitialized: m_initialized stays false.
MarkForgotten(t) ==
    /\ At(t, "mark")
    /\ Goto(t, IF MountSdOwn THEN "mount" ELSE "new_protocol")
    /\ UNCHANGED <<statics, objects, lock, this, bounds>>

MarkInitialized(t) ==
    /\ At(t, "mark")
    /\ managers' = [managers EXCEPT ![this[t]] = "initialized"]
    /\ Goto(t, IF MountSdOwn THEN "mount" ELSE "new_protocol")
    /\ UNCHANGED <<statics, protocols, registrar, mounted, lock, this, bounds>>

NewProtocol(t) ==
    /\ At(t, "new_protocol")
    /\ \/ /\ \E p \in 1 .. Slots :
                /\ UnmadeProtocol(p)
                /\ protocols' = [protocols EXCEPT ![p].life = "alive"]
                /\ protocol' = p
          /\ Goto(t, "init_protocol")
          /\ UNCHANGED <<manager, managers, bounds>>
       \/ /\ ooms < MaxOoms /\ ooms' = ooms + 1
          /\ protocol' = 0 /\ manager' = 0
          /\ managers' = ManagersWithout(manager)
          /\ StartFails(t)
          /\ UNCHANGED <<protocols, lives>>
    /\ UNCHANGED <<rxTask, running, ready, registrar, mounted, lock, this>>

\* FileProtocol::init(s_storage_manager), and set_tx_callback.
InitProtocol(t) ==
    /\ At(t, "init_protocol")
    /\ \/ ~AliveProtocol(protocol) /\ Goto(t, "crashed")
          /\ UNCHANGED <<protocol, manager, objects>>
       \/ /\ AliveProtocol(protocol) /\ manager # 0
          /\ protocols' = [protocols EXCEPT
                              ![protocol].manager = IF @ = 0 THEN manager ELSE @]
          /\ Goto(t, "set_ready")
          /\ UNCHANGED <<protocol, manager, managers, registrar, mounted>>
       \/ /\ AliveProtocol(protocol) /\ manager = 0
          /\ protocols' = ProtocolsWithout(protocol)
          /\ protocol' = 0
          /\ StartFails(t)
          /\ UNCHANGED <<manager, managers, registrar, mounted>>
    /\ UNCHANGED <<rxTask, running, ready, lock, this, bounds>>

SetReady(t) ==
    /\ At(t, "set_ready")
    /\ ready' = TRUE
    /\ Goto(t, AfterStart(t))
    /\ UNCHANGED <<protocol, manager, rxTask, running, objects, lock, this, bounds>>

-----------------------------------------------------------------------------
(***************************************************************************)
(* StorageSDFAT::mount, by StorageManager::init and by mount_sd.           *)
(***************************************************************************)
LockCard(t, before, after) ==
    /\ At(t, before)
    /\ Take(t, "card")
    /\ Goto(t, after)
    /\ UNCHANGED <<statics, objects, this, bounds>>

\* Mutant of MountCard: a mount that fails keeps the mutex.
MountCardKeepsLock(t, label) ==
    /\ At(t, label)
    /\ mounted' \in {TRUE, mounted}
    /\ IF mounted' THEN Give("card") ELSE UNCHANGED lock
    /\ Goto(t, IF label = "mounting" THEN "new_protocol" ELSE "idle")
    /\ UNCHANGED <<statics, managers, protocols, registrar, this, bounds>>

\* Already mounted, mounted now, or an error of the card.
MountCard(t, label) ==
    /\ At(t, label)
    /\ Give("card")
    /\ mounted' \in {TRUE, mounted}
    /\ Goto(t, IF label = "mounting" THEN "new_protocol" ELSE "idle")
    /\ UNCHANGED <<statics, managers, protocols, registrar, this, bounds>>

Mount(t) ==
    \/ LockCard(t, "mount", "mounting") \/ MountCard(t, "mounting")
    \/ LockCard(t, "mount_sd", "mounting_sd") \/ MountCard(t, "mounting_sd")

-----------------------------------------------------------------------------
(***************************************************************************)
(* The application: mount_sd, by any of its tasks and not during an init   *)
(* or a deinit.                                                            *)
(***************************************************************************)
MountSd(t) ==
    /\ At(t, "idle")
    /\ pc[Main] \notin Stopping \cup {"create", "started"}
    /\ \/ ~running /\ UNCHANGED pc
       \/ running /\ EnsureRuntimeReady(t)
    /\ UNCHANGED <<statics, objects, lock, this, bounds>>

\* get_backend_by_mount does not ask whether the manager is initialized.
GetBackend(t) ==
    /\ At(t, "get_backend")
    /\ \/ manager = 0 /\ Goto(t, "idle") /\ UNCHANGED lock
       \/ manager # 0 /\ ~AliveManager(manager) /\ Goto(t, "crashed") /\ UNCHANGED lock
       \/ AliveManager(manager) /\ Take(t, "registry") /\ Goto(t, "getting")
    /\ UNCHANGED <<statics, objects, this, bounds>>

GotBackend(t) ==
    /\ At(t, "getting")
    /\ Give("registry")
    /\ Goto(t, IF registrar = 0 THEN "idle" ELSE "is_mounted")
    /\ UNCHANGED <<statics, objects, this, bounds>>

IsMounted(t) ==
    /\ At(t, "is_mounted")
    /\ \/ mounted /\ Goto(t, "idle")
       \/ ~mounted /\ Goto(t, "mount_sd")
    /\ UNCHANGED <<statics, objects, lock, this, bounds>>

-----------------------------------------------------------------------------
(***************************************************************************)
(* The RX task: data arrives, the runtime starts if it has not, and the    *)
(* handler of a command looks up a backend and works on it.                *)
(***************************************************************************)
Receive ==
    /\ At(Rx, "idle")
    /\ EnsureRuntimeReady(Rx)
    /\ UNCHANGED <<statics, objects, lock, this, bounds>>

ProcessRxData ==
    /\ At(Rx, "process")
    /\ \/ ~AliveProtocol(protocol) /\ Goto(Rx, "crashed") /\ UNCHANGED this
       \/ /\ AliveProtocol(protocol)
          /\ this' = [this EXCEPT ![Rx] = protocol]
          /\ Goto(Rx, "lookup")
    /\ UNCHANGED <<statics, objects, lock, bounds>>

Lookup ==
    /\ At(Rx, "lookup")
    /\ \/ /\ AliveManager(protocols[this[Rx]].manager)
          /\ Take(Rx, "registry")
          /\ Goto(Rx, "looking")
       \/ /\ ~AliveManager(protocols[this[Rx]].manager)
          /\ Goto(Rx, "crashed")
          /\ UNCHANGED lock
    /\ UNCHANGED <<statics, objects, this, bounds>>

LookedUp ==
    /\ At(Rx, "looking")
    /\ Give("registry")
    /\ Goto(Rx, "handle")
    /\ UNCHANGED <<statics, objects, this, bounds>>

Served(m) == managers[m] = "initialized"

\* A manager that is not initialized refuses whatever needs a backend.
Handle ==
    /\ At(Rx, "handle")
    /\ \E open \in BOOLEAN :
          /\ open => \/ protocols[this[Rx]].open
                     \/ Served(protocols[this[Rx]].manager)
          /\ protocols' = [protocols EXCEPT ![this[Rx]].open = open]
    /\ Goto(Rx, "idle")
    /\ UNCHANGED <<statics, managers, registrar, mounted, lock, this, bounds>>

-----------------------------------------------------------------------------
(***************************************************************************)
(* init, deinit, pause, resume, by Main and while no mount_sd runs.        *)
(***************************************************************************)
Quiet == \A t \in Apps : pc[t] = "idle"

\* The statics are set and the driver installed, or one of its calls fails.
InitBridge ==
    /\ Quiet /\ ~running /\ lives < MaxLives
    /\ lives' = lives + 1
    /\ ready' = FALSE
    /\ pc' \in {pc, [pc EXCEPT ![Main] = "create"]}
    /\ UNCHANGED <<protocol, manager, rxTask, running, objects, lock, this, ooms>>

CreateRxTask ==
    /\ At(Main, "create")
    /\ \/ rxTask' = "runs" /\ pc' = [pc EXCEPT ![Main] = "started", ![Rx] = "idle"]
       \/ UNCHANGED rxTask /\ Goto(Main, "idle")
    /\ UNCHANGED <<protocol, manager, running, ready, objects, lock, this, bounds>>

SetRunning ==
    /\ At(Main, "started")
    /\ running' = TRUE
    /\ Goto(Main, "idle")
    /\ UNCHANGED <<protocol, manager, rxTask, ready, objects, lock, this, bounds>>

\* vTaskDelete gives back none of the mutexes that the task holds.
LocksWithoutRx == [l \in DOMAIN lock |-> IF lock[l] = Rx THEN DeletedTask ELSE lock[l]]

\* Mutant of Deinit: the RX task is left to run.
DeinitKeepsTask ==
    /\ Quiet /\ running
    /\ pc' = [pc EXCEPT ![Main] = "delete_protocol"]
    /\ UNCHANGED <<statics, objects, lock, this, bounds>>

Deinit ==
    /\ Quiet /\ running
    /\ rxTask' = "none"
    /\ lock' = LocksWithoutRx
    /\ pc' = [pc EXCEPT ![Rx] = "none", ![Main] = "delete_protocol"]
    /\ this' = [this EXCEPT ![Rx] = 0]
    /\ UNCHANGED <<protocol, manager, running, ready, objects, bounds>>

DeleteProtocol ==
    /\ At(Main, "delete_protocol")
    /\ protocol' = 0
    /\ protocols' = ProtocolsWithout(protocol)
    /\ Goto(Main, "delete_manager")
    /\ UNCHANGED <<manager, rxTask, running, ready, managers, registrar, mounted,
                   lock, this, bounds>>

\* The registry keeps the manager's backend, mounted or not.
DeleteManager ==
    /\ At(Main, "delete_manager")
    /\ manager' = 0
    /\ managers' = ManagersWithout(manager)
    /\ Goto(Main, "stop")
    /\ UNCHANGED <<protocol, rxTask, running, ready, protocols, registrar, mounted,
                   lock, this, bounds>>

StopBridge ==
    /\ At(Main, "stop")
    /\ ready' = FALSE /\ running' = FALSE
    /\ Goto(Main, "idle")
    /\ UNCHANGED <<protocol, manager, rxTask, objects, lock, this, bounds>>

Pause ==
    /\ At(Main, "idle") /\ rxTask = "runs"
    /\ rxTask' = "suspended"
    /\ UNCHANGED <<protocol, manager, running, ready, objects, control, bounds>>

Resume ==
    /\ At(Main, "idle") /\ rxTask = "suspended"
    /\ rxTask' = "runs"
    /\ UNCHANGED <<protocol, manager, running, ready, objects, control, bounds>>

-----------------------------------------------------------------------------
TaskStep(t) ==
    \/ NewManager(t) \/ InitManager(t)
    \/ RegisterBackend(t) \/ RegisteredOrRefused(t) \/ MarkInitialized(t)
    \/ Mount(t)
    \/ NewProtocol(t) \/ InitProtocol(t) \/ SetReady(t)
    \/ GetBackend(t) \/ GotBackend(t) \/ IsMounted(t)

RxStep == ProcessRxData \/ Lookup \/ LookedUp \/ Handle

MainStep == CreateRxTask \/ SetRunning \/ DeleteProtocol \/ DeleteManager \/ StopBridge

Next ==
    \/ \E t \in Tasks : TaskStep(t)
    \/ RxStep \/ MainStep
    \/ Receive
    \/ \E t \in Apps : MountSd(t)
    \/ InitBridge \/ Deinit \/ Pause \/ Resume

\* What a task has begun it goes on with, and a mutex goes to whoever waits;
\* that data arrives, or that the application calls, is not assumed.
Fairness ==
    /\ \A t \in Tasks : SF_vars(TaskStep(t))
    /\ SF_vars(RxStep) /\ WF_vars(MainStep)

Spec == Init /\ [][Next]_vars /\ Fairness

-----------------------------------------------------------------------------
(***************************************************************************)
(* Properties.                                                             *)
(***************************************************************************)

\* No task calls a method of a null or a deleted protocol or manager, whenever
\* the runtime starts, fails to start, is stopped or started again.
NoBadCall == \A t \in Tasks : pc[t] # "crashed"

\* There is one runtime: every protocol and manager that is alive is the one that
\* the statics name, so that deinit finds whatever it must delete, and an upload
\* that is open belongs to it: after deinit none is.
OneRuntime ==
    /\ \A o \in 1 .. Slots :
          /\ protocols[o].life = "alive" => o = protocol
          /\ managers[o] \in {"raw", "initialized"} => o = manager
          /\ protocols[o].open => o = protocol
    /\ rxTask = "none" /\ pc[Main] \notin Stopping => protocol = 0 /\ manager = 0

\* A runtime that is ready serves files, unless the registry still holds the
\* backend of an earlier manager.
ServesUnlessOrphaned ==
    (ready /\ manager # 0) =>
        \/ Served(manager)
        \/ registrar # 0 /\ managers[registrar] = "deleted"

\* A call of mount_sd, and a command that was received, comes to an end, unless
\* a mutex stays with a task that was deleted or suspended while it held it.
Stranded ==
    \E l \in DOMAIN lock :
        \/ lock[l] = DeletedTask
        \/ lock[l] = Rx /\ rxTask # "runs"

CallsEnd ==
    /\ \A t \in Apps : pc[t] # "idle" ~> (pc[t] = "idle" \/ Stranded)
    /\ pc[Rx] \notin {"idle", "none"} ~>
           (pc[Rx] \in {"idle", "none"} \/ rxTask = "suspended" \/ Stranded)
=============================================================================
