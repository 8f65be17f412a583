------------------------ MODULE BridgeLifecycleProofs ------------------------
(***************************************************************************)
(* Theorems about BridgeLifecycle, for any tasks, bounds and any number of *)
(* objects.  What init, deinit and the RX task do to each other is         *)
(* invariant whoever starts the runtime; that there is one runtime, and    *)
(* that no deleted object is called, needs the starts to be apart.         *)
(***************************************************************************)
EXTENDS BridgeLifecycle, TLAPS

\* init, deinit and the RX task: the RX task is there from its creation to
\* deinit, and while Main works on it no other task of the application works.
Phases ==
    /\ rxTask = "none" <=> pc[Rx] = "none"
    /\ running => rxTask # "none" \/ pc[Main] \in Stopping
    /\ ~running => rxTask = "none" \/ pc[Main] = "started"
    /\ pc[Main] = "started" => rxTask # "none"
    /\ pc[Main] = "create" => ~running /\ ~ready
    /\ pc[Main] \in Stopping \cup {"create"} =>
          rxTask = "none" /\ \A t \in Apps \ {Main} : pc[t] = "idle"
    /\ \A t \in Tasks : pc[t] \in Starting \cup MountingSd => rxTask # "none"
    /\ ready => rxTask # "none" \/ pc[Main] \in Stopping

TInv == TypeOK /\ Phases

-----------------------------------------------------------------------------
\* Every object that a static names is alive, and no other is; a protocol that is
\* not made has no manager, and the registry's backend is of one that was made.
Objects ==
    /\ protocol # 0 => AliveProtocol(protocol)
    /\ manager # 0 => AliveManager(manager)
    /\ \A o \in 1 .. Slots :
          /\ protocols[o].life = "alive" => o = protocol
          /\ managers[o] \in {"raw", "initialized"} => o = manager
          /\ protocols[o].open => o = protocol
          /\ protocols[o].life = "unmade" => protocols[o].manager = 0
    /\ registrar # 0 => managers[registrar] # "unmade"

ServedOrOrphaned ==
    \/ Served(manager)
    \/ registrar # 0 /\ managers[registrar] = "deleted"

\* What the task in ensure_runtime_ready has made so far.
Made(t) ==
    /\ pc[t] = "new_manager" => manager = 0
    /\ pc[t] \in Starting \ {"new_manager"} => manager # 0
    /\ pc[t] \in Starting \ {"init_protocol", "set_ready"} => protocol = 0
    /\ pc[t] \in {"init_protocol", "set_ready"} => protocol # 0
    /\ pc[t] = "init_protocol" => protocols[protocol].manager = 0
    /\ pc[t] = "set_ready" => protocols[protocol].manager = manager
    /\ pc[t] \in {"init_manager", "register", "registering"} =>
          managers[manager] = "raw" /\ registrar # manager
    /\ pc[t] \in {"register", "registering", "mark"} => this[t] = manager
    /\ pc[t] = "mark" => registrar = manager
    /\ pc[t] \in {"mount", "mounting", "new_protocol", "init_protocol", "set_ready"} =>
          ServedOrOrphaned

\* One task at most is in ensure_runtime_ready, and only while the runtime is
\* not ready; the tasks that work on the runtime do so only when it is.
Apartness ==
    /\ \A t, u \in Tasks : pc[t] \in Starting /\ pc[u] \in Starting => t = u
    /\ \A t \in Tasks :
          /\ pc[t] \in Starting => ~ready /\ Made(t)
          /\ pc[t] \in MountingSd \cup Handling => ready

\* The statics, when nobody is changing them.
Settled ==
    /\ ready /\ pc[Main] \notin Stopping =>
          /\ protocol # 0 /\ manager # 0
          /\ protocols[protocol].manager = manager
    /\ ready /\ manager # 0 => ServedOrOrphaned
    /\ ~ready /\ pc[Main] \notin Stopping /\ (\A t \in Tasks : pc[t] \notin Starting) =>
          protocol = 0 /\ manager = 0
    /\ pc[Main] \in {"delete_manager", "stop"} => protocol = 0
    /\ pc[Main] = "stop" => manager = 0
    /\ pc[Rx] \in {"lookup", "looking", "handle"} => this[Rx] = protocol

IInv == TInv /\ Objects /\ Apartness /\ Settled /\ NoBadCall

-----------------------------------------------------------------------------
(***************************************************************************)
(* Types and phases.                                                       *)
(***************************************************************************)
Calling == Starting \cup MountingSd

LEMMA MainIsATask == Main \in Tasks /\ Rx \in Tasks /\ Main # Rx
  BY TaskAssumption DEF Tasks

\* A task that goes on with its call disturbs no phase.
LEMMA CallGoesOn ==
    ASSUME TInv, NEW t \in Tasks, pc[t] \in Calling \cup Handling,
           NEW l \in Calling \cup Handling \cup {"idle", "crashed"}, Goto(t, l),
           l \in Calling => pc[t] \in Calling,
           UNCHANGED <<rxTask, running>>, UNCHANGED ready \/ (ready' /\ pc[t] \in Calling)
    PROVE  Phases'
<1> USE MainIsATask DEF Tasks
<1>1. pc' = [pc EXCEPT ![t] = l] /\ pc \in [Tasks -> Labels]
  BY DEF TInv, TypeOK, ControlOK, Goto
<1>2. \A u \in Tasks : pc'[u] = IF u = t THEN l ELSE pc[u]
  BY <1>1
<1>3. pc[Main] \in Stopping \cup {"create", "started"} <=> pc'[Main] \in Stopping \cup {"create", "started"}
  BY <1>2 DEF Calling, Handling, Starting, MountingSd, Stopping
<1>4. pc[t] \in Calling => rxTask # "none"
  BY DEF TInv, Phases, Calling
<1>5. QED
  BY <1>2, <1>3, <1>4, TaskAssumption
     DEF TInv, Phases, Calling, Handling, Starting, MountingSd, Stopping

Holding == {"registering", "getting", "looking", "mounting", "mounting_sd"}

\* A task that holds no mutex, and takes none, goes on.
LEMMA ControlMoves ==
    ASSUME TypeOK, NEW t \in Tasks, NEW l \in Labels, Goto(t, l), UNCHANGED lock,
           pc[t] \notin Holding, this' \in [Tasks -> Pointers]
    PROVE  ControlOK'
<1>1. pc' \in [Tasks -> Labels] /\ \A u \in Tasks : u # t => pc'[u] = pc[u]
  BY DEF TypeOK, ControlOK, Goto
<1>2. \A k \in {"registry", "card"} : lock[k] # t
  BY DEF TypeOK, ControlOK, HolderAt, Holding
<1>3. QED
  BY <1>1, <1>2 DEF TypeOK, ControlOK

LEMMA ControlTakes ==
    ASSUME TypeOK, NEW t \in Tasks, NEW k \in {"registry", "card"}, NEW l \in HolderAt(k),
           Take(t, k), Goto(t, l), UNCHANGED this, pc[t] \notin Holding
    PROVE  ControlOK'
<1>1. HolderAt(k) \subseteq Labels
  BY DEF HolderAt, Labels, Starting, MountingSd, Handling
<1>2. /\ pc' \in [Tasks -> Labels] /\ pc'[t] = l
      /\ \A u \in Tasks : u # t => pc'[u] = pc[u]
  BY <1>1 DEF TypeOK, ControlOK, Goto
<1>3. /\ lock' \in [{"registry", "card"} -> Tasks \cup {Nobody, DeletedTask}]
      /\ lock'[k] = t /\ \A j \in {"registry", "card"} : j # k => lock'[j] = lock[j] /\ lock[j] # t
  BY DEF TypeOK, ControlOK, Take, HolderAt, Holding
<1>4. QED
  BY <1>2, <1>3 DEF TypeOK, ControlOK

LEMMA ControlGives ==
    ASSUME TypeOK, NEW t \in Tasks, NEW k \in {"registry", "card"}, NEW l \in Labels,
           Give(k), Goto(t, l), UNCHANGED this, pc[t] \in HolderAt(k)
    PROVE  ControlOK'
<1>1. /\ pc' \in [Tasks -> Labels]
      /\ \A u \in Tasks : u # t => pc'[u] = pc[u]
  BY DEF TypeOK, ControlOK, Goto
<1>2. /\ lock' \in [{"registry", "card"} -> Tasks \cup {Nobody, DeletedTask}]
      /\ lock'[k] = Nobody /\ \A j \in {"registry", "card"} : j # k => lock'[j] = lock[j]
  BY DEF TypeOK, ControlOK, Give
<1>3. \A j \in {"registry", "card"} : j # k => lock[j] # t
  BY DEF TypeOK, ControlOK, HolderAt
<1>4. Nobody \notin Tasks
  BY TaskAssumption
<1>5. QED
  BY <1>1, <1>2, <1>3, <1>4 DEF TypeOK, ControlOK

ProtocolRecords == [life : {"unmade", "alive", "deleted"}, manager : Pointers, open : BOOLEAN]

\* What the tasks write to a protocol, and what its destructor does, keep its type.
LEMMA ProtocolsTyped ==
    ASSUME DataOK, NEW p
    PROVE  /\ ProtocolsWithout(p) \in [1 .. Slots -> ProtocolRecords]
           /\ [protocols EXCEPT ![p].life = "alive"] \in [1 .. Slots -> ProtocolRecords]
           /\ \A open \in BOOLEAN :
                 [protocols EXCEPT ![p].open = open] \in [1 .. Slots -> ProtocolRecords]
           /\ [protocols EXCEPT ![p].manager = IF @ = 0 THEN manager ELSE @]
                 \in [1 .. Slots -> ProtocolRecords]
  BY ZenonT(60) DEF DataOK, ProtocolsWithout, ProtocolRecords

LEMMA ProtocolWithout ==
    ASSUME DataOK, NEW p, NEW o \in 1 .. Slots
    PROVE  /\ ProtocolsWithout(p)[o].life = IF o = p THEN "deleted" ELSE protocols[o].life
           /\ ProtocolsWithout(p)[o].open = IF o = p THEN FALSE ELSE protocols[o].open
           /\ ProtocolsWithout(p)[o].manager = protocols[o].manager
  BY DEF DataOK, ProtocolsWithout

LEMMA ManagersTyped ==
    ASSUME DataOK, NEW m
    PROVE  ManagersWithout(m) \in [1 .. Slots -> {"unmade", "raw", "initialized", "deleted"}]
  BY DEF DataOK, ManagersWithout

LEMMA NewManagerTypes == ASSUME TInv, NEW t \in Tasks, NewManager(t) PROVE TInv'
<1> USE MainIsATask DEF Tasks
<1>1. DataOK'
  BY SMTT(30), BoundAssumption DEF TInv, TypeOK, DataOK, Pointers, NewManager, bounds,
     Unmade
<1>2. ControlOK'
  BY ControlMoves
     DEF TInv, TypeOK, ControlOK, NewManager, At, Goto, StartFails, Holding, HolderAt,
         Labels, Starting, MountingSd, Handling, Stopping
<1>3. Phases'
  BY CallGoesOn
     DEF NewManager, At, Goto, StartFails, Calling, Labels, Starting, MountingSd, Handling,
         Stopping
<1>4. QED
  BY <1>1, <1>2, <1>3 DEF TInv, TypeOK

LEMMA InitManagerTypes == ASSUME TInv, NEW t \in Tasks, InitManager(t) PROVE TInv'
<1> USE MainIsATask DEF Tasks
<1>1. DataOK'
  BY BoundAssumption
     DEF TInv, TypeOK, DataOK, Pointers, InitManager, statics, objects, bounds
<1>2. ControlOK'
  BY ControlMoves
     DEF TInv, TypeOK, DataOK, ControlOK, InitManager, At, Goto, statics, objects, Holding,
         HolderAt, Labels, Starting, MountingSd, Handling, Stopping
<1>3. Phases'
  BY CallGoesOn
     DEF InitManager, At, Goto, statics, objects, Calling, Labels, Starting, MountingSd,
         Handling, Stopping
<1>4. QED
  BY <1>1, <1>2, <1>3 DEF TInv, TypeOK

LEMMA RegisterBackendTypes == ASSUME TInv, NEW t \in Tasks, RegisterBackend(t) PROVE TInv'
<1> USE MainIsATask DEF Tasks
<1>1. DataOK'
  BY BoundAssumption
     DEF TInv, TypeOK, DataOK, Pointers, RegisterBackend, statics, objects, bounds
<1>2. ControlOK'
  BY ControlTakes
     DEF TInv, TypeOK, ControlOK, RegisterBackend, At, Goto, statics, objects, Holding,
         HolderAt, Labels, Starting, MountingSd, Handling, Stopping
<1>3. Phases'
  BY CallGoesOn
     DEF RegisterBackend, At, Goto, statics, objects, Calling, Labels, Starting,
         MountingSd, Handling, Stopping
<1>4. QED
  BY <1>1, <1>2, <1>3 DEF TInv, TypeOK

LEMMA RegisteredOrRefusedTypes == ASSUME TInv, NEW t \in Tasks, RegisteredOrRefused(t) PROVE TInv'
<1> USE MainIsATask DEF Tasks
<1>1. DataOK'
  BY BoundAssumption
     DEF TInv, TypeOK, DataOK, ControlOK, Pointers, RegisteredOrRefused, statics, bounds
<1>2. ControlOK'
  BY ZenonT(60), ControlGives
     DEF TInv, TypeOK, ControlOK, RegisteredOrRefused, At, Goto, statics, Holding,
         HolderAt, Labels, Starting, MountingSd, Handling, Stopping
<1>3. Phases'
  BY CallGoesOn
     DEF RegisteredOrRefused, At, Goto, statics, Calling, Labels, Starting, MountingSd,
         Handling, Stopping
<1>4. QED
  BY <1>1, <1>2, <1>3 DEF TInv, TypeOK

LEMMA MarkInitializedTypes == ASSUME TInv, NEW t \in Tasks, MarkInitialized(t) PROVE TInv'
<1> USE MainIsATask DEF Tasks
<1>1. DataOK'
  BY BoundAssumption DEF TInv, TypeOK, DataOK, Pointers, MarkInitialized, statics, bounds
<1>2. ControlOK'
  BY ControlMoves
     DEF TInv, TypeOK, ControlOK, MarkInitialized, At, Goto, statics, Holding, HolderAt,
         Labels, Starting, MountingSd, Handling, Stopping
<1>3. Phases'
  BY CallGoesOn
     DEF MarkInitialized, At, Goto, statics, Calling, Labels, Starting, MountingSd,
         Handling, Stopping
<1>4. QED
  BY <1>1, <1>2, <1>3 DEF TInv, TypeOK

LEMMA NewProtocolTypes == ASSUME TInv, NEW t \in Tasks, NewProtocol(t) PROVE TInv'
<1> USE MainIsATask DEF Tasks
<1>1. DataOK'
  <2>1. protocols' \in [1 .. Slots -> ProtocolRecords]
    <3>1. protocols \in [1 .. Slots -> ProtocolRecords]
      BY DEF TInv, TypeOK, DataOK, ProtocolRecords
    <3>2. QED
      BY ZenonT(60), <3>1, ProtocolsTyped DEF TInv, TypeOK, NewProtocol
  <2>2. managers' \in [1 .. Slots -> {"unmade", "raw", "initialized", "deleted"}]
    BY ManagersTyped DEF TInv, TypeOK, DataOK, NewProtocol
  <2>3. QED
    BY <2>1, <2>2, BoundAssumption
       DEF TInv, TypeOK, DataOK, Pointers, ProtocolRecords, NewProtocol, bounds
<1>2. ControlOK'
  BY ControlMoves
     DEF TInv, TypeOK, ControlOK, NewProtocol, At, Goto, StartFails, Holding, HolderAt,
         Labels, Starting, MountingSd, Handling, Stopping
<1>3. Phases'
  BY CallGoesOn
     DEF NewProtocol, At, Goto, StartFails, Calling, Labels, Starting, MountingSd,
         Handling, Stopping
<1>4. QED
  BY <1>1, <1>2, <1>3 DEF TInv, TypeOK

LEMMA InitProtocolTypes == ASSUME TInv, NEW t \in Tasks, InitProtocol(t) PROVE TInv'
<1> USE MainIsATask DEF Tasks
<1>1. DataOK'
  <2>1. protocols' \in [1 .. Slots -> ProtocolRecords]
    <3>1. protocols \in [1 .. Slots -> ProtocolRecords]
      BY DEF TInv, TypeOK, DataOK, ProtocolRecords
    <3>2. ProtocolsWithout(protocol) \in [1 .. Slots -> ProtocolRecords]
      BY ProtocolsTyped DEF TInv, TypeOK
    <3>3. [protocols EXCEPT ![protocol].manager = IF @ = 0 THEN manager ELSE @]
              \in [1 .. Slots -> ProtocolRecords]
      BY ProtocolsTyped DEF TInv, TypeOK
    <3>4. QED
      BY <3>1, <3>2, <3>3 DEF InitProtocol, objects
  <2>2. QED
    BY <2>1 DEF TInv, TypeOK, DataOK, Pointers, ProtocolRecords, InitProtocol, bounds, objects
<1>2. ControlOK'
  BY ControlMoves
     DEF TInv, TypeOK, ControlOK, InitProtocol, At, Goto, StartFails, objects, Holding,
         HolderAt, Labels, Starting, MountingSd, Handling, Stopping
<1>3. Phases'
  BY CallGoesOn
     DEF InitProtocol, At, Goto, StartFails, objects, Calling, Labels, Starting,
         MountingSd, Handling, Stopping
<1>4. QED
  BY <1>1, <1>2, <1>3 DEF TInv, TypeOK

LEMMA SetReadyTypes == ASSUME TInv, NEW t \in Tasks, SetReady(t) PROVE TInv'
<1> USE MainIsATask DEF Tasks
<1>1. DataOK'
  BY BoundAssumption DEF TInv, TypeOK, DataOK, Pointers, SetReady, objects, bounds
<1>2. ControlOK'
  BY ControlMoves
     DEF TInv, TypeOK, ControlOK, SetReady, At, Goto, AfterStart, objects, Holding,
         HolderAt, Labels, Starting, MountingSd, Handling, Stopping
<1>3. Phases'
  BY CallGoesOn
     DEF SetReady, At, Goto, AfterStart, objects, Calling, Labels, Starting, MountingSd,
         Handling, Stopping
<1>4. QED
  BY <1>1, <1>2, <1>3 DEF TInv, TypeOK

LEMMA GetBackendTypes == ASSUME TInv, NEW t \in Tasks, GetBackend(t) PROVE TInv'
<1> USE MainIsATask DEF Tasks
<1>1. DataOK'
  BY BoundAssumption
     DEF TInv, TypeOK, DataOK, Pointers, GetBackend, statics, objects, bounds
<1>2. ControlOK'
  BY SMTT(30), ControlMoves, ControlTakes
     DEF TInv, TypeOK, ControlOK, GetBackend, At, Goto, statics, objects, Holding,
         HolderAt, Labels, Starting, MountingSd, Handling, Stopping
<1>3. Phases'
  BY CallGoesOn
     DEF GetBackend, At, Goto, statics, objects, Calling, Labels, Starting, MountingSd,
         Handling, Stopping
<1>4. QED
  BY <1>1, <1>2, <1>3 DEF TInv, TypeOK

LEMMA GotBackendTypes == ASSUME TInv, NEW t \in Tasks, GotBackend(t) PROVE TInv'
<1> USE MainIsATask DEF Tasks
<1>1. DataOK'
  BY BoundAssumption
     DEF TInv, TypeOK, DataOK, Pointers, GotBackend, statics, objects, bounds
<1>2. ControlOK'
  BY ControlGives
     DEF TInv, TypeOK, ControlOK, GotBackend, At, Goto, statics, objects, Holding,
         HolderAt, Labels, Starting, MountingSd, Handling, Stopping
<1>3. Phases'
  BY CallGoesOn
     DEF GotBackend, At, Goto, statics, objects, Calling, Labels, Starting, MountingSd,
         Handling, Stopping
<1>4. QED
  BY <1>1, <1>2, <1>3 DEF TInv, TypeOK

LEMMA IsMountedTypes == ASSUME TInv, NEW t \in Tasks, IsMounted(t) PROVE TInv'
<1> USE MainIsATask DEF Tasks
<1>1. DataOK'
  BY BoundAssumption DEF TInv, TypeOK, DataOK, Pointers, IsMounted, statics, objects, bounds
<1>2. ControlOK'
  BY ControlMoves
     DEF TInv, TypeOK, ControlOK, IsMounted, At, Goto, statics, objects, Holding, HolderAt,
         Labels, Starting, MountingSd, Handling, Stopping
<1>3. Phases'
  BY CallGoesOn
     DEF IsMounted, At, Goto, statics, objects, Calling, Labels, Starting, MountingSd,
         Handling, Stopping
<1>4. QED
  BY <1>1, <1>2, <1>3 DEF TInv, TypeOK

LEMMA MountTypes == ASSUME TInv, NEW t \in Tasks, Mount(t) PROVE TInv'
<1> USE MainIsATask DEF Tasks
<1>1. DataOK'
  BY BoundAssumption
     DEF TInv, TypeOK, DataOK, Pointers, Mount, LockCard, MountCard, statics, objects,
         bounds
<1>2. ControlOK'
  <2>1. ASSUME NEW before \in {"mount", "mount_sd"}, NEW l \in HolderAt("card"),
               LockCard(t, before, l)
        PROVE  ControlOK'
    BY <2>1, ControlTakes DEF TInv, TypeOK, LockCard, At, Holding
  <2>2. ASSUME NEW l \in HolderAt("card"), MountCard(t, l)
        PROVE  ControlOK'
    <3>1. /\ (IF l = "mounting" THEN "new_protocol" ELSE "idle") \in Labels
          /\ Goto(t, IF l = "mounting" THEN "new_protocol" ELSE "idle")
          /\ Give("card") /\ UNCHANGED this /\ pc[t] \in HolderAt("card")
      BY <2>2 DEF MountCard, At, Labels, Starting
    <3>2. QED
      BY <3>1, ControlGives DEF TInv
  <2>3. QED
    BY <2>1, <2>2 DEF Mount, HolderAt
<1>3. Phases'
  BY CallGoesOn
     DEF Mount, At, Goto, LockCard, MountCard, statics, objects, Calling, Labels, Starting,
         MountingSd, Handling, Stopping
<1>4. QED
  BY <1>1, <1>2, <1>3 DEF TInv, TypeOK

LEMMA ProcessRxDataTypes == ASSUME TInv, ProcessRxData PROVE TInv'
<1> USE MainIsATask DEF Tasks
<1>1. DataOK'
  BY BoundAssumption
     DEF TInv, TypeOK, DataOK, Pointers, ProcessRxData, statics, objects, bounds
<1>2. ControlOK'
  BY ControlMoves
     DEF TInv, TypeOK, DataOK, ControlOK, ProcessRxData, At, Goto, statics, objects, Holding,
         HolderAt, Labels, Starting, MountingSd, Handling, Stopping
<1>3. Phases'
  BY CallGoesOn
     DEF ProcessRxData, At, Goto, statics, objects, Calling, Labels, Starting, MountingSd,
         Handling, Stopping
<1>4. QED
  BY <1>1, <1>2, <1>3 DEF TInv, TypeOK

LEMMA LookupTypes == ASSUME TInv, Lookup PROVE TInv'
<1> USE MainIsATask DEF Tasks
<1>1. DataOK'
  BY BoundAssumption DEF TInv, TypeOK, DataOK, Pointers, Lookup, statics, objects, bounds
<1>2. ControlOK'
  BY SMTT(30), ControlMoves, ControlTakes
     DEF TInv, TypeOK, ControlOK, Lookup, At, Goto, statics, objects, Holding, HolderAt,
         Labels, Starting, MountingSd, Handling, Stopping
<1>3. Phases'
  BY CallGoesOn
     DEF Lookup, At, Goto, statics, objects, Calling, Labels, Starting, MountingSd,
         Handling, Stopping
<1>4. QED
  BY <1>1, <1>2, <1>3 DEF TInv, TypeOK

LEMMA LookedUpTypes == ASSUME TInv, LookedUp PROVE TInv'
<1> USE MainIsATask DEF Tasks
<1>1. DataOK'
  BY BoundAssumption DEF TInv, TypeOK, DataOK, Pointers, LookedUp, statics, objects, bounds
<1>2. ControlOK'
  BY ControlGives
     DEF TInv, TypeOK, ControlOK, LookedUp, At, Goto, statics, objects, Holding, HolderAt,
         Labels, Starting, MountingSd, Handling, Stopping
<1>3. Phases'
  BY CallGoesOn
     DEF LookedUp, At, Goto, statics, objects, Calling, Labels, Starting, MountingSd,
         Handling, Stopping
<1>4. QED
  BY <1>1, <1>2, <1>3 DEF TInv, TypeOK

LEMMA HandleTypes == ASSUME TInv, Handle PROVE TInv'
<1> USE MainIsATask DEF Tasks
<1>1. DataOK'
  <2>1. protocols' \in [1 .. Slots -> ProtocolRecords]
    <3>1. PICK open \in BOOLEAN : protocols' = [protocols EXCEPT ![this[Rx]].open = open]
      BY DEF Handle
    <3>2. QED
      BY <3>1, ProtocolsTyped DEF TInv, TypeOK
  <2>2. QED
    BY <2>1 DEF TInv, TypeOK, DataOK, ProtocolRecords, Handle, statics, bounds
<1>2. ControlOK'
  BY ControlMoves
     DEF TInv, TypeOK, ControlOK, Handle, At, Goto, statics, Holding, HolderAt, Labels,
         Starting, MountingSd, Handling, Stopping
<1>3. Phases'
  BY CallGoesOn
     DEF Handle, At, Goto, statics, Calling, Labels, Starting, MountingSd, Handling,
         Stopping
<1>4. QED
  BY <1>1, <1>2, <1>3 DEF TInv, TypeOK

LEMMA ReceiveTypes == ASSUME TInv, Receive PROVE TInv'
<1> USE MainIsATask DEF Tasks
<1>1. DataOK'
  BY BoundAssumption DEF TInv, TypeOK, DataOK, Pointers, Receive, statics, objects, bounds
<1>2. ControlOK'
  BY ControlMoves
     DEF TInv, TypeOK, ControlOK, Receive, At, Goto, Runs, EnsureRuntimeReady, AfterStart,
         statics, objects, Holding, HolderAt, Labels, Starting, MountingSd, Handling,
         Stopping
<1>3. Phases'
  BY TaskAssumption
     DEF TInv, TypeOK, DataOK, ControlOK, Phases, Receive, At, Goto, Runs,
         EnsureRuntimeReady, AfterStart, statics, objects, Labels, Starting, MountingSd,
         Handling, Stopping
<1>4. QED
  BY <1>1, <1>2, <1>3 DEF TInv, TypeOK

LEMMA MountSdTypes == ASSUME TInv, NEW t \in Apps, MountSd(t) PROVE TInv'
<1> USE MainIsATask DEF Tasks
<1>1. DataOK'
  BY BoundAssumption DEF TInv, TypeOK, DataOK, Pointers, MountSd, statics, objects, bounds
<1>2. ControlOK'
  BY ControlMoves
     DEF TInv, TypeOK, ControlOK, MountSd, At, Goto, Runs, EnsureRuntimeReady, AfterStart,
         statics, objects, Holding, HolderAt, Labels, Starting, MountingSd, Handling,
         Stopping
<1>3. Phases'
  BY TaskAssumption
     DEF TInv, TypeOK, DataOK, ControlOK, Phases, MountSd, At, Goto, Runs,
         EnsureRuntimeReady, AfterStart, statics, objects, Labels, Starting, MountingSd,
         Handling, Stopping
<1>4. QED
  BY <1>1, <1>2, <1>3 DEF TInv, TypeOK

LEMMA InitBridgeTypes == ASSUME TInv, InitBridge PROVE TInv'
<1> USE MainIsATask DEF Tasks
<1>1. DataOK'
  <2>1. lives' \in 0 .. MaxLives
    BY BoundAssumption DEF TInv, TypeOK, DataOK, InitBridge
  <2>2. QED
    BY <2>1 DEF TInv, TypeOK, DataOK, InitBridge, objects
<1>2. ControlOK'
  BY ControlMoves, TaskAssumption
     DEF TInv, TypeOK, ControlOK, InitBridge, Quiet, objects, Holding, HolderAt, Labels,
         Starting, MountingSd, Handling, Stopping
<1>3. Phases'
  BY TaskAssumption
     DEF TInv, TypeOK, DataOK, ControlOK, Phases, InitBridge, Quiet, objects, Labels,
         Starting, MountingSd, Handling, Stopping
<1>4. QED
  BY <1>1, <1>2, <1>3 DEF TInv, TypeOK

LEMMA CreateRxTaskTypes == ASSUME TInv, CreateRxTask PROVE TInv'
<1> USE MainIsATask DEF Tasks
<1>1. DataOK'
  BY BoundAssumption DEF TInv, TypeOK, DataOK, Pointers, CreateRxTask, objects, bounds
<1>2. ControlOK'
  <2>1. CASE rxTask' = "runs" /\ pc' = [pc EXCEPT ![Main] = "started", ![Rx] = "idle"]
    <3>1. pc' \in [Tasks -> Labels]
      BY <2>1 DEF TInv, TypeOK, ControlOK, Labels
    <3>2. \A k \in {"registry", "card"} : lock[k] \notin {Main, Rx}
      BY DEF TInv, TypeOK, ControlOK, HolderAt, CreateRxTask, At, Phases
    <3>3. \A u \in Tasks : u \notin {Main, Rx} => pc'[u] = pc[u]
      BY <2>1 DEF TInv, TypeOK, ControlOK
    <3>4. QED
      BY <3>1, <3>2, <3>3 DEF TInv, TypeOK, ControlOK, CreateRxTask
  <2>2. CASE Goto(Main, "idle")
    BY <2>2, ControlMoves
       DEF TInv, TypeOK, ControlOK, CreateRxTask, At, Holding, Labels
  <2>3. QED
    BY <2>1, <2>2 DEF CreateRxTask
<1>3. Phases'
  BY TaskAssumption
     DEF TInv, TypeOK, DataOK, ControlOK, Phases, CreateRxTask, At, Goto, objects, Labels,
         Starting, MountingSd, Handling, Stopping
<1>4. QED
  BY <1>1, <1>2, <1>3 DEF TInv, TypeOK

LEMMA SetRunningTypes == ASSUME TInv, SetRunning PROVE TInv'
<1> USE MainIsATask DEF Tasks
<1>1. DataOK'
  BY BoundAssumption DEF TInv, TypeOK, DataOK, Pointers, SetRunning, objects, bounds
<1>2. ControlOK'
  BY ControlMoves
     DEF TInv, TypeOK, ControlOK, SetRunning, At, Goto, objects, Holding, HolderAt, Labels,
         Starting, MountingSd, Handling, Stopping
<1>3. Phases'
  BY TaskAssumption
     DEF TInv, TypeOK, DataOK, ControlOK, Phases, SetRunning, At, Goto, objects, Labels,
         Starting, MountingSd, Handling, Stopping
<1>4. QED
  BY <1>1, <1>2, <1>3 DEF TInv, TypeOK

LEMMA DeinitTypes == ASSUME TInv, Deinit PROVE TInv'
<1> USE MainIsATask DEF Tasks
<1>1. DataOK'
  BY BoundAssumption DEF TInv, TypeOK, DataOK, Pointers, Deinit, objects, bounds
<1>2. ControlOK'
  <2>1. pc' \in [Tasks -> Labels] /\ this' \in [Tasks -> Pointers]
    BY BoundAssumption DEF TInv, TypeOK, ControlOK, Deinit, Labels, Stopping, Pointers
  <2>2. \A u \in Tasks : u \notin {Main, Rx} => pc'[u] = pc[u]
    BY DEF TInv, TypeOK, ControlOK, Deinit
  <2>3. \A k \in {"registry", "card"} : lock[k] # Main
    BY TaskAssumption DEF TInv, TypeOK, ControlOK, HolderAt, Deinit, Quiet
  <2>4. /\ lock' \in [{"registry", "card"} -> Tasks \cup {Nobody, DeletedTask}]
        /\ \A k \in {"registry", "card"} : lock'[k] = IF lock[k] = Rx THEN DeletedTask ELSE lock[k]
    BY DEF TInv, TypeOK, ControlOK, Deinit, LocksWithoutRx
  <2>5. \A k \in {"registry", "card"} : lock'[k] \notin {Main, Rx}
    BY <2>3, <2>4, TaskAssumption
  <2>6. QED
    BY <2>1, <2>2, <2>4, <2>5, TaskAssumption DEF TInv, TypeOK, ControlOK
<1>3. Phases'
  BY TaskAssumption
     DEF TInv, TypeOK, DataOK, ControlOK, Phases, Deinit, Quiet, LocksWithoutRx, objects,
         Labels, Starting, MountingSd, Handling, Stopping
<1>4. QED
  BY <1>1, <1>2, <1>3 DEF TInv, TypeOK

LEMMA DeleteProtocolTypes == ASSUME TInv, DeleteProtocol PROVE TInv'
<1> USE MainIsATask DEF Tasks
<1>1. DataOK'
  <2>1. protocols' \in [1 .. Slots -> ProtocolRecords]
    BY ProtocolsTyped DEF TInv, TypeOK, DeleteProtocol
  <2>2. QED
    BY <2>1, BoundAssumption
       DEF TInv, TypeOK, DataOK, ProtocolRecords, DeleteProtocol, Pointers, bounds
<1>2. ControlOK'
  BY ControlMoves
     DEF TInv, TypeOK, ControlOK, DeleteProtocol, At, Goto, Holding, HolderAt, Labels,
         Starting, MountingSd, Handling, Stopping
<1>3. Phases'
  BY TaskAssumption
     DEF TInv, TypeOK, DataOK, ControlOK, Phases, DeleteProtocol, At, Goto, Labels,
         Starting, MountingSd, Handling, Stopping
<1>4. QED
  BY <1>1, <1>2, <1>3 DEF TInv, TypeOK

LEMMA DeleteManagerTypes == ASSUME TInv, DeleteManager PROVE TInv'
<1> USE MainIsATask DEF Tasks
<1>1. DataOK'
  BY BoundAssumption
     DEF TInv, TypeOK, DataOK, Pointers, DeleteManager, bounds, ManagersWithout
<1>2. ControlOK'
  BY ControlMoves
     DEF TInv, TypeOK, ControlOK, DeleteManager, At, Goto, Holding, HolderAt, Labels,
         Starting, MountingSd, Handling, Stopping
<1>3. Phases'
  BY TaskAssumption
     DEF TInv, TypeOK, DataOK, ControlOK, Phases, DeleteManager, At, Goto, Labels,
         Starting, MountingSd, Handling, Stopping
<1>4. QED
  BY <1>1, <1>2, <1>3 DEF TInv, TypeOK

LEMMA StopBridgeTypes == ASSUME TInv, StopBridge PROVE TInv'
<1> USE MainIsATask DEF Tasks
<1>1. DataOK'
  BY BoundAssumption DEF TInv, TypeOK, DataOK, Pointers, StopBridge, objects, bounds
<1>2. ControlOK'
  BY ControlMoves
     DEF TInv, TypeOK, ControlOK, StopBridge, At, Goto, objects, Holding, HolderAt, Labels,
         Starting, MountingSd, Handling, Stopping
<1>3. Phases'
  BY TaskAssumption
     DEF TInv, TypeOK, DataOK, ControlOK, Phases, StopBridge, At, Goto, objects, Labels,
         Starting, MountingSd, Handling, Stopping
<1>4. QED
  BY <1>1, <1>2, <1>3 DEF TInv, TypeOK

LEMMA PauseTypes == ASSUME TInv, Pause PROVE TInv'
<1> USE MainIsATask DEF Tasks
<1>1. DataOK'
  BY BoundAssumption DEF TInv, TypeOK, DataOK, Pointers, Pause, objects, bounds, control
<1>2. ControlOK'
  BY DEF TInv, TypeOK, ControlOK, Pause, At, Goto, objects, control, Holding, HolderAt,
         Labels, Starting, MountingSd, Handling, Stopping
<1>3. Phases'
  BY TaskAssumption
     DEF TInv, TypeOK, DataOK, ControlOK, Phases, Pause, At, Goto, objects, control,
         Labels, Starting, MountingSd, Handling, Stopping
<1>4. QED
  BY <1>1, <1>2, <1>3 DEF TInv, TypeOK

LEMMA ResumeTypes == ASSUME TInv, Resume PROVE TInv'
<1> USE MainIsATask DEF Tasks
<1>1. DataOK'
  BY BoundAssumption DEF TInv, TypeOK, DataOK, Pointers, Resume, objects, bounds, control
<1>2. ControlOK'
  BY DEF TInv, TypeOK, ControlOK, Resume, At, Goto, objects, control, Holding, HolderAt,
         Labels, Starting, MountingSd, Handling, Stopping
<1>3. Phases'
  BY TaskAssumption
     DEF TInv, TypeOK, DataOK, ControlOK, Phases, Resume, At, Goto, objects, control,
         Labels, Starting, MountingSd, Handling, Stopping
<1>4. QED
  BY <1>1, <1>2, <1>3 DEF TInv, TypeOK

\* The types and the phases are invariant, whoever starts the runtime and when.
LEMMA InitTyped == Init => TInv
<1> SUFFICES ASSUME Init PROVE TInv
  OBVIOUS
<1>1. TypeOK
  <2>1. DataOK
    <3>1. /\ 0 \in Pointers
          /\ [life |-> "unmade", manager |-> 0, open |-> FALSE]
                \in [life : {"unmade", "alive", "deleted"}, manager : Pointers, open : BOOLEAN]
      BY BoundAssumption DEF Pointers
    <3>2. protocols \in [1 .. Slots -> [life : {"unmade", "alive", "deleted"},
                                       manager : Pointers, open : BOOLEAN]]
      BY <3>1 DEF Init
    <3>3. managers \in [1 .. Slots -> {"unmade", "raw", "initialized", "deleted"}]
      BY DEF Init
    <3>4. lives \in 0 .. MaxLives /\ ooms \in 0 .. MaxOoms
      BY BoundAssumption DEF Init
    <3>5. QED
      BY <3>1, <3>2, <3>3, <3>4 DEF Init, DataOK
  <2>2. Nobody \notin Tasks
    BY TaskAssumption
  <2>3. pc \in [Tasks -> Labels] /\ this \in [Tasks -> Pointers]
    BY BoundAssumption DEF Init, Labels, Pointers
  <2>4. ControlOK
    BY <2>2, <2>3 DEF Init, ControlOK
  <2>5. QED
    BY <2>1, <2>4 DEF TypeOK
<1>2. Phases
  BY TaskAssumption DEF Init, Phases, Tasks, Starting, MountingSd, Stopping
<1>3. QED
  BY <1>1, <1>2 DEF TInv

LEMMA NextTyped == TInv /\ [Next]_vars => TInv'
<1> SUFFICES ASSUME TInv, [Next]_vars PROVE TInv'
  OBVIOUS
<1>1. CASE UNCHANGED vars
  BY <1>1
     DEF TInv, TypeOK, DataOK, ControlOK, Phases, vars, statics, objects, control, bounds
<1>2. ASSUME NEW t \in Tasks, TaskStep(t) PROVE TInv'
  BY <1>2, NewManagerTypes, InitManagerTypes, RegisterBackendTypes, RegisteredOrRefusedTypes,
     MarkInitializedTypes, MountTypes, NewProtocolTypes, InitProtocolTypes, SetReadyTypes,
     GetBackendTypes, GotBackendTypes, IsMountedTypes
     DEF TaskStep
<1>3. CASE RxStep \/ Receive
  BY <1>3, ProcessRxDataTypes, LookupTypes, LookedUpTypes, HandleTypes, ReceiveTypes
     DEF RxStep
<1>4. CASE MainStep \/ InitBridge \/ Deinit \/ Pause \/ Resume
  BY <1>4, CreateRxTaskTypes, SetRunningTypes, DeleteProtocolTypes, DeleteManagerTypes,
     StopBridgeTypes, InitBridgeTypes, DeinitTypes, PauseTypes, ResumeTypes
     DEF MainStep
<1>5. ASSUME NEW t \in Apps, MountSd(t) PROVE TInv'
  BY <1>5, MountSdTypes
<1>6. QED
  BY <1>1, <1>2, <1>3, <1>4, <1>5 DEF Next

\* Whoever starts the runtime, and however often: the statics, the objects and
\* the steps of every task keep their types, and a task holds a mutex only at
\* the steps of the code between its lock and its unlock.
THEOREM TypeCorrect == Spec => []TypeOK
<1>1. Spec => []TInv
  BY InitTyped, NextTyped, PTL DEF Spec
<1>2. TInv => TypeOK
  BY DEF TInv
<1>3. QED
  BY <1>1, <1>2, PTL

-----------------------------------------------------------------------------
(***************************************************************************)
(* One runtime, when the starts are apart.                                 *)
(***************************************************************************)
\* The task that starts the runtime is alone with it.
LEMMA StarterAlone ==
    ASSUME IInv, NEW t \in Tasks, pc[t] \in Starting
    PROVE  /\ ~ready /\ Made(t) /\ pc[Main] \notin Stopping
           /\ \A u \in Tasks \ {t} : pc[u] \notin Starting \cup MountingSd \cup Handling
<1>1. ~ready /\ Made(t)
  BY DEF IInv, Apartness
<1>2. pc[Main] \notin Stopping
  BY DEF IInv, TInv, Phases
<1>3. QED
  BY <1>1, <1>2 DEF IInv, Apartness

LEMMA StarterGoesOn ==
    ASSUME IInv, NEW t \in Tasks, pc[t] \in Starting, NEW l \in Labels, Goto(t, l),
           l \in Starting => ~ready' /\ Made(t)',
           l \in MountingSd \cup Handling => ready'
    PROVE  Apartness'
<1>1. pc'[t] = l /\ \A u \in Tasks \ {t} : pc'[u] = pc[u]
  BY DEF IInv, TInv, TypeOK, ControlOK, Goto
<1>2. \A u \in Tasks \ {t} : pc'[u] \notin Starting \cup MountingSd \cup Handling
  BY <1>1, StarterAlone
<1>3. QED
  BY <1>1, <1>2 DEF Apartness

LEMMA NewManagerKeeps == ASSUME IInv, NEW t \in Tasks, NewManager(t) PROVE IInv'
<1> USE MainIsATask, TaskAssumption, BoundAssumption DEF Tasks
<1>1. TInv'
  BY NewManagerTypes DEF IInv
<1>2. Objects'
  BY SMTT(30) DEF IInv, TInv, TypeOK, Phases, DataOK, ControlOK, Pointers, Objects,
     Apartness,
         Settled, Made, NewManager, At, Runs, Goto, StartFails, Unmade, bounds,
         AliveManager, AliveProtocol, Labels, Starting, MountingSd, Handling, Stopping
<1>3. Apartness'
  <2>1. pc[t] \in Starting /\ Made(t) /\ ~ready /\ protocol = 0
    BY StarterAlone DEF NewManager, At, Starting, Made
  <2>2. \A l \in Labels : Goto(t, l) => pc'[t] = l
    BY DEF IInv, TInv, TypeOK, ControlOK, Goto
  <2>3. ASSUME NEW m \in 1 .. Slots, Unmade(m), managers' = [managers EXCEPT ![m] = "raw"],
               manager' = m, Goto(t, "init_manager")
        PROVE  Apartness'
    <3>1. managers'[m] = "raw" /\ m # 0 /\ m # registrar
      BY <2>3, BoundAssumption DEF IInv, TInv, TypeOK, DataOK, Objects, Unmade
    <3>2. pc'[t] = "init_manager"
      BY <2>2, <2>3 DEF Labels, Starting
    <3>3. ~ready' /\ Made(t)'
      BY <2>1, <2>3, <3>1, <3>2 DEF NewManager, Made, Starting
    <3>4. QED
      BY <2>1, <2>3, <3>3, StarterGoesOn DEF Labels, Starting, MountingSd, Handling
  <2>4. CASE Goto(t, "idle")
    BY <2>1, <2>4, StarterGoesOn DEF Labels, Starting, MountingSd, Handling
  <2>5. QED
    BY <2>3, <2>4 DEF NewManager, StartFails
<1>4. Settled'
  BY DEF IInv, TInv, TypeOK, Phases, DataOK, ControlOK, Pointers, Objects, Apartness,
         Settled, Made, ServedOrOrphaned, Served, NewManager, At, Runs, Goto, StartFails,
         Unmade, bounds, AliveManager, AliveProtocol, Labels, Starting, MountingSd,
         Handling, Stopping
<1>5. NoBadCall'
  BY DEF IInv, TInv, TypeOK, Phases, DataOK, ControlOK, Pointers, NoBadCall, Objects,
         Apartness, Settled, Made, NewManager, At, Runs, Goto, StartFails, Unmade, bounds,
         AliveManager, AliveProtocol, Labels, Starting, MountingSd, Handling, Stopping
<1>6. QED
  BY <1>1, <1>2, <1>3, <1>4, <1>5 DEF IInv

LEMMA InitManagerKeeps == ASSUME IInv, NEW t \in Tasks, InitManager(t) PROVE IInv'
<1> USE MainIsATask, TaskAssumption, BoundAssumption DEF Tasks
<1>1. TInv'
  BY InitManagerTypes DEF IInv
<1>2. Objects'
  BY DEF IInv, TInv, TypeOK, Phases, DataOK, ControlOK, Pointers, Objects, Apartness,
         Settled, Made, InitManager, At, Runs, Goto, statics, objects, bounds, control,
         AliveManager, AliveProtocol, Labels, Starting, MountingSd, Handling, Stopping
<1>3. Apartness'
  <2>1. \A l \in Labels : Goto(t, l) => pc'[t] = l
    BY DEF IInv, TInv, TypeOK, ControlOK, Goto
  <2>2. pc[t] \in Starting /\ Made(t) /\ ~ready
    BY StarterAlone DEF InitManager, At, Starting
  <2>3. ~ready' /\ \E l \in Labels \ (MountingSd \cup Handling) :
            Goto(t, l) /\ (l \in Starting => Made(t)')
    BY <2>1, <2>2
       DEF IInv, TInv, TypeOK, DataOK, ControlOK, Pointers, Objects, Made, ServedOrOrphaned,
           Served, InitManager, At, statics, objects, AliveManager, Labels, Starting,
           MountingSd, Handling, Stopping
  <2>4. QED
    BY <2>2, <2>3, StarterGoesOn
<1>4. Settled'
  BY DEF IInv, TInv, TypeOK, Phases, DataOK, ControlOK, Pointers, Objects, Apartness,
         Settled, Made, ServedOrOrphaned, Served, InitManager, At, Runs, Goto, statics,
         objects, bounds, control, AliveManager, AliveProtocol, Labels, Starting,
         MountingSd, Handling, Stopping
<1>5. NoBadCall'
  BY DEF IInv, TInv, TypeOK, Phases, DataOK, ControlOK, Pointers, NoBadCall, Objects,
         Apartness, Settled, Made, InitManager, At, Runs, Goto, statics, objects, bounds,
         control, AliveManager, AliveProtocol, Labels, Starting, MountingSd, Handling,
         Stopping
<1>6. QED
  BY <1>1, <1>2, <1>3, <1>4, <1>5 DEF IInv

LEMMA RegisterBackendKeeps == ASSUME IInv, NEW t \in Tasks, RegisterBackend(t) PROVE IInv'
<1> USE MainIsATask, TaskAssumption, BoundAssumption DEF Tasks
<1>1. TInv'
  BY RegisterBackendTypes DEF IInv
<1>2. Objects'
  BY DEF IInv, TInv, TypeOK, Phases, DataOK, ControlOK, Pointers, Objects, Apartness,
         Settled, Made, RegisterBackend, At, Runs, Goto, Take, statics, objects, bounds,
         control, AliveManager, AliveProtocol, Labels, Starting, MountingSd, Handling,
         Stopping
<1>3. Apartness'
  BY DEF IInv, TInv, TypeOK, Phases, DataOK, ControlOK, Pointers, Objects, Apartness,
         Settled, Made, ServedOrOrphaned, Served, RegisterBackend, At, Runs, Goto, Take,
         statics, objects, bounds, control, AliveManager, AliveProtocol, Labels, Starting,
         MountingSd, Handling, Stopping
<1>4. Settled'
  BY DEF IInv, TInv, TypeOK, Phases, DataOK, ControlOK, Pointers, Objects, Apartness,
         Settled, Made, ServedOrOrphaned, Served, RegisterBackend, At, Runs, Goto, Take,
         statics, objects, bounds, control, AliveManager, AliveProtocol, Labels, Starting,
         MountingSd, Handling, Stopping
<1>5. NoBadCall'
  BY DEF IInv, TInv, TypeOK, Phases, DataOK, ControlOK, Pointers, NoBadCall, Objects,
         Apartness, Settled, Made, RegisterBackend, At, Runs, Goto, Take, statics, objects,
         bounds, control, AliveManager, AliveProtocol, Labels, Starting, MountingSd,
         Handling, Stopping
<1>6. QED
  BY <1>1, <1>2, <1>3, <1>4, <1>5 DEF IInv

LEMMA RegisteredOrRefusedKeeps == ASSUME IInv, NEW t \in Tasks, RegisteredOrRefused(t) PROVE IInv'
<1> USE MainIsATask, TaskAssumption, BoundAssumption DEF Tasks
<1>1. TInv'
  BY RegisteredOrRefusedTypes DEF IInv
<1>2. Objects'
  BY DEF IInv, TInv, TypeOK, Phases, DataOK, ControlOK, Pointers, Objects, Apartness,
         Settled, Made, RegisteredOrRefused, At, Runs, Goto, Give, statics, objects,
         bounds, control, AliveManager, AliveProtocol, Labels, Starting, MountingSd,
         Handling, Stopping
<1>3. Apartness'
  <2>1. /\ pc[t] \in Starting /\ Made(t) /\ ~ready
        /\ manager # 0 /\ protocol = 0 /\ this[t] = manager
        /\ managers[manager] = "raw" /\ registrar # manager
    BY StarterAlone DEF RegisteredOrRefused, At, Starting, Made
  <2>2. CASE registrar = 0 /\ registrar' = this[t] /\ Goto(t, "mark")
    <3>1. pc'[t] = "mark"
      BY <2>2 DEF IInv, TInv, TypeOK, ControlOK, Goto
    <3>2. ~ready' /\ Made(t)'
      BY <2>1, <2>2, <3>1 DEF RegisteredOrRefused, statics, Made, Starting
    <3>3. QED
      BY <2>1, <2>2, <3>2, StarterGoesOn DEF Labels, Starting, MountingSd, Handling
  <2>3. CASE registrar # 0 /\ UNCHANGED registrar /\ Goto(t, "new_protocol")
    <3>1. pc'[t] = "new_protocol"
      BY <2>3 DEF IInv, TInv, TypeOK, ControlOK, Goto
    <3>2. managers[registrar] = "deleted"
      BY <2>1, <2>3 DEF IInv, TInv, TypeOK, DataOK, Pointers, Objects
    <3>3. ~ready' /\ Made(t)'
      BY <2>1, <2>3, <3>1, <3>2
         DEF RegisteredOrRefused, statics, Made, Starting, ServedOrOrphaned
    <3>4. QED
      BY <2>1, <2>3, <3>3, StarterGoesOn DEF Labels, Starting, MountingSd, Handling
  <2>4. QED
    BY <2>2, <2>3 DEF RegisteredOrRefused
<1>4. Settled'
  BY DEF IInv, TInv, TypeOK, Phases, DataOK, ControlOK, Pointers, Objects, Apartness,
         Settled, Made, ServedOrOrphaned, Served, RegisteredOrRefused, At, Runs, Goto,
         Give, statics, objects, bounds, control, AliveManager, AliveProtocol, Labels,
         Starting, MountingSd, Handling, Stopping
<1>5. NoBadCall'
  BY DEF IInv, TInv, TypeOK, Phases, DataOK, ControlOK, Pointers, NoBadCall, Objects,
         Apartness, Settled, Made, RegisteredOrRefused, At, Runs, Goto, Give, statics,
         objects, bounds, control, AliveManager, AliveProtocol, Labels, Starting,
         MountingSd, Handling, Stopping
<1>6. QED
  BY <1>1, <1>2, <1>3, <1>4, <1>5 DEF IInv

LEMMA MarkInitializedKeeps == ASSUME IInv, NEW t \in Tasks, MarkInitialized(t) PROVE IInv'
<1> USE MainIsATask, TaskAssumption, BoundAssumption DEF Tasks
<1>1. TInv'
  BY MarkInitializedTypes DEF IInv
<1>2. Objects'
  BY DEF IInv, TInv, TypeOK, Phases, DataOK, ControlOK, Pointers, Objects, Apartness,
         Settled, Made, MarkInitialized, At, Runs, Goto, statics, objects, bounds, control,
         AliveManager, AliveProtocol, Labels, Starting, MountingSd, Handling, Stopping
<1>3. Apartness'
  BY DEF IInv, TInv, TypeOK, Phases, DataOK, ControlOK, Pointers, Objects, Apartness,
         Settled, Made, ServedOrOrphaned, Served, MarkInitialized, At, Runs, Goto, statics,
         objects, bounds, control, AliveManager, AliveProtocol, Labels, Starting,
         MountingSd, Handling, Stopping
<1>4. Settled'
  BY DEF IInv, TInv, TypeOK, Phases, DataOK, ControlOK, Pointers, Objects, Apartness,
         Settled, Made, ServedOrOrphaned, Served, MarkInitialized, At, Runs, Goto, statics,
         objects, bounds, control, AliveManager, AliveProtocol, Labels, Starting,
         MountingSd, Handling, Stopping
<1>5. NoBadCall'
  BY DEF IInv, TInv, TypeOK, Phases, DataOK, ControlOK, Pointers, NoBadCall, Objects,
         Apartness, Settled, Made, MarkInitialized, At, Runs, Goto, statics, objects,
         bounds, control, AliveManager, AliveProtocol, Labels, Starting, MountingSd,
         Handling, Stopping
<1>6. QED
  BY <1>1, <1>2, <1>3, <1>4, <1>5 DEF IInv

LEMMA NewProtocolKeeps == ASSUME IInv, NEW t \in Tasks, NewProtocol(t) PROVE IInv'
<1> USE MainIsATask, TaskAssumption, BoundAssumption DEF Tasks
<1>1. TInv'
  BY NewProtocolTypes DEF IInv
<1>2. /\ pc[t] \in Starting /\ ~ready /\ protocol = 0 /\ manager # 0 /\ ServedOrOrphaned
      /\ pc[Main] \notin Stopping
      /\ \A u \in Tasks \ {t} : pc[u] \notin Starting \cup MountingSd \cup Handling
  BY StarterAlone DEF NewProtocol, At, Starting, Made
<1>3. \A l \in Labels : Goto(t, l) => pc'[t] = l /\ \A u \in Tasks \ {t} : pc'[u] = pc[u]
  BY DEF IInv, TInv, TypeOK, ControlOK, Goto
<1>4. pc'[Main] \notin Stopping /\ pc'[Rx] \notin Handling
  BY <1>2, <1>3
     DEF NewProtocol, StartFails, Labels, Starting, Stopping, Handling
<1>5. ASSUME NEW p \in 1 .. Slots, UnmadeProtocol(p), protocol' = p,
             protocols' = [protocols EXCEPT ![p].life = "alive"], Goto(t, "init_protocol"),
             UNCHANGED <<manager, managers, ready, registrar>>
      PROVE  IInv'
  <2>1. /\ protocols'[p].life = "alive" /\ protocols'[p].manager = 0
        /\ protocols'[p].open = protocols[p].open
        /\ \A o \in 1 .. Slots : o # p => protocols'[o] = protocols[o]
    BY <1>5 DEF IInv, TInv, TypeOK, DataOK, Objects, UnmadeProtocol
  <2>2. pc'[t] = "init_protocol"
    BY <1>3, <1>5 DEF Labels, Starting
  <2>3. Objects'
    BY <1>2, <1>5, <2>1 DEF IInv, Objects, AliveManager, AliveProtocol
  <2>4. Made(t)'
    BY <1>2, <1>5, <2>1, <2>2 DEF Made, Starting, ServedOrOrphaned, Served
  <2>5. Apartness'
    BY <1>2, <1>5, <2>4, StarterGoesOn DEF Labels, Starting, MountingSd, Handling
  <2>6. Settled'
    BY <1>2, <1>4, <1>5, <2>2 DEF Settled, Starting, Stopping, Handling
  <2>7. NoBadCall'
    BY <1>3, <1>5, <2>2 DEF IInv, NoBadCall, Labels, Starting
  <2>8. QED
    BY <1>1, <2>3, <2>5, <2>6, <2>7 DEF IInv
<1>6. ASSUME protocol' = 0, manager' = 0, managers' = ManagersWithout(manager),
             Goto(t, "idle"), UNCHANGED <<protocols, ready, registrar>>
      PROVE  IInv'
  <2>1. \A o \in 1 .. Slots : managers'[o] = IF o = manager THEN "deleted" ELSE managers[o]
    BY <1>6 DEF ManagersWithout
  <2>2. pc'[t] = "idle"
    BY <1>3, <1>6 DEF Labels
  <2>3. Objects'
    BY <1>2, <1>6, <2>1
       DEF IInv, TInv, TypeOK, DataOK, Pointers, Objects, AliveManager, AliveProtocol
  <2>4. Apartness'
    BY <1>2, <1>6, StarterGoesOn DEF Labels, Starting, MountingSd, Handling
  <2>5. Settled'
    BY <1>2, <1>4, <1>6 DEF Settled, Stopping, Handling
  <2>6. NoBadCall'
    BY <1>3, <1>6, <2>2 DEF IInv, NoBadCall, Labels
  <2>7. QED
    BY <1>1, <2>3, <2>4, <2>5, <2>6 DEF IInv
<1>7. QED
  BY <1>5, <1>6 DEF NewProtocol, StartFails, bounds

LEMMA InitProtocolKeeps == ASSUME IInv, NEW t \in Tasks, InitProtocol(t) PROVE IInv'
<1> USE MainIsATask, TaskAssumption, BoundAssumption DEF Tasks
<1>1. TInv'
  BY InitProtocolTypes DEF IInv
<1>2. /\ pc[t] \in Starting /\ ~ready /\ protocol # 0 /\ manager # 0 /\ ServedOrOrphaned
      /\ protocols[protocol].manager = 0 /\ pc[Main] \notin Stopping
      /\ \A u \in Tasks \ {t} : pc[u] \notin Starting \cup MountingSd \cup Handling
  BY StarterAlone DEF InitProtocol, At, Starting, Made
<1>3. AliveProtocol(protocol) /\ protocol \in 1 .. Slots
  BY <1>2 DEF IInv, TInv, TypeOK, DataOK, Pointers, Objects
<1>4. /\ protocols' = [protocols EXCEPT ![protocol].manager = IF @ = 0 THEN manager ELSE @]
      /\ Goto(t, "set_ready")
      /\ UNCHANGED <<protocol, manager, ready, managers, registrar, this>>
  BY <1>2, <1>3 DEF InitProtocol
<1>5. pc'[t] = "set_ready" /\ \A u \in Tasks \ {t} : pc'[u] = pc[u]
  BY <1>4 DEF IInv, TInv, TypeOK, ControlOK, Goto
<1>6. /\ protocols'[protocol].manager = manager
      /\ protocols'[protocol].life = protocols[protocol].life
      /\ protocols'[protocol].open = protocols[protocol].open
      /\ \A o \in 1 .. Slots : o # protocol => protocols'[o] = protocols[o]
  BY <1>2, <1>3, <1>4 DEF IInv, TInv, TypeOK, DataOK
<1>7. Objects'
  BY <1>3, <1>4, <1>6 DEF IInv, Objects, AliveManager, AliveProtocol
<1>8. Apartness'
  <2>1. Made(t)'
    BY <1>2, <1>4, <1>5, <1>6 DEF Made, Starting, ServedOrOrphaned, Served
  <2>2. QED
    BY <1>2, <1>4, <2>1, StarterGoesOn DEF Labels, Starting, MountingSd, Handling
<1>9. Settled'
  <2>1. pc'[Main] \notin Stopping /\ pc'[Rx] \notin Handling
    BY <1>2, <1>5 DEF Stopping, Handling
  <2>2. QED
    BY <1>2, <1>4, <1>5, <2>1 DEF Settled, Starting, Stopping, Handling
<1>10. NoBadCall'
  BY <1>5 DEF IInv, NoBadCall
<1>11. QED
  BY <1>1, <1>7, <1>8, <1>9, <1>10 DEF IInv

LEMMA SetReadyKeeps == ASSUME IInv, NEW t \in Tasks, SetReady(t) PROVE IInv'
<1> USE MainIsATask, TaskAssumption, BoundAssumption DEF Tasks
<1>1. TInv'
  BY SetReadyTypes DEF IInv
<1>2. Objects'
  BY DEF IInv, TInv, TypeOK, Phases, DataOK, ControlOK, Pointers, Objects, Apartness,
         Settled, Made, SetReady, At, Runs, Goto, AfterStart, statics, objects, bounds,
         control, AliveManager, AliveProtocol, Labels, Starting, MountingSd, Handling,
         Stopping
<1>3. Apartness'
  BY DEF IInv, TInv, TypeOK, Phases, DataOK, ControlOK, Pointers, Objects, Apartness,
         Settled, Made, ServedOrOrphaned, Served, SetReady, At, Runs, Goto, AfterStart,
         statics, objects, bounds, control, AliveManager, AliveProtocol, Labels, Starting,
         MountingSd, Handling, Stopping
<1>4. Settled'
  BY DEF IInv, TInv, TypeOK, Phases, DataOK, ControlOK, Pointers, Objects, Apartness,
         Settled, Made, ServedOrOrphaned, Served, SetReady, At, Runs, Goto, AfterStart,
         statics, objects, bounds, control, AliveManager, AliveProtocol, Labels, Starting,
         MountingSd, Handling, Stopping
<1>5. NoBadCall'
  BY DEF IInv, TInv, TypeOK, Phases, DataOK, ControlOK, Pointers, NoBadCall, Objects,
         Apartness, Settled, Made, SetReady, At, Runs, Goto, AfterStart, statics, objects,
         bounds, control, AliveManager, AliveProtocol, Labels, Starting, MountingSd,
         Handling, Stopping
<1>6. QED
  BY <1>1, <1>2, <1>3, <1>4, <1>5 DEF IInv

LEMMA GetBackendKeeps == ASSUME IInv, NEW t \in Tasks, GetBackend(t) PROVE IInv'
<1> USE MainIsATask, TaskAssumption, BoundAssumption DEF Tasks
<1>1. TInv'
  BY GetBackendTypes DEF IInv
<1>2. Objects'
  BY DEF IInv, TInv, TypeOK, Phases, DataOK, ControlOK, Pointers, Objects, Apartness,
         Settled, Made, GetBackend, At, Runs, Goto, Take, statics, objects, bounds,
         control, AliveManager, AliveProtocol, Labels, Starting, MountingSd, Handling,
         Stopping
<1>3. Apartness'
  BY DEF IInv, TInv, TypeOK, Phases, DataOK, ControlOK, Pointers, Objects, Apartness,
         Settled, Made, ServedOrOrphaned, Served, GetBackend, At, Runs, Goto, Take,
         statics, objects, bounds, control, AliveManager, AliveProtocol, Labels, Starting,
         MountingSd, Handling, Stopping
<1>4. Settled'
  BY DEF IInv, TInv, TypeOK, Phases, DataOK, ControlOK, Pointers, Objects, Apartness,
         Settled, Made, ServedOrOrphaned, Served, GetBackend, At, Runs, Goto, Take,
         statics, objects, bounds, control, AliveManager, AliveProtocol, Labels, Starting,
         MountingSd, Handling, Stopping
<1>5. NoBadCall'
  BY DEF IInv, TInv, TypeOK, Phases, DataOK, ControlOK, Pointers, NoBadCall, Objects,
         Apartness, Settled, Made, GetBackend, At, Runs, Goto, Take, statics, objects,
         bounds, control, AliveManager, AliveProtocol, Labels, Starting, MountingSd,
         Handling, Stopping
<1>6. QED
  BY <1>1, <1>2, <1>3, <1>4, <1>5 DEF IInv

LEMMA GotBackendKeeps == ASSUME IInv, NEW t \in Tasks, GotBackend(t) PROVE IInv'
<1> USE MainIsATask, TaskAssumption, BoundAssumption DEF Tasks
<1>1. TInv'
  BY GotBackendTypes DEF IInv
<1>2. Objects'
  BY DEF IInv, TInv, TypeOK, Phases, DataOK, ControlOK, Pointers, Objects, Apartness,
         Settled, Made, GotBackend, At, Runs, Goto, Give, statics, objects, bounds,
         control, AliveManager, AliveProtocol, Labels, Starting, MountingSd, Handling,
         Stopping
<1>3. Apartness'
  BY DEF IInv, TInv, TypeOK, Phases, DataOK, ControlOK, Pointers, Objects, Apartness,
         Settled, Made, ServedOrOrphaned, Served, GotBackend, At, Runs, Goto, Give,
         statics, objects, bounds, control, AliveManager, AliveProtocol, Labels, Starting,
         MountingSd, Handling, Stopping
<1>4. Settled'
  BY DEF IInv, TInv, TypeOK, Phases, DataOK, ControlOK, Pointers, Objects, Apartness,
         Settled, Made, ServedOrOrphaned, Served, GotBackend, At, Runs, Goto, Give,
         statics, objects, bounds, control, AliveManager, AliveProtocol, Labels, Starting,
         MountingSd, Handling, Stopping
<1>5. NoBadCall'
  BY DEF IInv, TInv, TypeOK, Phases, DataOK, ControlOK, Pointers, NoBadCall, Objects,
         Apartness, Settled, Made, GotBackend, At, Runs, Goto, Give, statics, objects,
         bounds, control, AliveManager, AliveProtocol, Labels, Starting, MountingSd,
         Handling, Stopping
<1>6. QED
  BY <1>1, <1>2, <1>3, <1>4, <1>5 DEF IInv

LEMMA IsMountedKeeps == ASSUME IInv, NEW t \in Tasks, IsMounted(t) PROVE IInv'
<1> USE MainIsATask, TaskAssumption, BoundAssumption DEF Tasks
<1>1. TInv'
  BY IsMountedTypes DEF IInv
<1>2. Objects'
  BY DEF IInv, TInv, TypeOK, Phases, DataOK, ControlOK, Pointers, Objects, Apartness,
         Settled, Made, IsMounted, At, Runs, Goto, statics, objects, bounds, control,
         AliveManager, AliveProtocol, Labels, Starting, MountingSd, Handling, Stopping
<1>3. Apartness'
  BY DEF IInv, TInv, TypeOK, Phases, DataOK, ControlOK, Pointers, Objects, Apartness,
         Settled, Made, ServedOrOrphaned, Served, IsMounted, At, Runs, Goto, statics,
         objects, bounds, control, AliveManager, AliveProtocol, Labels, Starting,
         MountingSd, Handling, Stopping
<1>4. Settled'
  BY DEF IInv, TInv, TypeOK, Phases, DataOK, ControlOK, Pointers, Objects, Apartness,
         Settled, Made, ServedOrOrphaned, Served, IsMounted, At, Runs, Goto, statics,
         objects, bounds, control, AliveManager, AliveProtocol, Labels, Starting,
         MountingSd, Handling, Stopping
<1>5. NoBadCall'
  BY DEF IInv, TInv, TypeOK, Phases, DataOK, ControlOK, Pointers, NoBadCall, Objects,
         Apartness, Settled, Made, IsMounted, At, Runs, Goto, statics, objects, bounds,
         control, AliveManager, AliveProtocol, Labels, Starting, MountingSd, Handling,
         Stopping
<1>6. QED
  BY <1>1, <1>2, <1>3, <1>4, <1>5 DEF IInv

LEMMA MountKeeps == ASSUME IInv, NEW t \in Tasks, Mount(t) PROVE IInv'
<1> USE MainIsATask, TaskAssumption, BoundAssumption DEF Tasks
<1>1. TInv'
  BY MountTypes DEF IInv
<1>2. Objects'
  BY DEF IInv, Objects, AliveManager, AliveProtocol, Mount, LockCard, MountCard, statics, objects
<1>3. Apartness'
  <2>1. ASSUME NEW l \in Labels, Goto(t, l), l \in {"mounting", "new_protocol"},
               pc[t] \in {"mount", "mounting"}
        PROVE  Apartness'
    <3>1. pc'[t] = l
      BY <2>1 DEF IInv, TInv, TypeOK, ControlOK, Goto
    <3>2. pc[t] \in Starting /\ Made(t) /\ ~ready
      BY <2>1, StarterAlone DEF Starting
    <3>3. UNCHANGED <<protocol, manager, ready, managers, protocols, registrar, this>>
      BY DEF Mount, LockCard, MountCard, statics, objects
    <3>4. ~ready' /\ Made(t)'
      BY <2>1, <3>1, <3>2, <3>3 DEF Made, Starting, ServedOrOrphaned, Served
    <3>5. QED
      BY <2>1, <3>2, <3>4, StarterGoesOn DEF Starting, MountingSd, Handling
  <2>2. ASSUME NEW l \in Labels, Goto(t, l), l \in {"mounting_sd", "idle"},
               pc[t] \in {"mount_sd", "mounting_sd"}
        PROVE  Apartness'
    <3>1. pc'[t] = l /\ \A u \in Tasks \ {t} : pc'[u] = pc[u]
      BY <2>2 DEF IInv, TInv, TypeOK, ControlOK, Goto
    <3>2. ready /\ \A u \in Tasks : pc[u] \notin Starting
      BY <2>2 DEF IInv, Apartness, MountingSd
    <3>3. QED
      BY <2>2, <3>1, <3>2
         DEF Apartness, Mount, LockCard, MountCard, statics, Starting, MountingSd
  <2>3. QED
    BY <2>1, <2>2 DEF Mount, LockCard, MountCard, At, Labels, Starting, MountingSd
<1>4. Settled'
  <2>1. \/ \E l \in Starting : Goto(t, l) /\ pc[t] \in Starting
        \/ \E l \in MountingSd \cup {"idle"} : Goto(t, l) /\ pc[t] \in MountingSd
    BY DEF Mount, LockCard, MountCard, At, Starting, MountingSd
  <2>2. UNCHANGED <<statics, managers, protocols, registrar, this>>
    BY DEF Mount, LockCard, MountCard, statics, objects
  <2>3. \A u \in Tasks \ {t} : pc'[u] = pc[u]
    BY <2>1 DEF IInv, TInv, TypeOK, ControlOK, Goto
  <2>4. /\ pc[t] \in Starting <=> pc'[t] \in Starting
        /\ \A l \in Stopping \cup {"lookup", "looking", "handle"} : pc[t] # l /\ pc'[t] # l
    BY <2>1
       DEF IInv, TInv, TypeOK, ControlOK, Goto, Labels, Starting, MountingSd, Handling, Stopping
  <2>5. QED
    BY <2>2, <2>3, <2>4 DEF IInv, Settled, ServedOrOrphaned, Served, statics, Stopping
<1>5. NoBadCall'
  BY ZenonT(60) DEF IInv, TInv, TypeOK, Phases, DataOK, ControlOK, Pointers, NoBadCall, Objects,
         Apartness, Settled, Made, Mount, At, Runs, Goto, LockCard, MountCard, Take, Give,
         statics, objects, bounds, control, AliveManager, AliveProtocol, Labels, Starting,
         MountingSd, Handling, Stopping
<1>6. QED
  BY <1>1, <1>2, <1>3, <1>4, <1>5 DEF IInv

LEMMA ProcessRxDataKeeps == ASSUME IInv, ProcessRxData PROVE IInv'
<1> USE MainIsATask, TaskAssumption, BoundAssumption DEF Tasks
<1>1. TInv'
  BY ProcessRxDataTypes DEF IInv
<1>2. Objects'
  BY DEF IInv, TInv, TypeOK, Phases, DataOK, ControlOK, Pointers, Objects, Apartness,
         Settled, Made, ProcessRxData, At, Runs, Goto, statics, objects, bounds, control,
         AliveManager, AliveProtocol, Labels, Starting, MountingSd, Handling, Stopping
<1>3. Apartness'
  BY DEF IInv, TInv, TypeOK, Phases, DataOK, ControlOK, Pointers, Objects, Apartness,
         Settled, Made, ServedOrOrphaned, Served, ProcessRxData, At, Runs, Goto, statics,
         objects, bounds, control, AliveManager, AliveProtocol, Labels, Starting,
         MountingSd, Handling, Stopping
<1>4. Settled'
  BY DEF IInv, TInv, TypeOK, Phases, DataOK, ControlOK, Pointers, Objects, Apartness,
         Settled, Made, ServedOrOrphaned, Served, ProcessRxData, At, Runs, Goto, statics,
         objects, bounds, control, AliveManager, AliveProtocol, Labels, Starting,
         MountingSd, Handling, Stopping
<1>5. NoBadCall'
  BY DEF IInv, TInv, TypeOK, Phases, DataOK, ControlOK, Pointers, NoBadCall, Objects,
         Apartness, Settled, Made, ProcessRxData, At, Runs, Goto, statics, objects, bounds,
         control, AliveManager, AliveProtocol, Labels, Starting, MountingSd, Handling,
         Stopping
<1>6. QED
  BY <1>1, <1>2, <1>3, <1>4, <1>5 DEF IInv

LEMMA LookupKeeps == ASSUME IInv, Lookup PROVE IInv'
<1> USE MainIsATask, TaskAssumption, BoundAssumption DEF Tasks
<1>1. TInv'
  BY LookupTypes DEF IInv
<1>2. Objects'
  BY DEF IInv, TInv, TypeOK, Phases, DataOK, ControlOK, Pointers, Objects, Apartness,
         Settled, Made, Lookup, At, Runs, Goto, Take, statics, objects, bounds, control,
         AliveManager, AliveProtocol, Labels, Starting, MountingSd, Handling, Stopping
<1>3. Apartness'
  BY DEF IInv, TInv, TypeOK, Phases, DataOK, ControlOK, Pointers, Objects, Apartness,
         Settled, Made, ServedOrOrphaned, Served, Lookup, At, Runs, Goto, Take, statics,
         objects, bounds, control, AliveManager, AliveProtocol, Labels, Starting,
         MountingSd, Handling, Stopping
<1>4. Settled'
  BY DEF IInv, TInv, TypeOK, Phases, DataOK, ControlOK, Pointers, Objects, Apartness,
         Settled, Made, ServedOrOrphaned, Served, Lookup, At, Runs, Goto, Take, statics,
         objects, bounds, control, AliveManager, AliveProtocol, Labels, Starting,
         MountingSd, Handling, Stopping
<1>5. NoBadCall'
  BY DEF IInv, TInv, TypeOK, Phases, DataOK, ControlOK, Pointers, NoBadCall, Objects,
         Apartness, Settled, Made, Lookup, At, Runs, Goto, Take, statics, objects, bounds,
         control, AliveManager, AliveProtocol, Labels, Starting, MountingSd, Handling,
         Stopping
<1>6. QED
  BY <1>1, <1>2, <1>3, <1>4, <1>5 DEF IInv

LEMMA LookedUpKeeps == ASSUME IInv, LookedUp PROVE IInv'
<1> USE MainIsATask, TaskAssumption, BoundAssumption DEF Tasks
<1>1. TInv'
  BY LookedUpTypes DEF IInv
<1>2. Objects'
  BY DEF IInv, TInv, TypeOK, Phases, DataOK, ControlOK, Pointers, Objects, Apartness,
         Settled, Made, LookedUp, At, Runs, Goto, Give, statics, objects, bounds, control,
         AliveManager, AliveProtocol, Labels, Starting, MountingSd, Handling, Stopping
<1>3. Apartness'
  BY DEF IInv, TInv, TypeOK, Phases, DataOK, ControlOK, Pointers, Objects, Apartness,
         Settled, Made, ServedOrOrphaned, Served, LookedUp, At, Runs, Goto, Give, statics,
         objects, bounds, control, AliveManager, AliveProtocol, Labels, Starting,
         MountingSd, Handling, Stopping
<1>4. Settled'
  BY DEF IInv, TInv, TypeOK, Phases, DataOK, ControlOK, Pointers, Objects, Apartness,
         Settled, Made, ServedOrOrphaned, Served, LookedUp, At, Runs, Goto, Give, statics,
         objects, bounds, control, AliveManager, AliveProtocol, Labels, Starting,
         MountingSd, Handling, Stopping
<1>5. NoBadCall'
  BY DEF IInv, TInv, TypeOK, Phases, DataOK, ControlOK, Pointers, NoBadCall, Objects,
         Apartness, Settled, Made, LookedUp, At, Runs, Goto, Give, statics, objects,
         bounds, control, AliveManager, AliveProtocol, Labels, Starting, MountingSd,
         Handling, Stopping
<1>6. QED
  BY <1>1, <1>2, <1>3, <1>4, <1>5 DEF IInv

LEMMA HandleKeeps == ASSUME IInv, Handle PROVE IInv'
<1> USE MainIsATask, TaskAssumption, BoundAssumption DEF Tasks
<1>1. TInv'
  BY HandleTypes DEF IInv
<1>2. Objects'
  BY DEF IInv, TInv, TypeOK, Phases, DataOK, ControlOK, Pointers, Objects, Apartness,
         Settled, Made, Handle, At, Runs, Goto, statics, objects, bounds, control,
         AliveManager, AliveProtocol, Labels, Starting, MountingSd, Handling, Stopping
<1>3. Apartness'
  BY DEF IInv, TInv, TypeOK, Phases, DataOK, ControlOK, Pointers, Objects, Apartness,
         Settled, Made, ServedOrOrphaned, Served, Handle, At, Runs, Goto, statics, objects,
         bounds, control, AliveManager, AliveProtocol, Labels, Starting, MountingSd,
         Handling, Stopping
<1>4. Settled'
  BY DEF IInv, TInv, TypeOK, Phases, DataOK, ControlOK, Pointers, Objects, Apartness,
         Settled, Made, ServedOrOrphaned, Served, Handle, At, Runs, Goto, statics, objects,
         bounds, control, AliveManager, AliveProtocol, Labels, Starting, MountingSd,
         Handling, Stopping
<1>5. NoBadCall'
  BY DEF IInv, TInv, TypeOK, Phases, DataOK, ControlOK, Pointers, NoBadCall, Objects,
         Apartness, Settled, Made, Handle, At, Runs, Goto, statics, objects, bounds,
         control, AliveManager, AliveProtocol, Labels, Starting, MountingSd, Handling,
         Stopping
<1>6. QED
  BY <1>1, <1>2, <1>3, <1>4, <1>5 DEF IInv

LEMMA ReceiveKeeps == ASSUME IInv, StartsAlone, Receive PROVE IInv'
<1> USE MainIsATask, TaskAssumption, BoundAssumption DEF Tasks
<1>1. TInv'
  BY ReceiveTypes DEF IInv
<1>2. Objects'
  BY DEF IInv, TInv, TypeOK, Phases, DataOK, ControlOK, Pointers, Objects, Apartness,
         Settled, Made, Receive, At, Runs, Goto, EnsureRuntimeReady, Apart, AfterStart,
         statics, objects, bounds, control, AliveManager, AliveProtocol, Labels, Starting,
         MountingSd, Handling, Stopping
<1>3. Apartness'
  BY DEF IInv, TInv, TypeOK, Phases, DataOK, ControlOK, Pointers, Objects, Apartness,
         Settled, Made, ServedOrOrphaned, Served, Receive, At, Runs, Goto,
         EnsureRuntimeReady, Apart, AfterStart, statics, objects, bounds, control,
         AliveManager, AliveProtocol, Labels, Starting, MountingSd, Handling, Stopping
<1>4. Settled'
  BY DEF IInv, TInv, TypeOK, Phases, DataOK, ControlOK, Pointers, Objects, Apartness,
         Settled, Made, ServedOrOrphaned, Served, Receive, At, Runs, Goto,
         EnsureRuntimeReady, Apart, AfterStart, statics, objects, bounds, control,
         AliveManager, AliveProtocol, Labels, Starting, MountingSd, Handling, Stopping
<1>5. NoBadCall'
  BY DEF IInv, TInv, TypeOK, Phases, DataOK, ControlOK, Pointers, NoBadCall, Objects,
         Apartness, Settled, Made, Receive, At, Runs, Goto, EnsureRuntimeReady, Apart,
         AfterStart, statics, objects, bounds, control, AliveManager, AliveProtocol,
         Labels, Starting, MountingSd, Handling, Stopping
<1>6. QED
  BY <1>1, <1>2, <1>3, <1>4, <1>5 DEF IInv

LEMMA MountSdKeeps == ASSUME IInv, StartsAlone, NEW t \in Apps, MountSd(t) PROVE IInv'
<1> USE MainIsATask, TaskAssumption, BoundAssumption DEF Tasks
<1>1. TInv'
  BY MountSdTypes DEF IInv
<1>2. Objects'
  BY DEF IInv, TInv, TypeOK, Phases, DataOK, ControlOK, Pointers, Objects, Apartness,
         Settled, Made, MountSd, At, Runs, Goto, EnsureRuntimeReady, Apart, AfterStart,
         statics, objects, bounds, control, AliveManager, AliveProtocol, Labels, Starting,
         MountingSd, Handling, Stopping
<1>3. Apartness'
  <2>1. CASE UNCHANGED pc
    BY <2>1 DEF IInv, Apartness, Made, ServedOrOrphaned, Served, MountSd, statics, objects
  <2>2. CASE ready /\ Goto(t, AfterStart(t))
    BY <2>2
       DEF IInv, TInv, TypeOK, ControlOK, Apartness, MountSd, Goto, AfterStart, statics,
           Starting, MountingSd, Handling
  <2>3. CASE ~ready /\ Apart(t) /\ Goto(t, IF manager = 0 THEN "new_manager" ELSE "new_protocol")
    <3>1. \A u \in Tasks : pc[u] \notin Starting \cup MountingSd \cup Handling
      BY <2>3 DEF Apart, MountSd, At, IInv, Apartness, Starting
    <3>2. manager = 0 /\ protocol = 0
      BY <2>3, <3>1 DEF MountSd, IInv, Settled
    <3>3. pc'[t] = "new_manager" /\ \A u \in Tasks \ {t} : pc'[u] = pc[u]
      BY <2>3, <3>2 DEF IInv, TInv, TypeOK, ControlOK, Goto
    <3>4. Made(t)'
      BY <3>2, <3>3 DEF Made, MountSd, statics, Starting
    <3>5. QED
      BY <2>3, <3>1, <3>3, <3>4
         DEF Apartness, MountSd, statics, Starting, MountingSd, Handling
  <2>4. QED
    BY <2>1, <2>2, <2>3 DEF MountSd, EnsureRuntimeReady
<1>4. Settled'
  BY DEF IInv, TInv, TypeOK, Phases, DataOK, ControlOK, Pointers, Objects, Apartness,
         Settled, Made, ServedOrOrphaned, Served, MountSd, At, Runs, Goto,
         EnsureRuntimeReady, Apart, AfterStart, statics, objects, bounds, control,
         AliveManager, AliveProtocol, Labels, Starting, MountingSd, Handling, Stopping
<1>5. NoBadCall'
  BY DEF IInv, TInv, TypeOK, Phases, DataOK, ControlOK, Pointers, NoBadCall, Objects,
         Apartness, Settled, Made, MountSd, At, Runs, Goto, EnsureRuntimeReady, Apart,
         AfterStart, statics, objects, bounds, control, AliveManager, AliveProtocol,
         Labels, Starting, MountingSd, Handling, Stopping
<1>6. QED
  BY <1>1, <1>2, <1>3, <1>4, <1>5 DEF IInv

LEMMA InitBridgeKeeps == ASSUME IInv, InitBridge PROVE IInv'
<1> USE MainIsATask, TaskAssumption, BoundAssumption DEF Tasks
<1>1. TInv'
  BY InitBridgeTypes DEF IInv
<1>2. Objects'
  BY DEF IInv, TInv, TypeOK, Phases, DataOK, ControlOK, Pointers, Objects, Apartness,
         Settled, Made, InitBridge, Quiet, statics, objects, bounds, control, AliveManager,
         AliveProtocol, Labels, Starting, MountingSd, Handling, Stopping
<1>3. Apartness'
  BY DEF IInv, TInv, TypeOK, Phases, DataOK, ControlOK, Pointers, Objects, Apartness,
         Settled, Made, ServedOrOrphaned, Served, InitBridge, Quiet, statics, objects,
         bounds, control, AliveManager, AliveProtocol, Labels, Starting, MountingSd,
         Handling, Stopping
<1>4. Settled'
  BY DEF IInv, TInv, TypeOK, Phases, DataOK, ControlOK, Pointers, Objects, Apartness,
         Settled, Made, ServedOrOrphaned, Served, InitBridge, Quiet, statics, objects,
         bounds, control, AliveManager, AliveProtocol, Labels, Starting, MountingSd,
         Handling, Stopping
<1>5. NoBadCall'
  BY DEF IInv, TInv, TypeOK, Phases, DataOK, ControlOK, Pointers, NoBadCall, Objects,
         Apartness, Settled, Made, InitBridge, Quiet, statics, objects, bounds, control,
         AliveManager, AliveProtocol, Labels, Starting, MountingSd, Handling, Stopping
<1>6. QED
  BY <1>1, <1>2, <1>3, <1>4, <1>5 DEF IInv

LEMMA CreateRxTaskKeeps == ASSUME IInv, CreateRxTask PROVE IInv'
<1> USE MainIsATask, TaskAssumption, BoundAssumption DEF Tasks
<1>1. TInv'
  BY CreateRxTaskTypes DEF IInv
<1>2. Objects'
  BY DEF IInv, TInv, TypeOK, Phases, DataOK, ControlOK, Pointers, Objects, Apartness,
         Settled, Made, CreateRxTask, At, Runs, Goto, statics, objects, bounds, control,
         AliveManager, AliveProtocol, Labels, Starting, MountingSd, Handling, Stopping
<1>3. Apartness'
  BY DEF IInv, TInv, TypeOK, Phases, DataOK, ControlOK, Pointers, Objects, Apartness,
         Settled, Made, ServedOrOrphaned, Served, CreateRxTask, At, Runs, Goto, statics,
         objects, bounds, control, AliveManager, AliveProtocol, Labels, Starting,
         MountingSd, Handling, Stopping
<1>4. Settled'
  BY DEF IInv, TInv, TypeOK, Phases, DataOK, ControlOK, Pointers, Objects, Apartness,
         Settled, Made, ServedOrOrphaned, Served, CreateRxTask, At, Runs, Goto, statics,
         objects, bounds, control, AliveManager, AliveProtocol, Labels, Starting,
         MountingSd, Handling, Stopping
<1>5. NoBadCall'
  BY DEF IInv, TInv, TypeOK, Phases, DataOK, ControlOK, Pointers, NoBadCall, Objects,
         Apartness, Settled, Made, CreateRxTask, At, Runs, Goto, statics, objects, bounds,
         control, AliveManager, AliveProtocol, Labels, Starting, MountingSd, Handling,
         Stopping
<1>6. QED
  BY <1>1, <1>2, <1>3, <1>4, <1>5 DEF IInv

LEMMA SetRunningKeeps == ASSUME IInv, SetRunning PROVE IInv'
<1> USE MainIsATask, TaskAssumption, BoundAssumption DEF Tasks
<1>1. TInv'
  BY SetRunningTypes DEF IInv
<1>2. Objects'
  BY DEF IInv, TInv, TypeOK, Phases, DataOK, ControlOK, Pointers, Objects, Apartness,
         Settled, Made, SetRunning, At, Runs, Goto, statics, objects, bounds, control,
         AliveManager, AliveProtocol, Labels, Starting, MountingSd, Handling, Stopping
<1>3. Apartness'
  BY DEF IInv, TInv, TypeOK, Phases, DataOK, ControlOK, Pointers, Objects, Apartness,
         Settled, Made, ServedOrOrphaned, Served, SetRunning, At, Runs, Goto, statics,
         objects, bounds, control, AliveManager, AliveProtocol, Labels, Starting,
         MountingSd, Handling, Stopping
<1>4. Settled'
  BY DEF IInv, TInv, TypeOK, Phases, DataOK, ControlOK, Pointers, Objects, Apartness,
         Settled, Made, ServedOrOrphaned, Served, SetRunning, At, Runs, Goto, statics,
         objects, bounds, control, AliveManager, AliveProtocol, Labels, Starting,
         MountingSd, Handling, Stopping
<1>5. NoBadCall'
  BY DEF IInv, TInv, TypeOK, Phases, DataOK, ControlOK, Pointers, NoBadCall, Objects,
         Apartness, Settled, Made, SetRunning, At, Runs, Goto, statics, objects, bounds,
         control, AliveManager, AliveProtocol, Labels, Starting, MountingSd, Handling,
         Stopping
<1>6. QED
  BY <1>1, <1>2, <1>3, <1>4, <1>5 DEF IInv

LEMMA DeinitKeeps == ASSUME IInv, Deinit PROVE IInv'
<1> USE MainIsATask, TaskAssumption, BoundAssumption DEF Tasks
<1>1. TInv'
  BY DeinitTypes DEF IInv
<1>2. Objects'
  BY DEF IInv, TInv, TypeOK, Phases, DataOK, ControlOK, Pointers, Objects, Apartness,
         Settled, Made, Deinit, Quiet, LocksWithoutRx, statics, objects, bounds, control,
         AliveManager, AliveProtocol, Labels, Starting, MountingSd, Handling, Stopping
<1>3. Apartness'
  BY DEF IInv, TInv, TypeOK, Phases, DataOK, ControlOK, Pointers, Objects, Apartness,
         Settled, Made, ServedOrOrphaned, Served, Deinit, Quiet, LocksWithoutRx, statics,
         objects, bounds, control, AliveManager, AliveProtocol, Labels, Starting,
         MountingSd, Handling, Stopping
<1>4. Settled'
  BY DEF IInv, TInv, TypeOK, Phases, DataOK, ControlOK, Pointers, Objects, Apartness,
         Settled, Made, ServedOrOrphaned, Served, Deinit, Quiet, LocksWithoutRx, statics,
         objects, bounds, control, AliveManager, AliveProtocol, Labels, Starting,
         MountingSd, Handling, Stopping
<1>5. NoBadCall'
  BY DEF IInv, TInv, TypeOK, Phases, DataOK, ControlOK, Pointers, NoBadCall, Objects,
         Apartness, Settled, Made, Deinit, Quiet, LocksWithoutRx, statics, objects, bounds,
         control, AliveManager, AliveProtocol, Labels, Starting, MountingSd, Handling,
         Stopping
<1>6. QED
  BY <1>1, <1>2, <1>3, <1>4, <1>5 DEF IInv

LEMMA DeleteProtocolKeeps == ASSUME IInv, DeleteProtocol PROVE IInv'
<1> USE MainIsATask, TaskAssumption, BoundAssumption DEF Tasks
<1>1. TInv'
  BY DeleteProtocolTypes DEF IInv
<1>2. Objects'
  <2>1. \A o \in 1 .. Slots :
           /\ protocols'[o].life = "alive" => o # protocol /\ protocols[o].life = "alive"
           /\ protocols'[o].open => o # protocol /\ protocols[o].open
           /\ protocols'[o].life = "unmade" => protocols[o].life = "unmade"
           /\ protocols'[o].manager = protocols[o].manager
    BY ProtocolWithout DEF IInv, TInv, TypeOK, DeleteProtocol
  <2>2. QED
    BY <2>1 DEF IInv, Objects, DeleteProtocol, AliveManager
<1>3. Apartness'
  BY DEF IInv, TInv, TypeOK, Phases, DataOK, ControlOK, Pointers, Objects, Apartness,
         Settled, Made, ServedOrOrphaned, Served, DeleteProtocol, At, Runs, Goto,
         ProtocolsWithout, statics, objects, bounds, control, AliveManager, AliveProtocol,
         Labels, Starting, MountingSd, Handling, Stopping
<1>4. Settled'
  BY DEF IInv, TInv, TypeOK, Phases, DataOK, ControlOK, Pointers, Objects, Apartness,
         Settled, Made, ServedOrOrphaned, Served, DeleteProtocol, At, Runs, Goto,
         ProtocolsWithout, statics, objects, bounds, control, AliveManager, AliveProtocol,
         Labels, Starting, MountingSd, Handling, Stopping
<1>5. NoBadCall'
  BY DEF IInv, TInv, TypeOK, Phases, DataOK, ControlOK, Pointers, NoBadCall, Objects,
         Apartness, Settled, Made, DeleteProtocol, At, Runs, Goto, ProtocolsWithout,
         statics, objects, bounds, control, AliveManager, AliveProtocol, Labels, Starting,
         MountingSd, Handling, Stopping
<1>6. QED
  BY <1>1, <1>2, <1>3, <1>4, <1>5 DEF IInv

LEMMA DeleteManagerKeeps == ASSUME IInv, DeleteManager PROVE IInv'
<1> USE MainIsATask, TaskAssumption, BoundAssumption DEF Tasks
<1>1. TInv'
  BY DeleteManagerTypes DEF IInv
<1>2. Objects'
  BY DEF IInv, TInv, TypeOK, Phases, DataOK, ControlOK, Pointers, Objects, Apartness,
         Settled, Made, DeleteManager, At, Runs, Goto, ManagersWithout, statics, objects,
         bounds, control, AliveManager, AliveProtocol, Labels, Starting, MountingSd,
         Handling, Stopping
<1>3. Apartness'
  BY DEF IInv, TInv, TypeOK, Phases, DataOK, ControlOK, Pointers, Objects, Apartness,
         Settled, Made, ServedOrOrphaned, Served, DeleteManager, At, Runs, Goto,
         ManagersWithout, statics, objects, bounds, control, AliveManager, AliveProtocol,
         Labels, Starting, MountingSd, Handling, Stopping
<1>4. Settled'
  BY DEF IInv, TInv, TypeOK, Phases, DataOK, ControlOK, Pointers, Objects, Apartness,
         Settled, Made, ServedOrOrphaned, Served, DeleteManager, At, Runs, Goto,
         ManagersWithout, statics, objects, bounds, control, AliveManager, AliveProtocol,
         Labels, Starting, MountingSd, Handling, Stopping
<1>5. NoBadCall'
  BY DEF IInv, TInv, TypeOK, Phases, DataOK, ControlOK, Pointers, NoBadCall, Objects,
         Apartness, Settled, Made, DeleteManager, At, Runs, Goto, ManagersWithout, statics,
         objects, bounds, control, AliveManager, AliveProtocol, Labels, Starting,
         MountingSd, Handling, Stopping
<1>6. QED
  BY <1>1, <1>2, <1>3, <1>4, <1>5 DEF IInv

LEMMA StopBridgeKeeps == ASSUME IInv, StopBridge PROVE IInv'
<1> USE MainIsATask, TaskAssumption, BoundAssumption DEF Tasks
<1>1. TInv'
  BY StopBridgeTypes DEF IInv
<1>2. Objects'
  BY DEF IInv, TInv, TypeOK, Phases, DataOK, ControlOK, Pointers, Objects, Apartness,
         Settled, Made, StopBridge, At, Runs, Goto, statics, objects, bounds, control,
         AliveManager, AliveProtocol, Labels, Starting, MountingSd, Handling, Stopping
<1>3. Apartness'
  BY DEF IInv, TInv, TypeOK, Phases, DataOK, ControlOK, Pointers, Objects, Apartness,
         Settled, Made, ServedOrOrphaned, Served, StopBridge, At, Runs, Goto, statics,
         objects, bounds, control, AliveManager, AliveProtocol, Labels, Starting,
         MountingSd, Handling, Stopping
<1>4. Settled'
  BY DEF IInv, TInv, TypeOK, Phases, DataOK, ControlOK, Pointers, Objects, Apartness,
         Settled, Made, ServedOrOrphaned, Served, StopBridge, At, Runs, Goto, statics,
         objects, bounds, control, AliveManager, AliveProtocol, Labels, Starting,
         MountingSd, Handling, Stopping
<1>5. NoBadCall'
  BY DEF IInv, TInv, TypeOK, Phases, DataOK, ControlOK, Pointers, NoBadCall, Objects,
         Apartness, Settled, Made, StopBridge, At, Runs, Goto, statics, objects, bounds,
         control, AliveManager, AliveProtocol, Labels, Starting, MountingSd, Handling,
         Stopping
<1>6. QED
  BY <1>1, <1>2, <1>3, <1>4, <1>5 DEF IInv

LEMMA PauseKeeps == ASSUME IInv, Pause PROVE IInv'
<1> USE MainIsATask, TaskAssumption, BoundAssumption DEF Tasks
<1>1. TInv'
  BY PauseTypes DEF IInv
<1>2. Objects'
  BY DEF IInv, TInv, TypeOK, Phases, DataOK, ControlOK, Pointers, Objects, Apartness,
         Settled, Made, Pause, At, Runs, Goto, statics, objects, bounds, control,
         AliveManager, AliveProtocol, Labels, Starting, MountingSd, Handling, Stopping
<1>3. Apartness'
  BY DEF IInv, TInv, TypeOK, Phases, DataOK, ControlOK, Pointers, Objects, Apartness,
         Settled, Made, ServedOrOrphaned, Served, Pause, At, Runs, Goto, statics, objects,
         bounds, control, AliveManager, AliveProtocol, Labels, Starting, MountingSd,
         Handling, Stopping
<1>4. Settled'
  BY DEF IInv, TInv, TypeOK, Phases, DataOK, ControlOK, Pointers, Objects, Apartness,
         Settled, Made, ServedOrOrphaned, Served, Pause, At, Runs, Goto, statics, objects,
         bounds, control, AliveManager, AliveProtocol, Labels, Starting, MountingSd,
         Handling, Stopping
<1>5. NoBadCall'
  BY DEF IInv, TInv, TypeOK, Phases, DataOK, ControlOK, Pointers, NoBadCall, Objects,
         Apartness, Settled, Made, Pause, At, Runs, Goto, statics, objects, bounds,
         control, AliveManager, AliveProtocol, Labels, Starting, MountingSd, Handling,
         Stopping
<1>6. QED
  BY <1>1, <1>2, <1>3, <1>4, <1>5 DEF IInv

LEMMA ResumeKeeps == ASSUME IInv, Resume PROVE IInv'
<1> USE MainIsATask, TaskAssumption, BoundAssumption DEF Tasks
<1>1. TInv'
  BY ResumeTypes DEF IInv
<1>2. Objects'
  BY DEF IInv, TInv, TypeOK, Phases, DataOK, ControlOK, Pointers, Objects, Apartness,
         Settled, Made, Resume, At, Runs, Goto, statics, objects, bounds, control,
         AliveManager, AliveProtocol, Labels, Starting, MountingSd, Handling, Stopping
<1>3. Apartness'
  BY DEF IInv, TInv, TypeOK, Phases, DataOK, ControlOK, Pointers, Objects, Apartness,
         Settled, Made, ServedOrOrphaned, Served, Resume, At, Runs, Goto, statics, objects,
         bounds, control, AliveManager, AliveProtocol, Labels, Starting, MountingSd,
         Handling, Stopping
<1>4. Settled'
  BY DEF IInv, TInv, TypeOK, Phases, DataOK, ControlOK, Pointers, Objects, Apartness,
         Settled, Made, ServedOrOrphaned, Served, Resume, At, Runs, Goto, statics, objects,
         bounds, control, AliveManager, AliveProtocol, Labels, Starting, MountingSd,
         Handling, Stopping
<1>5. NoBadCall'
  BY DEF IInv, TInv, TypeOK, Phases, DataOK, ControlOK, Pointers, NoBadCall, Objects,
         Apartness, Settled, Made, Resume, At, Runs, Goto, statics, objects, bounds,
         control, AliveManager, AliveProtocol, Labels, Starting, MountingSd, Handling,
         Stopping
<1>6. QED
  BY <1>1, <1>2, <1>3, <1>4, <1>5 DEF IInv

LEMMA InitKeeps == Init => IInv
<1> SUFFICES ASSUME Init PROVE IInv
  OBVIOUS
<1>1. Objects
  BY DEF Init, Objects
<1>2. Apartness
  BY DEF Init, Apartness, Starting, MountingSd, Handling
<1>3. Settled
  BY MainIsATask DEF Init, Settled, Stopping
<1>4. NoBadCall
  BY DEF Init, NoBadCall
<1>5. QED
  BY <1>1, <1>2, <1>3, <1>4, InitTyped DEF IInv

LEMMA NextKeeps == ASSUME StartsAlone PROVE IInv /\ [Next]_vars => IInv'
<1> SUFFICES ASSUME IInv, [Next]_vars PROVE IInv'
  OBVIOUS
<1>1. CASE UNCHANGED vars
  <2>1. TInv'
    BY <1>1, NextTyped DEF IInv
  <2>2. QED
    BY <1>1, <2>1
       DEF IInv, Objects, Apartness, Settled, NoBadCall, Made, ServedOrOrphaned, Served,
           AliveManager, AliveProtocol, vars, statics, objects, control
<1>2. ASSUME NEW t \in Tasks, TaskStep(t) PROVE IInv'
  BY <1>2, NewManagerKeeps, InitManagerKeeps, RegisterBackendKeeps, RegisteredOrRefusedKeeps,
     MarkInitializedKeeps, MountKeeps, NewProtocolKeeps, InitProtocolKeeps, SetReadyKeeps,
     GetBackendKeeps, GotBackendKeeps, IsMountedKeeps
     DEF TaskStep
<1>3. CASE RxStep \/ Receive
  BY <1>3, ProcessRxDataKeeps, LookupKeeps, LookedUpKeeps, HandleKeeps, ReceiveKeeps
     DEF RxStep
<1>4. CASE MainStep \/ InitBridge \/ Deinit \/ Pause \/ Resume
  BY <1>4, CreateRxTaskKeeps, SetRunningKeeps, DeleteProtocolKeeps, DeleteManagerKeeps,
     StopBridgeKeeps, InitBridgeKeeps, DeinitKeeps, PauseKeeps, ResumeKeeps
     DEF MainStep
<1>5. ASSUME NEW t \in Apps, MountSd(t) PROVE IInv'
  BY <1>5, MountSdKeeps
<1>6. QED
  BY <1>1, <1>2, <1>3, <1>4, <1>5 DEF Next

LEMMA Invariance == ASSUME StartsAlone PROVE Spec => []IInv
  BY InitKeeps, NextKeeps, PTL DEF Spec

-----------------------------------------------------------------------------
\* When no two tasks start the runtime at once, no method of a null or deleted
\* protocol or manager is called: not by a call that follows a failed start, nor
\* by one that comes with deinit and the next init.
THEOREM NoDeletedObjectIsCalled == ASSUME StartsAlone PROVE Spec => []NoBadCall
<1>1. IInv => NoBadCall
  BY DEF IInv
<1>2. QED
  BY <1>1, Invariance, PTL

\* Then deinit finds all that init and the calls made: what is alive is what the
\* statics name, and an upload that is open is that protocol's.
THEOREM OneRuntimeAtATime == ASSUME StartsAlone PROVE Spec => []OneRuntime
<1>1. IInv => OneRuntime
  <2> SUFFICES ASSUME IInv PROVE OneRuntime
    OBVIOUS
  <2>1. ASSUME rxTask = "none", pc[Main] \notin Stopping
        PROVE  protocol = 0 /\ manager = 0
    BY <2>1 DEF IInv, TInv, Phases, Settled
  <2>2. QED
    BY <2>1 DEF IInv, Objects, OneRuntime
<1>2. QED
  BY <1>1, Invariance, PTL

\* Then a runtime that is ready has an initialized manager, unless a deleted
\* manager's backend is still in the registry: a start that failed in between
\* does not leave a manager that refuses every file.
THEOREM ReadyRuntimeServes == ASSUME StartsAlone PROVE Spec => []ServesUnlessOrphaned
<1>1. IInv => ServesUnlessOrphaned
  BY DEF IInv, Settled, ServesUnlessOrphaned, ServedOrOrphaned
<1>2. QED
  BY <1>1, Invariance, PTL
=============================================================================
