--------------------------- MODULE StorageRegistry ---------------------------
(***************************************************************************)
(* The storage registry and the manager in front of it:                    *)
(* src/src/internal/storage_registry.cpp and storage_manager.cpp.          *)
(*                                                                         *)
(* The tasks of the device (the UART RX task, the application's tasks)     *)
(* call both.  A registry method holds the registry's mutex from its first *)
(* read to its last write, so it is one step; what it returns is a pointer *)
(* that its caller uses after the mutex is released, so the use is another *)
(* step.  A path or a mount point is the sequence of its components: the   *)
(* root "/" is the empty sequence.                                         *)
(***************************************************************************)
EXTENDS Naturals, Sequences

CONSTANTS
    Tasks,          \* the tasks that call the registry
    Objects,        \* the backend objects that the program ever makes
    MountOf,        \* object -> its get_mount_point()
    Malformed,      \* a mount point that validate_mount_point refuses
    Components,     \* what paths are sequences of
    Paths,          \* the paths of the commands
    MaxBackends,    \* MAX_STORAGE_BACKENDS
    ContractKept,   \* callers wait for a backend's users to unregister it
    NoObject        \* the null pointer

Root == <<>>

ASSUME ObjectAssumption == NoObject \notin Objects
ASSUME MountAssumption ==
    /\ Paths \subseteq Seq(Components)
    /\ MountOf \in [Objects -> Seq(Components) \cup {Malformed}]
ASSUME BoundAssumption == MaxBackends \in Nat /\ ContractKept \in BOOLEAN

VARIABLES
    entries,    \* m_backends, up to m_backend_count
    heap,       \* which objects are made, and which deleted
    pc,         \* where each task is
    hand,       \* the pointer it holds
    index,      \* handle_storage_list's i
    count       \* and its backend_count

taskVars == <<pc, hand, index, count>>
vars == <<entries, heap, taskVars>>

Entry == [backend : Objects, owns : BOOLEAN]
Registered == {entries[i].backend : i \in DOMAIN entries}
MountAt(i) == MountOf[entries[i].backend]

TypeOK ==
    /\ entries \in Seq(Entry)
    /\ Len(entries) <= MaxBackends
    /\ heap \in [Objects -> {"unmade", "alive", "deleted"}]
    /\ pc \in [Tasks -> {"idle", "register", "use", "second", "list", "list_use"}]
    /\ hand \in [Tasks -> Objects \cup {NoObject}]
    /\ index \in [Tasks -> Nat]
    /\ count \in [Tasks -> Nat]

Init ==
    /\ entries = <<>>
    /\ heap = [b \in Objects |-> "unmade"]
    /\ pc = [t \in Tasks |-> "idle"]
    /\ hand = [t \in Tasks |-> NoObject]
    /\ index = [t \in Tasks |-> 0]
    /\ count = [t \in Tasks |-> 0]

-----------------------------------------------------------------------------
(***************************************************************************)
(* Mount points.  The root matches by the same string comparison as every  *)
(* other mount point: it overlaps with none of them, and serves "/" alone. *)
(***************************************************************************)
Within(m, p) ==
    /\ Len(m) <= Len(p)
    /\ \A i \in 1 .. Len(m) : m[i] = p[i]

\* Mutant of Overlap: a mount point below an older one passes.
OverlapAbove(m1, m2) == m2 # Root /\ m1 # m2 /\ Within(m2, m1)

Overlap(m1, m2) ==
    m1 # m2 /\ \/ m1 # Root /\ Within(m1, m2)
               \/ m2 # Root /\ Within(m2, m1)

Serves(m, p) == IF m = Root THEN p = Root ELSE Within(m, p)

Servers(p) == {i \in DOMAIN entries : Serves(MountAt(i), p)}

\* resolve_path: the first of the longest mount points that serve p.
Resolution(p) ==
    LET best(i) == \A j \in Servers(p) :
                      \/ Len(MountAt(j)) < Len(MountAt(i))
                      \/ Len(MountAt(j)) = Len(MountAt(i)) /\ i <= j
    IN  IF Servers(p) = {} THEN NoObject
        ELSE entries[CHOOSE i \in Servers(p) : best(i)].backend

-----------------------------------------------------------------------------
(***************************************************************************)
(* Registration.                                                           *)
(***************************************************************************)
Goto(t, label) == pc' = [pc EXCEPT ![t] = label]
Takes(t, b) == hand' = [hand EXCEPT ![t] = b]
LetsGo(t, label) == Goto(t, label) /\ Takes(t, NoObject)

New(t, b) ==
    /\ pc[t] = "idle"
    /\ heap[b] = "unmade"
    /\ heap' = [heap EXCEPT ![b] = "alive"]
    /\ Goto(t, "register")
    /\ Takes(t, b)
    /\ UNCHANGED <<entries, index, count>>

\* Mutant of Accepts: only the mount point itself is looked for.
AcceptsDistinct(b) ==
    /\ MountOf[b] # Malformed
    /\ Len(entries) < MaxBackends
    /\ \A i \in DOMAIN entries : MountAt(i) # MountOf[b]

\* Mutant of Accepts: the capacity check is off by one.
AcceptsOneMore(b) ==
    /\ MountOf[b] # Malformed
    /\ Len(entries) <= MaxBackends
    /\ \A i \in DOMAIN entries :
          MountAt(i) # MountOf[b] /\ ~Overlap(MountAt(i), MountOf[b])

Accepts(b) ==
    /\ MountOf[b] # Malformed
    /\ Len(entries) < MaxBackends
    /\ \A i \in DOMAIN entries :
          MountAt(i) # MountOf[b] /\ ~Overlap(MountAt(i), MountOf[b])

\* register_backend returns ESP_OK, and the caller goes on to mount().
Register(t, owns) ==
    /\ pc[t] = "register"
    /\ Accepts(hand[t])
    /\ entries' = Append(entries, [backend |-> hand[t], owns |-> owns])
    /\ Goto(t, "use")
    /\ UNCHANGED <<heap, hand, index, count>>

\* register_backend returns an error, and the caller deletes its object.
RegisterRefused(t) ==
    /\ pc[t] = "register"
    /\ ~Accepts(hand[t])
    /\ heap' = [heap EXCEPT ![hand[t]] = "deleted"]
    /\ LetsGo(t, "idle")
    /\ UNCHANGED <<entries, index, count>>

\* Later entries move down by one.
Removed(k) ==
    [i \in 1 .. Len(entries) - 1 |-> IF i < k THEN entries[i] ELSE entries[i + 1]]

Unused(b) == ContractKept => \A u \in Tasks : hand[u] # b

\* Mutant of Unregister: the entry stays when its backend is deleted.
UnregisterKept(t, k) ==
    /\ pc[t] = "idle"
    /\ k \in DOMAIN entries
    /\ Unused(entries[k].backend)
    /\ heap' = [heap EXCEPT ![entries[k].backend] =
                   IF entries[k].owns THEN "deleted" ELSE @]
    /\ UNCHANGED <<entries, taskVars>>

Unregister(t, k) ==
    /\ pc[t] = "idle"
    /\ k \in DOMAIN entries
    /\ Unused(entries[k].backend)
    /\ entries' = Removed(k)
    /\ heap' = [heap EXCEPT ![entries[k].backend] =
                   IF entries[k].owns THEN "deleted" ELSE @]
    /\ UNCHANGED taskVars

Owned == {entries[i].backend : i \in {j \in DOMAIN entries : entries[j].owns}}

Reset(t) ==
    /\ pc[t] = "idle"
    /\ \A b \in Registered : Unused(b)
    /\ entries' = <<>>
    /\ heap' = [b \in Objects |-> IF b \in Owned THEN "deleted" ELSE heap[b]]
    /\ UNCHANGED taskVars

-----------------------------------------------------------------------------
(***************************************************************************)
(* What the commands do with a backend.                                    *)
(***************************************************************************)

\* Every command on one path; get_backend_by_mount is the exact match.
Resolve(t, p) ==
    /\ pc[t] = "idle"
    /\ Resolution(p) # NoObject
    /\ Takes(t, Resolution(p))
    /\ Goto(t, "use")
    /\ UNCHANGED <<entries, heap, index, count>>

GetByMount(t, k) ==
    /\ pc[t] = "idle"
    /\ k \in DOMAIN entries
    /\ Takes(t, entries[k].backend)
    /\ Goto(t, "use")
    /\ UNCHANGED <<entries, heap, index, count>>

Use(t) ==
    /\ pc[t] = "use"
    /\ LetsGo(t, "idle")
    /\ UNCHANGED <<entries, heap, index, count>>

\* rename_file and copy_file: each path is resolved on its own.
ResolveOld(t, p) ==
    /\ pc[t] = "idle"
    /\ Resolution(p) # NoObject
    /\ Takes(t, Resolution(p))
    /\ Goto(t, "second")
    /\ UNCHANGED <<entries, heap, index, count>>

ResolveNew(t, p) ==
    /\ pc[t] = "second"
    /\ \/ Resolution(p) = hand[t] /\ Goto(t, "use") /\ UNCHANGED hand
       \/ Resolution(p) # hand[t] /\ LetsGo(t, "idle")
    /\ UNCHANGED <<entries, heap, index, count>>

\* handle_storage_list: the count first, then one backend after the other.
ListStart(t) ==
    /\ pc[t] = "idle"
    /\ count' = [count EXCEPT ![t] = Len(entries)]
    /\ index' = [index EXCEPT ![t] = 1]
    /\ Goto(t, "list")
    /\ UNCHANGED <<entries, heap, hand>>

ListNext(t) ==
    /\ pc[t] = "list"
    /\ index[t] <= count[t]
    /\ index' = [index EXCEPT ![t] = @ + 1]
    /\ \/ /\ index[t] \in DOMAIN entries
          /\ Takes(t, entries[index[t]].backend)
          /\ Goto(t, "list_use")
       \/ /\ index[t] \notin DOMAIN entries
          /\ UNCHANGED <<pc, hand>>
    /\ UNCHANGED <<entries, heap, count>>

ListUse(t) ==
    /\ pc[t] = "list_use"
    /\ LetsGo(t, "list")
    /\ UNCHANGED <<entries, heap, index, count>>

ListEnd(t) ==
    /\ pc[t] = "list"
    /\ index[t] > count[t]
    /\ Goto(t, "idle")
    /\ index' = [index EXCEPT ![t] = 0]
    /\ count' = [count EXCEPT ![t] = 0]
    /\ UNCHANGED <<entries, heap, hand>>

-----------------------------------------------------------------------------
Step(t) ==
    \/ \E b \in Objects : New(t, b)
    \/ \E owns \in BOOLEAN : Register(t, owns)
    \/ RegisterRefused(t)
    \/ \E k \in 1 .. MaxBackends : Unregister(t, k) \/ GetByMount(t, k)
    \/ Reset(t)
    \/ \E p \in Paths : Resolve(t, p) \/ ResolveOld(t, p) \/ ResolveNew(t, p)
    \/ Use(t)
    \/ ListStart(t) \/ ListNext(t) \/ ListUse(t) \/ ListEnd(t)

Next == \E t \in Tasks : Step(t)

Spec == Init /\ [][Next]_vars

-----------------------------------------------------------------------------
(***************************************************************************)
(* Properties.                                                             *)
(***************************************************************************)

\* Whatever the order of registrations and removals, at most one registered
\* backend serves a path: which one a command works on never depends on the
\* order in which the backends were registered.
ServedByOne ==
    \A p \in Paths : \A i, j \in Servers(p) : i = j

\* A backend serves its paths for as long as it is registered: none that is
\* registered beside it takes them over, and removing another one does not
\* shift them to a neighbour's entry.
NeverHijacked ==
    [][\A p \in Paths :
          Resolution(p) \in Registered' => Resolution(p)' = Resolution(p)]_vars

\* No registered pointer and no pointer that a command is about to call
\* through is that of a deleted backend, and no object is deleted twice:
\* "ESP_ERR_INVALID_STATE Backend has active operations"
\* (src/src/internal/storage_registry.h:132).
NoUseAfterDelete ==
    /\ \A b \in Registered : heap[b] = "alive"
    /\ \A t \in Tasks : hand[t] # NoObject => heap[hand[t]] = "alive"
=============================================================================
