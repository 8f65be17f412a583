------------------------ MODULE StorageRegistryProofs ------------------------
(***************************************************************************)
(* Theorems about StorageRegistry, for any tasks, objects, mount points,   *)
(* paths and capacity.  Of the registered mount points none is equal to    *)
(* another or lies within it: hence one backend at most serves a path,     *)
(* and hence the path stays with it while it is registered.  That no       *)
(* command reaches a deleted backend needs the contract of                 *)
(* unregister_backend besides, and that an object which is still being     *)
(* registered is known to nobody else.                                     *)
(***************************************************************************)
EXTENDS StorageRegistry, SequenceTheorems, TLAPS

MountsValid == \A i \in DOMAIN entries : MountAt(i) # Malformed

MountsApart ==
    \A i, j \in DOMAIN entries :
       i # j => MountAt(i) # MountAt(j) /\ ~Overlap(MountAt(i), MountAt(j))

MountInv == TypeOK /\ MountsValid /\ MountsApart

RegistersObject == \A t \in Tasks : pc[t] = "register" => hand[t] \in Objects

IInv == MountInv /\ RegistersObject

\* An object between its making and its registration is its maker's alone.
NewIsPrivate ==
    \A t \in Tasks : pc[t] = "register" =>
       /\ hand[t] \notin Registered
       /\ \A u \in Tasks \ {t} : hand[u] # hand[t]

PointerInv == IInv /\ NoUseAfterDelete /\ NewIsPrivate

USE ObjectAssumption, MountAssumption, BoundAssumption

-----------------------------------------------------------------------------
(***************************************************************************)
(* Sequences and mount points.                                             *)
(***************************************************************************)

\* A function on 1 .. n is a sequence.
LEMMA FunctionIsSeq ==
    ASSUME NEW S, NEW n \in Nat, NEW f \in [1 .. n -> S]
    PROVE  f \in Seq(S) /\ Len(f) = n /\ DOMAIN f = 1 .. n
  OBVIOUS

\* Two sequences of one length, the first within the second, are equal.
LEMMA WithinOfSameLength ==
    ASSUME NEW a \in Seq(Components), NEW b \in Seq(Components),
           Len(a) = Len(b), Within(a, b)
    PROVE  a = b
<1>1. a \in [1 .. Len(a) -> Components] /\ b \in [1 .. Len(a) -> Components]
  BY LenProperties
<1>2. \A i \in 1 .. Len(a) : a[i] = b[i]
  BY DEF Within
<1>3. QED
  BY <1>1, <1>2

\* Of two mount points that serve one path, the shorter is within the longer:
\* they are equal or overlap (resolve_path against check_mount_overlap).
LEMMA SharedPathOverlaps ==
    ASSUME NEW a \in Seq(Components), NEW b \in Seq(Components),
           NEW p \in Seq(Components), Serves(a, p), Serves(b, p)
    PROVE  a = b \/ Overlap(a, b)
<1>1. Root \in Seq(Components) /\ Len(Root) = 0
  BY DEF Root
<1>2. Len(a) \in Nat /\ Len(b) \in Nat /\ Len(p) \in Nat
  OBVIOUS
<1>3. CASE a = Root \/ b = Root
  <2>1. p = Root
    BY <1>3, <1>1, <1>2, WithinOfSameLength DEF Serves, Within
  <2>2. Within(a, Root) /\ Within(b, Root)
    BY <2>1, <1>1, <1>2 DEF Serves, Within
  <2>3. Len(a) = Len(Root) /\ Len(b) = Len(Root)
    BY <2>2, <1>1, <1>2 DEF Within
  <2>4. a = Root /\ b = Root
    BY <2>2, <2>3, <1>1, WithinOfSameLength
  <2>5. QED
    BY <2>4
<1>4. CASE a # Root /\ b # Root
  <2>1. Within(a, p) /\ Within(b, p)
    BY <1>4 DEF Serves
  <2>2. Within(a, b) \/ Within(b, a)
    BY <2>1, <1>2 DEF Within
  <2>3. QED
    BY <2>2, <1>4 DEF Overlap
<1>5. QED
  BY <1>3, <1>4

-----------------------------------------------------------------------------
(***************************************************************************)
(* What the invariant says of a state.                                     *)
(***************************************************************************)
LEMMA EntryType ==
    ASSUME TypeOK, NEW i \in DOMAIN entries
    PROVE  /\ entries[i] \in Entry
           /\ entries[i].backend \in Objects
           /\ entries[i].owns \in BOOLEAN
<1>1. entries[i] \in Entry
  BY LenProperties DEF TypeOK
<1>2. QED
  BY <1>1 DEF Entry

LEMMA MountType ==
    ASSUME MountInv, NEW i \in DOMAIN entries
    PROVE  MountAt(i) \in Seq(Components)
  BY EntryType DEF MountInv, MountsValid, MountAt

\* One backend at most serves a path.
LEMMA OneServes ==
    ASSUME MountInv
    PROVE  ServedByOne
<1> SUFFICES ASSUME NEW p \in Paths, NEW i \in Servers(p), NEW j \in Servers(p)
             PROVE  i = j
  BY DEF ServedByOne
<1>1. /\ i \in DOMAIN entries /\ Serves(MountAt(i), p)
      /\ j \in DOMAIN entries /\ Serves(MountAt(j), p)
  BY DEF Servers
<1>2. MountAt(i) = MountAt(j) \/ Overlap(MountAt(i), MountAt(j))
  BY <1>1, MountType, SharedPathOverlaps
<1>3. QED
  BY <1>1, <1>2 DEF MountInv, MountsApart

\* Where one backend serves a path, resolve_path finds it.
LEMMA ResolutionIsServer ==
    ASSUME MountInv, NEW p \in Paths, NEW i \in Servers(p)
    PROVE  Resolution(p) = entries[i].backend
<1> DEFINE best(k) == \A j \in Servers(p) :
                         \/ Len(MountAt(j)) < Len(MountAt(k))
                         \/ Len(MountAt(j)) = Len(MountAt(k)) /\ k <= j
<1>1. i \in Nat /\ \A j \in Servers(p) : j = i
  BY OneServes DEF ServedByOne, Servers, MountInv, TypeOK
<1>2. best(i)
  BY <1>1
<1>3. (CHOOSE k \in Servers(p) : best(k)) = i
  <2> HIDE DEF best
  <2> QED BY <1>1, <1>2
<1>4. QED
  BY <1>3 DEF Resolution

\* A resolved path is served by the backend it resolves to.
LEMMA ResolvedIsServed ==
    ASSUME MountInv, NEW p \in Paths, Resolution(p) # NoObject
    PROVE  \E i \in Servers(p) : Resolution(p) = entries[i].backend
<1>1. PICK i \in Servers(p) : TRUE
  BY DEF Resolution
<1>2. QED
  BY <1>1, ResolutionIsServer

\* What a command is given is the pointer of a registered backend.
LEMMA ResolutionIsRegistered ==
    ASSUME MountInv, NEW p \in Paths, Resolution(p) # NoObject
    PROVE  Resolution(p) \in Registered
  BY ResolvedIsServed DEF Servers, Registered

-----------------------------------------------------------------------------
(***************************************************************************)
(* Mount points stay apart.                                                *)
(***************************************************************************)
LEMMA MountInit == Init => MountInv
<1> SUFFICES ASSUME Init PROVE MountInv
  OBVIOUS
<1>1. entries = <<>> /\ <<>> \in Seq(Entry) /\ DOMAIN entries = {}
  BY DEF Init
<1>2. QED
  BY <1>1 DEF Init, MountInv, TypeOK, MountsValid, MountsApart

\* A step that leaves the registry alone keeps its mount points apart.
LEMMA EntriesKept ==
    ASSUME MountInv, TypeOK', UNCHANGED entries
    PROVE  MountInv'
  BY DEF MountInv, MountsValid, MountsApart, MountAt

\* register_backend compares the new mount point with every registered one.
LEMMA RegisterKeepsApart ==
    ASSUME MountInv, NEW t \in Tasks, NEW owns \in BOOLEAN,
           Register(t, owns), hand[t] \in Objects
    PROVE  MountInv'
<1> DEFINE e == [backend |-> hand[t], owns |-> owns]
<1>1. e \in Entry /\ entries \in Seq(Entry)
  BY DEF Entry, MountInv, TypeOK
<1>2. PICK n \in Nat : n = Len(entries) + 1
  BY <1>1
<1>3. /\ entries' = Append(entries, e)
      /\ n <= MaxBackends
      /\ Len(entries') = n
      /\ entries' \in Seq(Entry)
      /\ DOMAIN entries' = DOMAIN entries \cup {n}
      /\ n \notin DOMAIN entries
  BY <1>1, <1>2 DEF Register, Accepts
<1>4. entries'[n] = e /\ \A i \in DOMAIN entries : entries'[i] = entries[i]
  BY <1>1, <1>2, <1>3
<1>5. TypeOK'
  BY <1>3 DEF Register, Goto, MountInv, TypeOK
<1>6. /\ \A i \in DOMAIN entries : MountAt(i)' = MountAt(i)
      /\ MountAt(n)' = MountOf[hand[t]]
  BY <1>4 DEF MountAt
<1>7. /\ MountOf[hand[t]] # Malformed
      /\ \A i \in DOMAIN entries :
            /\ MountAt(i) # MountOf[hand[t]]
            /\ ~Overlap(MountAt(i), MountOf[hand[t]])
            /\ ~Overlap(MountOf[hand[t]], MountAt(i))
  BY DEF Register, Accepts, Overlap
<1>8. MountsValid'
  BY <1>3, <1>6, <1>7 DEF MountInv, MountsValid
<1>9. MountsApart'
  BY <1>3, <1>6, <1>7 DEF MountInv, MountsApart
<1>10. QED
  BY <1>5, <1>8, <1>9 DEF MountInv

\* What unregister_backend leaves is a part of what was registered.
LEMMA RemovedEntries ==
    ASSUME TypeOK, NEW k \in DOMAIN entries
    PROVE  /\ Removed(k) \in Seq(Entry)
           /\ Len(Removed(k)) = Len(entries) - 1
           /\ DOMAIN Removed(k) = 1 .. Len(entries) - 1
           /\ \A i \in DOMAIN Removed(k) :
                 LET j == IF i < k THEN i ELSE i + 1
                 IN  j \in DOMAIN entries /\ j # k /\ Removed(k)[i] = entries[j]
<1>1. /\ Len(entries) \in Nat
      /\ DOMAIN entries = 1 .. Len(entries)
      /\ Len(entries) - 1 \in Nat
  BY DEF TypeOK
<1>2. \A i \in 1 .. Len(entries) - 1 :
         LET j == IF i < k THEN i ELSE i + 1
         IN  j \in DOMAIN entries /\ j # k /\ Removed(k)[i] = entries[j]
  BY <1>1 DEF Removed
<1>3. Removed(k) \in [1 .. Len(entries) - 1 -> Entry]
  BY <1>1, EntryType DEF Removed
<1>4. QED
  BY ZenonT(60), <1>1, <1>2, <1>3, FunctionIsSeq

LEMMA UnregisterKeepsApart ==
    ASSUME MountInv, NEW t \in Tasks, NEW k \in DOMAIN entries,
           entries' = Removed(k), TypeOK'
    PROVE  MountInv'
<1> DEFINE from(i) == IF i < k THEN i ELSE i + 1
<1>1. DOMAIN entries' \subseteq Int /\ k \in Int
  BY RemovedEntries DEF MountInv, TypeOK
<1>2. \A i \in DOMAIN entries' :
         from(i) \in DOMAIN entries /\ MountAt(i)' = MountAt(from(i))
  BY SMTT(30), RemovedEntries DEF MountInv, MountAt
<1>3. \A i, j \in DOMAIN entries' : i # j => from(i) # from(j)
  BY <1>1
<1>4. MountsValid' /\ MountsApart'
  <2> HIDE DEF from
  <2> QED BY <1>2, <1>3 DEF MountInv, MountsValid, MountsApart
<1>5. QED
  BY <1>4 DEF MountInv

-----------------------------------------------------------------------------
(***************************************************************************)
(* The steps of a task.                                                    *)
(***************************************************************************)

\* A task that does not change the registry goes on with a registered backend
\* or with none, and reads no further than the list it counted.
LEMMA QuietStep ==
    ASSUME IInv, UNCHANGED entries, NEW t \in Tasks,
           heap' \in [Objects -> {"unmade", "alive", "deleted"}],
           index' \in [Tasks -> Nat], count' \in [Tasks -> Nat],
           NEW b \in Objects \cup {NoObject}, Takes(t, b),
           NEW l \in {"idle", "use", "second", "list", "list_use"}, Goto(t, l)
    PROVE  IInv'
<1>1. TypeOK'
  BY DEF IInv, MountInv, TypeOK, Takes, Goto
<1>2. RegistersObject'
  BY DEF IInv, MountInv, TypeOK, RegistersObject, Takes, Goto
<1>3. QED
  BY <1>1, <1>2, EntriesKept DEF IInv

LEMMA NewKeeps ==
    ASSUME IInv, NEW t \in Tasks, NEW b \in Objects, New(t, b)
    PROVE  IInv'
<1>1. TypeOK'
  BY DEF IInv, MountInv, TypeOK, New, Takes, Goto
<1>2. RegistersObject'
  BY DEF IInv, MountInv, TypeOK, RegistersObject, New, Takes, Goto
<1>3. QED
  BY <1>1, <1>2, EntriesKept DEF IInv, New

LEMMA RegisterKeeps ==
    ASSUME IInv, NEW t \in Tasks, NEW owns \in BOOLEAN, Register(t, owns)
    PROVE  IInv'
<1>1. MountInv'
  BY RegisterKeepsApart DEF IInv, RegistersObject, Register
<1>2. RegistersObject'
  BY DEF IInv, MountInv, TypeOK, RegistersObject, Register, Goto
<1>3. QED
  BY <1>1, <1>2 DEF IInv

LEMMA UnregisterKeeps ==
    ASSUME IInv, NEW t \in Tasks, NEW k \in Nat, Unregister(t, k)
    PROVE  IInv'
<1>1. k \in DOMAIN entries /\ entries' = Removed(k)
  BY DEF Unregister
<1>2. TypeOK'
  <2>1. entries' \in Seq(Entry) /\ Len(entries') <= MaxBackends
    BY <1>1, RemovedEntries DEF IInv, MountInv, TypeOK
  <2>2. QED
    BY <2>1 DEF IInv, MountInv, TypeOK, Unregister, taskVars
<1>3. QED
  BY <1>1, <1>2, UnregisterKeepsApart
     DEF IInv, RegistersObject, Unregister, taskVars

LEMMA ResetKeeps ==
    ASSUME IInv, NEW t \in Tasks, Reset(t)
    PROVE  IInv'
<1>1. entries' = <<>> /\ <<>> \in Seq(Entry) /\ DOMAIN <<>> = {} /\ Len(<<>>) = 0
  BY DEF Reset
<1>2. TypeOK'
  BY <1>1 DEF IInv, MountInv, TypeOK, Reset, taskVars
<1>3. QED
  BY <1>1, <1>2
     DEF IInv, MountInv, MountsValid, MountsApart, RegistersObject, Reset, taskVars

\* A list entry that is still there when its turn comes.
LEMMA ListNextKeeps ==
    ASSUME IInv, NEW t \in Tasks, ListNext(t)
    PROVE  IInv'
<1>1. index' \in [Tasks -> Nat] /\ count' \in [Tasks -> Nat]
  BY DEF IInv, MountInv, TypeOK, ListNext
<1>2. CASE index[t] \in DOMAIN entries /\ Goto(t, "list_use")
           /\ Takes(t, entries[index[t]].backend)
  BY <1>1, <1>2, EntryType, QuietStep DEF IInv, MountInv, TypeOK, ListNext
<1>3. CASE UNCHANGED <<pc, hand>>
  <2>1. TypeOK'
    BY <1>1, <1>3 DEF IInv, MountInv, TypeOK, ListNext
  <2>2. QED
    BY <2>1, <1>3, EntriesKept DEF IInv, RegistersObject, ListNext
<1>4. QED
  BY <1>2, <1>3 DEF ListNext

\* One case per operation.
LEMMA NextKeeps == IInv /\ [Next]_vars => IInv'
<1> SUFFICES ASSUME IInv, [Next]_vars PROVE IInv'
  OBVIOUS
<1>0. TypeOK /\ MountInv
  BY DEF IInv, MountInv
<1>1. CASE UNCHANGED vars
  BY <1>1, EntriesKept
     DEF IInv, MountInv, TypeOK, RegistersObject, vars, taskVars
<1>2. ASSUME NEW t \in Tasks, Step(t) PROVE IInv'
  <2>1. ASSUME NEW b \in Objects, New(t, b) PROVE IInv'
    BY <2>1, NewKeeps
  <2>2. ASSUME NEW owns \in BOOLEAN, Register(t, owns) PROVE IInv'
    BY <2>2, RegisterKeeps
  <2>3. CASE RegisterRefused(t)
    BY <2>3, <1>0, QuietStep DEF RegisterRefused, LetsGo, TypeOK
  <2>4. ASSUME NEW k \in 1 .. MaxBackends, Unregister(t, k) PROVE IInv'
    BY <2>4, UnregisterKeeps
  <2>5. ASSUME NEW k \in 1 .. MaxBackends, GetByMount(t, k) PROVE IInv'
    BY <2>5, <1>0, EntryType, QuietStep DEF GetByMount, TypeOK
  <2>6. CASE Reset(t)
    BY <2>6, ResetKeeps
  <2>7. ASSUME NEW p \in Paths, Resolve(t, p) \/ ResolveOld(t, p) PROVE IInv'
    <3>1. Resolution(p) \in Objects
      BY <2>7, <1>0, ResolutionIsRegistered, EntryType
         DEF Resolve, ResolveOld, Registered
    <3>2. QED
      BY <2>7, <3>1, <1>0, QuietStep DEF Resolve, ResolveOld, TypeOK
  <2>8. ASSUME NEW p \in Paths, ResolveNew(t, p) PROVE IInv'
    <3>1. CASE Goto(t, "use") /\ UNCHANGED hand
      <4>1. hand[t] \in Objects \cup {NoObject} /\ Takes(t, hand[t])
        BY <3>1, <1>0 DEF Takes, TypeOK
      <4>2. QED
        BY <2>8, <3>1, <4>1, <1>0, QuietStep DEF ResolveNew, TypeOK
    <3>2. CASE LetsGo(t, "idle")
      BY <2>8, <3>2, <1>0, QuietStep DEF ResolveNew, LetsGo, TypeOK
    <3>3. QED
      BY <2>8, <3>1, <3>2 DEF ResolveNew
  <2>9. CASE Use(t)
    BY <2>9, <1>0, QuietStep DEF Use, LetsGo, TypeOK
  <2>10. CASE ListStart(t)
    <3>1. Takes(t, hand[t]) /\ hand[t] \in Objects \cup {NoObject}
      BY <2>10, <1>0 DEF ListStart, Takes, TypeOK
    <3>2. index' \in [Tasks -> Nat] /\ count' \in [Tasks -> Nat]
      BY <2>10, <1>0 DEF ListStart, TypeOK
    <3>3. QED
      BY <2>10, <3>1, <3>2, <1>0, QuietStep DEF ListStart, TypeOK
  <2>11. CASE ListNext(t)
    BY <2>11, ListNextKeeps
  <2>12. CASE ListUse(t)
    BY <2>12, <1>0, QuietStep DEF ListUse, LetsGo, TypeOK
  <2>13. CASE ListEnd(t)
    <3>1. Takes(t, hand[t]) /\ hand[t] \in Objects \cup {NoObject}
      BY <2>13, <1>0 DEF ListEnd, Takes, TypeOK
    <3>2. index' \in [Tasks -> Nat] /\ count' \in [Tasks -> Nat]
      BY <2>13, <1>0 DEF ListEnd, TypeOK
    <3>3. QED
      BY <2>13, <3>1, <3>2, <1>0, QuietStep DEF ListEnd, TypeOK
  <2>14. QED
    BY <1>2, <2>1, <2>2, <2>3, <2>4, <2>5, <2>6, <2>7, <2>8, <2>9, <2>10,
       <2>11, <2>12, <2>13 DEF Step
<1>3. QED
  BY <1>1, <1>2 DEF Next

-----------------------------------------------------------------------------
(***************************************************************************)
(* Pointers.                                                               *)
(***************************************************************************)
\* A task that takes a registered backend, or none, reaches no deleted object.
LEMMA QuietPointers ==
    ASSUME PointerInv, UNCHANGED <<entries, heap>>, NEW t \in Tasks,
           NEW b \in Registered \cup {NoObject, hand[t]}, Takes(t, b),
           NEW l \in {"idle", "use", "second", "list", "list_use"}, Goto(t, l)
    PROVE  NoUseAfterDelete' /\ NewIsPrivate'
<1>1. pc \in [Tasks -> {"idle", "register", "use", "second", "list", "list_use"}]
      /\ hand \in [Tasks -> Objects \cup {NoObject}]
  BY DEF PointerInv, IInv, MountInv, TypeOK
<1>2. Registered' = Registered
  BY DEF Registered
<1>3. NoUseAfterDelete'
  BY <1>1, <1>2 DEF PointerInv, NoUseAfterDelete, Takes
<1>4. ASSUME NEW u \in Tasks, pc'[u] = "register"
      PROVE  hand'[u] \notin Registered
             /\ \A v \in Tasks \ {u} : hand'[v] # hand'[u]
  <2>1. u # t /\ pc[u] = "register" /\ hand'[u] = hand[u]
    BY <1>1, <1>4 DEF Takes, Goto
  <2>2. hand[u] \in Objects /\ hand[u] \notin Registered
        /\ \A v \in Tasks \ {u} : hand[v] # hand[u]
    BY <2>1 DEF PointerInv, IInv, RegistersObject, NewIsPrivate
  <2>3. b # hand[u]
    BY <2>1, <2>2
  <2>4. QED
    BY <1>1, <2>1, <2>2, <2>3 DEF Takes
<1>5. QED
  BY <1>2, <1>3, <1>4 DEF NewIsPrivate

\* Only an object that nobody knows yet is made.
LEMMA NewPointers ==
    ASSUME PointerInv, NEW t \in Tasks, NEW b \in Objects, New(t, b)
    PROVE  NoUseAfterDelete' /\ NewIsPrivate'
<1>1. TypeOK
  BY DEF PointerInv, IInv, MountInv
<1>2. Registered' = Registered
  BY DEF Registered, New
<1>3. b \notin Registered /\ \A u \in Tasks : hand[u] # b
  BY DEF PointerInv, NoUseAfterDelete, New
<1>4. Registered \subseteq Objects
  BY <1>1, EntryType DEF Registered
<1>5. NoUseAfterDelete'
  BY <1>1, <1>2, <1>3, <1>4 DEF PointerInv, NoUseAfterDelete, New, Takes, TypeOK
<1>6. NewIsPrivate'
  BY <1>1, <1>2, <1>3 DEF PointerInv, NewIsPrivate, New, Takes, Goto, TypeOK
<1>7. QED
  BY <1>5, <1>6

LEMMA RegisterPointers ==
    ASSUME PointerInv, NEW t \in Tasks, NEW owns \in BOOLEAN, Register(t, owns)
    PROVE  NoUseAfterDelete' /\ NewIsPrivate'
<1>1. TypeOK /\ hand[t] \in Objects
  BY DEF PointerInv, IInv, MountInv, RegistersObject, Register
<1>2. Registered' \subseteq Registered \cup {hand[t]}
  <2> DEFINE e == [backend |-> hand[t], owns |-> owns]
  <2>1. e \in Entry /\ e.backend = hand[t] /\ entries \in Seq(Entry)
    BY <1>1 DEF Entry, TypeOK
  <2>2. \A i \in DOMAIN entries' :
           entries'[i] = e \/ (i \in DOMAIN entries /\ entries'[i] = entries[i])
    BY <2>1 DEF Register
  <2>3. QED
    BY <2>1, <2>2 DEF Registered
<1>3. NoUseAfterDelete'
  BY <1>1, <1>2 DEF PointerInv, NoUseAfterDelete, Register
<1>4. NewIsPrivate'
  BY <1>1, <1>2 DEF PointerInv, NewIsPrivate, Register, Goto, TypeOK
<1>5. QED
  BY <1>3, <1>4

\* The object that a refused maker deletes is known to nobody else.
LEMMA RefusedPointers ==
    ASSUME PointerInv, NEW t \in Tasks, RegisterRefused(t)
    PROVE  NoUseAfterDelete' /\ NewIsPrivate'
<1>1. TypeOK /\ hand[t] \in Objects /\ hand[t] \notin Registered
      /\ \A u \in Tasks \ {t} : hand[u] # hand[t]
  BY DEF PointerInv, IInv, MountInv, RegistersObject, NewIsPrivate, RegisterRefused
<1>2. Registered' = Registered /\ Registered \subseteq Objects
  BY <1>1, EntryType DEF Registered, RegisterRefused
<1>3. NoUseAfterDelete'
  BY <1>1, <1>2
     DEF PointerInv, NoUseAfterDelete, RegisterRefused, LetsGo, Takes, TypeOK
<1>4. NewIsPrivate'
  <2>1. ASSUME NEW u \in Tasks, pc'[u] = "register"
        PROVE  u # t /\ pc[u] = "register" /\ hand'[u] = hand[u]
    BY <1>1, <2>1 DEF RegisterRefused, LetsGo, Takes, Goto, TypeOK
  <2>2. hand' = [hand EXCEPT ![t] = NoObject]
    BY DEF RegisterRefused, LetsGo, Takes
  <2>3. QED
    BY <1>1, <1>2, <2>1, <2>2
       DEF PointerInv, IInv, RegistersObject, NewIsPrivate, TypeOK
<1>5. QED
  BY <1>3, <1>4

\* Entries hold different objects, since their mount points differ: what is
\* removed from the registry is gone from it.
LEMMA RemovedPointer ==
    ASSUME MountInv, NEW k \in DOMAIN entries, entries' = Removed(k)
    PROVE  Registered' \subseteq Registered \ {entries[k].backend}
<1>1. \A j \in DOMAIN entries :
         j # k => entries[j].backend # entries[k].backend
  BY DEF MountInv, MountsApart, MountAt
<1>2. \A i \in DOMAIN entries' : \E j \in DOMAIN entries :
         j # k /\ entries'[i] = entries[j]
  BY SMTT(30), RemovedEntries DEF MountInv
<1>3. QED
  BY <1>1, <1>2 DEF Registered

\* With its users gone, an unregistered backend can be deleted.
LEMMA UnregisterPointers ==
    ASSUME ContractKept = TRUE, PointerInv, NEW t \in Tasks, NEW k \in Nat,
           Unregister(t, k)
    PROVE  NoUseAfterDelete' /\ NewIsPrivate'
<1>1. MountInv /\ TypeOK /\ k \in DOMAIN entries
  BY DEF PointerInv, IInv, MountInv, Unregister
<1>2. Registered' \subseteq Registered \ {entries[k].backend}
  BY <1>1, RemovedPointer DEF Unregister
<1>3. Registered \subseteq Objects
  BY <1>1, EntryType DEF Registered
<1>4. \A u \in Tasks : hand[u] # entries[k].backend
  BY DEF Unregister, Unused
<1>5. NoUseAfterDelete'
  BY <1>1, <1>2, <1>3, <1>4
     DEF PointerInv, NoUseAfterDelete, Unregister, taskVars, TypeOK
<1>6. NewIsPrivate'
  BY <1>2 DEF PointerInv, NewIsPrivate, Unregister, taskVars
<1>7. QED
  BY <1>5, <1>6

LEMMA ResetPointers ==
    ASSUME ContractKept = TRUE, PointerInv, NEW t \in Tasks, Reset(t)
    PROVE  NoUseAfterDelete' /\ NewIsPrivate'
<1>1. TypeOK
  BY DEF PointerInv, IInv, MountInv
<1>2. Registered' = {}
  BY DEF Registered, Reset
<1>3. Owned \subseteq Registered /\ \A u \in Tasks : hand[u] \notin Registered
  BY DEF Owned, Registered, Reset, Unused
<1>4. NoUseAfterDelete'
  BY <1>1, <1>2, <1>3 DEF PointerInv, NoUseAfterDelete, Reset, taskVars, TypeOK
<1>5. NewIsPrivate'
  BY <1>2 DEF PointerInv, NewIsPrivate, Reset, taskVars
<1>6. QED
  BY <1>4, <1>5

LEMMA PointersKeep ==
    ASSUME ContractKept = TRUE, PointerInv, [Next]_vars
    PROVE  PointerInv'
<1>1. IInv'
  BY NextKeeps DEF PointerInv
<1>2. MountInv /\ TypeOK
  BY DEF PointerInv, IInv, MountInv
<1>3. CASE UNCHANGED vars
  BY <1>1, <1>3
     DEF PointerInv, NoUseAfterDelete, NewIsPrivate, Registered, vars, taskVars
<1>4. ASSUME NEW t \in Tasks, Step(t)
      PROVE  NoUseAfterDelete' /\ NewIsPrivate'
  <2> DEFINE Kept == NoUseAfterDelete' /\ NewIsPrivate'
  <2>1. ASSUME NEW b \in Objects, New(t, b) PROVE Kept
    BY <2>1, NewPointers
  <2>2. ASSUME NEW owns \in BOOLEAN, Register(t, owns) PROVE Kept
    BY <2>2, RegisterPointers
  <2>3. CASE RegisterRefused(t)
    BY <2>3, RefusedPointers
  <2>4. ASSUME NEW k \in 1 .. MaxBackends, Unregister(t, k) PROVE Kept
    BY <2>4, UnregisterPointers
  <2>5. ASSUME NEW k \in 1 .. MaxBackends, GetByMount(t, k) PROVE Kept
    <3>1. entries[k].backend \in Registered
      BY <2>5 DEF GetByMount, Registered
    <3>2. QED
      BY <2>5, <3>1, QuietPointers DEF GetByMount
  <2>6. CASE Reset(t)
    BY <2>6, ResetPointers
  <2>7. ASSUME NEW p \in Paths, Resolve(t, p) \/ ResolveOld(t, p) PROVE Kept
    BY <2>7, <1>2, ResolutionIsRegistered, QuietPointers DEF Resolve, ResolveOld
  <2>8. ASSUME NEW p \in Paths, ResolveNew(t, p) PROVE Kept
    <3>1. CASE Goto(t, "use") /\ UNCHANGED hand
      <4>1. Takes(t, hand[t])
        BY <3>1, <1>2 DEF Takes, TypeOK
      <4>2. QED
        BY <2>8, <3>1, <4>1, QuietPointers DEF ResolveNew
    <3>2. CASE LetsGo(t, "idle")
      BY <2>8, <3>2, QuietPointers DEF ResolveNew, LetsGo
    <3>3. QED
      BY <2>8, <3>1, <3>2 DEF ResolveNew
  <2>9. CASE Use(t)
    BY <2>9, QuietPointers DEF Use, LetsGo
  <2>10. CASE ListStart(t) \/ ListEnd(t)
    <3>1. Takes(t, hand[t])
      BY <2>10, <1>2 DEF ListStart, ListEnd, Takes, TypeOK
    <3>2. QED
      BY <2>10, <3>1, QuietPointers DEF ListStart, ListEnd
  <2>11. CASE ListNext(t)
    <3>1. CASE UNCHANGED <<pc, hand>>
      BY <2>11, <3>1
         DEF ListNext, PointerInv, NoUseAfterDelete, NewIsPrivate, Registered
    <3>2. CASE index[t] \in DOMAIN entries /\ Goto(t, "list_use")
               /\ Takes(t, entries[index[t]].backend)
      <4>1. entries[index[t]].backend \in Registered
        BY <3>2 DEF Registered
      <4>2. QED
        BY <2>11, <3>2, <4>1, QuietPointers DEF ListNext
    <3>3. QED
      BY <2>11, <3>1, <3>2 DEF ListNext
  <2>12. CASE ListUse(t)
    BY <2>12, QuietPointers DEF ListUse, LetsGo
  <2>13. QED
    BY <1>4, <2>1, <2>2, <2>3, <2>4, <2>5, <2>6, <2>7, <2>8, <2>9, <2>10,
       <2>11, <2>12 DEF Step
<1>5. QED
  BY <1>1, <1>3, <1>4 DEF Next, PointerInv

-----------------------------------------------------------------------------
(***************************************************************************)
(* Theorems.                                                               *)
(***************************************************************************)
LEMMA InitEstablishes == Init => PointerInv
<1> SUFFICES ASSUME Init PROVE PointerInv
  OBVIOUS
<1>1. MountInv
  BY MountInit
<1>2. Registered = {} /\ \A t \in Tasks : hand[t] = NoObject /\ pc[t] = "idle"
  BY DEF Init, Registered
<1>3. QED
  BY <1>1, <1>2 DEF PointerInv, IInv, RegistersObject, NoUseAfterDelete, NewIsPrivate

LEMMA Invariance == Spec => []IInv
<1>1. Init => IInv
  BY InitEstablishes DEF PointerInv
<1>2. QED
  BY <1>1, NextKeeps, PTL DEF Spec

\* The registry never holds more backends than it has room for, nor does a task
\* hold anything but an object or null.
THEOREM TypeCorrect == Spec => []TypeOK
<1>1. IInv => TypeOK
  BY DEF IInv, MountInv
<1>2. QED
  BY <1>1, Invariance, PTL

\* However backends come and go, one at most serves a path: the checks of
\* register_backend (storage_registry.cpp, lines 64 to 99) are enough for
\* resolve_path to need no order among the entries.
THEOREM OneServer == Spec => []ServedByOne
<1>1. IInv => ServedByOne
  BY OneServes DEF IInv
<1>2. QED
  BY <1>1, Invariance, PTL

\* A path stays with the backend that serves it while that one is registered:
\* neither a registration beside it nor the shift of the entries that
\* unregister_backend makes (lines 149 to 156) moves the path to another.
THEOREM NeverTakenOver == Spec => NeverHijacked
<1> DEFINE Found == \A p \in Paths : \A i \in Servers(p) :
                       Resolution(p) = entries[i].backend
<1>1. MountInv => Found
  BY ResolutionIsServer
<1>2. MountInv' => Found'
  BY <1>1, PTL
<1>3. IInv /\ IInv' /\ [Next]_vars =>
        [\A p \in Paths :
            Resolution(p) \in Registered' => Resolution(p)' = Resolution(p)]_vars
  <2> SUFFICES ASSUME IInv, IInv', NEW p \in Paths, Resolution(p) \in Registered'
               PROVE  Resolution(p)' = Resolution(p)
    OBVIOUS
  <2>1. MountInv /\ MountInv'
    BY DEF IInv
  <2>2. PICK j \in DOMAIN entries' : entries'[j].backend = Resolution(p)
    BY DEF Registered
  <2>3. Resolution(p) # NoObject
    <3>1. TypeOK'
      BY <2>1 DEF MountInv
    <3>2. entries'[j] \in Entry
      BY <3>1, <2>2, LenProperties DEF TypeOK
    <3>3. QED
      BY <3>2, <2>2 DEF Entry
  <2>4. PICK i \in Servers(p) : Resolution(p) = entries[i].backend
    BY <2>1, <2>3, ResolvedIsServed
  <2>5. j \in Servers(p)'
    BY <2>2, <2>4 DEF Servers, MountAt
  <2>6. Resolution(p)' = entries'[j].backend
    BY <2>1, <2>5, <1>2
  <2>7. QED
    BY <2>2, <2>6
<1>4. QED
  BY <1>3, Invariance, PTL DEF Spec, NeverHijacked

\* If callers keep the contract of unregister_backend, no command calls through
\* a pointer to a deleted backend and none is deleted twice.
THEOREM PointersAlive ==
    ASSUME ContractKept = TRUE
    PROVE  Spec => []NoUseAfterDelete
<1>1. PointerInv /\ [Next]_vars => PointerInv'
  BY PointersKeep
<1>2. PointerInv => NoUseAfterDelete
  BY DEF PointerInv
<1>3. QED
  BY <1>1, <1>2, InitEstablishes, PTL DEF Spec

=============================================================================
