--------------------------- MODULE BackendContract ---------------------------
(***************************************************************************)
(* What a storage backend promises its callers: the interface              *)
(* src/src/internal/storage_backend.h, read with what its four             *)
(* implementations do where its comments and they differ.                  *)
(*                                                                         *)
(* A call starts at one moment; until it returns it may change only the    *)
(* places its arguments name, and only the three calls about the mount     *)
(* change whether the volume is mounted.  What it answers speaks of the    *)
(* volume as it was when the call started.                                 *)
(***************************************************************************)
EXTENDS Sequences, SequencesExt

CONSTANTS
    Tasks,          \* the tasks that call the backend
    Calls,          \* the calls: an operation and the paths it is given
    Places,         \* every path of the volume but its root
    Partials,       \* those of them that end in ".upload"
    Contents,       \* what a place may hold
    Absent,         \* a place that holds nothing
    Directory,      \* a place that holds a directory
    NoCall,         \* a task that is in no call
    NotStarted      \* what a call has seen of the volume before it starts

VARIABLES
    store,          \* what each place holds
    mounted,        \* whether the volume is mounted
    call,           \* the call each task is in
    result,         \* what the last one answered: none, running, ok, failed
    seen,           \* the volume as it was when the call started
    formats,        \* a mount that fails formats the volume
    lost            \* a stream lost data and no return value was looked at

vars == <<store, mounted, call, result, seen, formats, lost>>

Below(p) == {q \in Places : IsPrefix(p, q)}

MountCalls == {"mount", "unmount", "format"}

\* What a rename of p moves: a file, or a directory with all that is in it.
Tree(p, before) == {q \in Below(p) : q = p \/ before[p] = Directory}

\* The places a call may change.
Scope(c) ==
    CASE c.op = "copy"                   -> {c.to}
      [] c.op = "rename"                 -> Below(c.path) \cup Below(c.to)
      [] c.op \in {"delete", "mkdir"}    -> {c.path}
      [] c.op = "recursive"              -> Below(c.path)
      [] c.op = "mount"                  -> IF formats THEN Places ELSE Partials
      [] c.op = "format"                 -> Places
      [] OTHER                           -> {}

\* The calls that put something where nothing was.
MakingCalls == {"copy", "rename", "mkdir"}

\* q, of the tree at p, in the tree at its new name.
Renamed(q, p, new) == new \o SubSeq(q, Len(p) + 1, Len(q))

\* What ESP_OK says.  A copy onto itself is left out: it empties the file.
\* create_directory answers ESP_OK for a name that a file has (flash).
Done(c, before) ==
    CASE c.op = "copy"      -> c.path # c.to /\ ~lost =>
                                 c.to \in Places /\ store[c.to] = before[c.path]
      [] c.op = "rename"    -> c.path # c.to =>
                                 \A q \in Tree(c.path, before) :
                                    /\ store[q] = Absent
                                    /\ before[q] # Absent =>
                                         LET new == Renamed(q, c.path, c.to)
                                         IN new \in Places /\ store[new] = before[q]
      [] c.op = "delete"    -> c.path \in Places /\ store[c.path] = Absent
      [] c.op = "recursive" -> \A q \in Below(c.path) : store[q] = Absent
      [] c.op = "mkdir"     -> c.path \in Places => store[c.path] # Absent
      [] c.op = "format"    -> \A q \in Places : store[q] = Absent
      [] OTHER              -> TRUE

\* What an error says: no half a copy is left, nothing that was to move is gone.
NotDone(c, before) ==
    CASE c.op = "copy"   -> c.path # c.to /\ c.to \in Places /\ ~lost =>
                                store[c.to] \in {before[c.to], Absent}
      [] c.op = "rename" -> c.path # c.to /\ c.path \in Places =>
                                store[c.path] = before[c.path]
      [] OTHER           -> TRUE

-----------------------------------------------------------------------------
Init ==
    /\ store \in [Places -> Contents]
    /\ mounted \in BOOLEAN
    /\ call = [t \in Tasks |-> NoCall]
    /\ result = [t \in Tasks |-> "none"]
    /\ seen = [t \in Tasks |-> NotStarted]
    /\ formats \in BOOLEAN
    /\ lost = FALSE

Begin(t) ==
    /\ result[t] # "running"
    /\ result' = [result EXCEPT ![t] = "running"]
    /\ \E c \in Calls : call' = [call EXCEPT ![t] = c]
    /\ UNCHANGED <<store, mounted, seen, formats, lost>>

Start(t) ==
    /\ result[t] = "running" /\ seen[t] = NotStarted
    /\ seen' = [seen EXCEPT ![t] = store]
    /\ UNCHANGED <<store, mounted, call, result, formats, lost>>

\* A step of the call.
Work(t) ==
    /\ result[t] = "running" /\ seen[t] # NotStarted
    /\ store' \in [Places -> Contents]
    /\ \A q \in Places \ Scope(call[t]) : store'[q] = store[q]
    /\ call[t].op \notin MakingCalls =>
         \A q \in Places : store'[q] \in {store[q], Absent}
    /\ mounted' \in BOOLEAN
    /\ call[t].op \notin MountCalls => mounted' = mounted
    /\ lost' \in {lost, TRUE}
    /\ UNCHANGED <<call, result, seen, formats>>

Return(t) ==
    /\ result[t] = "running" /\ seen[t] # NotStarted
    /\ \/ Done(call[t], seen[t]) /\ result' = [result EXCEPT ![t] = "ok"]
       \/ NotDone(call[t], seen[t]) /\ result' = [result EXCEPT ![t] = "failed"]
    /\ call' = [call EXCEPT ![t] = NoCall]
    /\ seen' = [seen EXCEPT ![t] = NotStarted]
    /\ UNCHANGED <<store, mounted, formats, lost>>

Next == \E t \in Tasks : Begin(t) \/ Start(t) \/ Work(t) \/ Return(t)

Spec == Init /\ [][Next]_vars
=============================================================================
