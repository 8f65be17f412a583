------------------------------ MODULE Backends ------------------------------
(***************************************************************************)
(* The storage backends: src/src/backends/storage_{sd_fat, littlefs,       *)
(* flash_fat, spiffs}.cpp, one of the four per behaviour.                  *)
(*                                                                         *)
(* A step is one call of the file system (fopen, fread with its fwrite,    *)
(* unlink, mkdir, rename, rmdir, register, format), or taking or giving    *)
(* the backend's mutex.  The flash backends hold it over a whole method;   *)
(* the SD backend takes it in mount and unmount alone, so on the card only *)
(* the RX task calls the other methods.  What the file systems do is       *)
(* modelled from how the backends use them.                                *)
(*                                                                         *)
(* A path is the sequence of its components, relative to the mount point,  *)
(* and the root is <<>>.                                                   *)
(***************************************************************************)
EXTENDS Naturals, Sequences, SequencesExt

CONSTANTS
    Rx,             \* the RX task
    Apps,           \* the application's tasks
    Nobody,         \* nobody holds the mutex
    Components,     \* what a path is a sequence of
    Places,         \* every path of the volume but its root
    Partials,       \* those of them that end in ".upload"
    Chunks,         \* what a file is a sequence of
    Volumes,        \* what the volume may hold at first
    MountName,      \* the one component of the flash backends' mount point
    Calls,          \* the calls the tasks make
    NotStarted,     \* what a call has seen of the volume before it starts
    Absent,         \* a place that holds nothing
    Directory,      \* a place that holds a directory
    Faults,         \* what may go wrong in the file system
    MaxCalls,       \* bound: calls in all
    MaxFaults       \* bound: faults in all

Tasks == Apps \cup {Rx}
Kinds == {"sd", "littlefs", "flashfat", "spiffs"}
Contents == Seq(Chunks) \cup {Absent, Directory}
FaultKinds == {"open", "write", "read", "close", "unlink", "rmdir", "rename",
               "mkdir", "mount", "unregister", "format"}

Operations == {"copy", "rename", "delete", "mkdir", "recursive", "read",
               "mount", "unmount", "format"}

Below(p) == {q \in Places : IsPrefix(p, q)}

ASSUME TaskAssumption == Rx \notin Apps /\ Nobody \notin Tasks
ASSUME PlaceAssumption ==
    /\ Places \subseteq Seq(Components) \ {<<>>} /\ Partials \subseteq Places
    /\ \A p \in Places : Len(p) > 1 => Front(p) \in Places
ASSUME CallAssumption ==
    Calls \subseteq [op : Operations, path : Seq(Components), to : Seq(Components)]
ASSUME VolumeAssumption ==
    /\ Volumes \subseteq [Places -> Contents]
    /\ \A v \in Volumes, p \in Places :
          Len(p) > 1 /\ v[p] # Absent => v[Front(p)] = Directory
    /\ {Absent, Directory} \cap Seq(Chunks) = {} /\ Absent # Directory
    /\ NotStarted \notin [Places -> Contents]
ASSUME BoundAssumption ==
    Faults \subseteq FaultKinds /\ MaxCalls \in Nat /\ MaxFaults \in Nat

VARIABLES
    kind,           \* which of the backends this is
    formats,        \* a mount that fails formats the volume
    volume,         \* what each place holds
    vfs,            \* the file system is registered
    mounted,        \* m_mounted
    lock,           \* who holds m_mutex
    pc,             \* where each task is
    call,           \* the call each task is in
    result,         \* what the last one answered: none, running, ok, failed
    work,           \* the method's variables
    seen,           \* history: the volume as the call found it
    lost,           \* history: a stream lost data and nobody looked
    calls,          \* how many calls there have been
    faults          \* how many faults there have been

medium == <<volume, vfs, mounted>>
control == <<lock, pc, call, result, work, seen>>
vars == <<kind, formats, medium, control, lost, calls, faults>>

Labels == {"idle", "enter", "copy", "copy_open", "copy_chunk", "copy_cleanup",
           "rename", "rename_move", "delete", "mkdir", "recursive", "remove_next",
           "read", "mount", "clean_up", "unmount", "format", "format_erase",
           "format_remount", "format_unmount", "format_mount", "leave"}

\* ok: the result so far; was: was_mounted; dirs: the directories that the
\* recursion is in, innermost first; passed: the entries readdir has returned.
NoCall == [op |-> "none", path |-> <<>>, to |-> <<>>]
Fresh == [ok |-> TRUE, was |-> FALSE, dirs |-> <<>>, passed |-> {}]

\* What is in a directory is in a directory that is there.
IsTree(v) ==
    \A p \in Places : Len(p) > 1 /\ v[p] # Absent => v[Front(p)] = Directory

Works == [ok : BOOLEAN, was : BOOLEAN, dirs : Seq(Places \cup {<<>>}), passed : SUBSET Places]

TypeOK ==
    /\ kind \in Kinds /\ formats \in BOOLEAN
    /\ volume \in [Places -> Contents]
    /\ kind # "spiffs" => IsTree(volume)
    /\ vfs \in BOOLEAN /\ mounted \in BOOLEAN /\ lost \in BOOLEAN
    /\ lock \in Tasks \cup {Nobody}
    /\ pc \in [Tasks -> Labels]
    /\ call \in [Tasks -> Calls \cup {NoCall}]
    /\ result \in [Tasks -> {"none", "running", "ok", "failed"}]
    /\ work \in [Tasks -> Works]
    /\ seen \in [Tasks -> [Places -> Contents] \cup {NotStarted}]
    /\ calls \in 0 .. MaxCalls /\ faults \in 0 .. MaxFaults

\* SPIFFS has no directories.  The card is never formatted by a mount, FlashFAT
\* always is, the other two when they were made so.
Init ==
    /\ kind \in Kinds
    /\ formats \in CASE kind = "sd" -> {FALSE} [] kind = "flashfat" -> {TRUE} [] OTHER -> BOOLEAN
    /\ volume \in Volumes
    /\ kind = "spiffs" => \A p \in Places : volume[p] # Directory /\ (Len(p) > 1 => volume[p] = Absent)
    /\ kind # "spiffs" => \E p \in Places : volume[p] = Directory
    /\ mounted \in BOOLEAN /\ vfs = mounted
    /\ lock = Nobody
    /\ pc = [t \in Tasks |-> "idle"]
    /\ call = [t \in Tasks |-> NoCall]
    /\ result = [t \in Tasks |-> "none"]
    /\ work = [t \in Tasks |-> Fresh]
    /\ seen = [t \in Tasks |-> NotStarted]
    /\ lost = FALSE /\ calls = 0 /\ faults = 0

-----------------------------------------------------------------------------
Flash == kind # "sd"

\* resolve_path: a flash backend takes a path that begins with its mount point
\* for an absolute one; build_full_path always puts the mount point in front.
Resolve(p) == IF Flash /\ p # <<>> /\ Head(p) = MountName THEN Tail(p) ELSE p

Path(t) == Resolve(call[t].path)
Target(t) == Resolve(call[t].to)

Holds(p) == IF p = <<>> THEN Directory ELSE IF p \in Places THEN volume[p] ELSE Absent
Exists(p) == Holds(p) # Absent
IsFile(p) == Exists(p) /\ Holds(p) # Directory
Entries(p) == {q \in Places : Len(q) = Len(p) + 1 /\ IsPrefix(p, q) /\ Exists(q)}
IsEmptyDirectory(p) == p # <<>> /\ Holds(p) = Directory /\ Entries(p) = {}

\* SPIFFS has one flat name space.
HasParent(p) == p \in Places /\ (kind = "spiffs" \/ Holds(Front(p)) = Directory)

With(p, content) == [volume EXCEPT ![p] = content]
Without(gone) == [q \in Places |-> IF q \in gone THEN Absent ELSE volume[q]]

\* The tree at p under its new name, in place of what had that name.  In a flat
\* name space it is p alone.
Moved(p, new) ==
    IF kind = "spiffs" THEN [volume EXCEPT ![p] = Absent, ![new] = volume[p]]
    ELSE [q \in Places |->
            IF IsPrefix(new, q) THEN Holds(p \o SubSeq(q, Len(new) + 1, Len(q)))
            ELSE IF IsPrefix(p, q) THEN Absent ELSE volume[q]]

-----------------------------------------------------------------------------
At(t, label) == pc[t] = label

Fault(f) == f \in Faults /\ faults < MaxFaults /\ faults' = faults + 1

\* The file system does what it should.
Sound == UNCHANGED faults

\* Task t goes on at label, with the volume v and its variables w.
Goto(t, label, v, w) ==
    /\ pc' = [pc EXCEPT ![t] = label]
    /\ volume' = v
    /\ work' = [work EXCEPT ![t] = w]
    /\ UNCHANGED <<kind, formats, call, result, seen, calls>>

Same == UNCHANGED <<vfs, mounted, lock, lost>>

\* The method's result is known.
Ends(t, ok, v) == Goto(t, "leave", v, [work[t] EXCEPT !.ok = ok])

\* One call of the file system that decides the method's result.
Decides(t, can, f, v) ==
    /\ \/ can /\ Sound /\ Ends(t, TRUE, v)
       \/ (Fault(f) \/ (~can /\ Sound)) /\ Ends(t, FALSE, volume)
    /\ Same

\* The methods SPIFFS refuses before it takes its mutex.
Unsupported(op) == kind = "spiffs" /\ op \in {"mkdir", "recursive"}

MountCalls == {"mount", "unmount"}

\* Mutant of Locks: create_directory forgets to take the mutex.
LocksNotMkdir(op) == ~Unsupported(op) /\ op # "mkdir" /\ (Flash \/ op \in MountCalls)

Locks(op) == ~Unsupported(op) /\ (Flash \/ op \in MountCalls)

\* On the card the other tasks only mount (mount_sd).
MayCall(t, op) == t = Rx \/ Flash \/ op = "mount"

Begin(t) ==
    /\ result[t] # "running" /\ calls < MaxCalls
    /\ \E c \in Calls :
          /\ MayCall(t, c.op)
          /\ call' = [call EXCEPT ![t] = c]
    /\ result' = [result EXCEPT ![t] = "running"]
    /\ pc' = [pc EXCEPT ![t] = "enter"]
    /\ calls' = calls + 1
    /\ UNCHANGED <<kind, formats, medium, lock, work, seen, lost, faults>>

\* The flash backends format a volume that is not mounted, the card does not.
NeedsMount(op) == op \notin MountCalls /\ (op = "format" => ~Flash)

\* The mutex, and the checks before the first call of the file system: a flash
\* backend gives its root back as a success of mkdir, the card does not.
Enter(t) ==
    LET op == call[t].op
        refused == Unsupported(op) \/ (NeedsMount(op) /\ ~mounted)
        root == call[t].path = <<>> /\ op \in {"mkdir", "recursive"}
    IN
    /\ At(t, "enter")
    /\ IF Locks(op) THEN lock = Nobody /\ lock' = t ELSE UNCHANGED lock
    /\ seen' = [seen EXCEPT ![t] = volume]
    /\ IF refused \/ root
       THEN /\ pc' = [pc EXCEPT ![t] = "leave"]
            /\ work' = [work EXCEPT ![t].ok = ~refused /\ op = "mkdir" /\ Flash]
       ELSE pc' = [pc EXCEPT ![t] = op] /\ UNCHANGED work
    /\ UNCHANGED <<kind, formats, medium, call, result, lost, calls, faults>>

Returns(t) ==
    /\ result' = [result EXCEPT ![t] = IF work[t].ok THEN "ok" ELSE "failed"]
    /\ pc' = [pc EXCEPT ![t] = "idle"]
    /\ call' = [call EXCEPT ![t] = NoCall]
    /\ work' = [work EXCEPT ![t] = Fresh]
    /\ seen' = [seen EXCEPT ![t] = NotStarted]
    /\ UNCHANGED <<kind, formats, medium, lost, calls, faults>>

\* Mutant of Leave: a failure returns without giving the mutex.
LeaveLocked(t) ==
    /\ At(t, "leave")
    /\ lock' = IF lock = t /\ work[t].ok THEN Nobody ELSE lock
    /\ Returns(t)

\* The method gives the mutex and returns.
Leave(t) ==
    /\ At(t, "leave")
    /\ lock' = IF lock = t THEN Nobody ELSE lock
    /\ Returns(t)

-----------------------------------------------------------------------------
(***************************************************************************)
(* copy_file.                                                              *)
(***************************************************************************)
CopyOpenSource(t) ==
    /\ At(t, "copy")
    /\ \/ IsFile(Path(t)) /\ Sound /\ Goto(t, "copy_open", volume, work[t])
       \/ (Fault("open") \/ (~IsFile(Path(t)) /\ Sound)) /\ Ends(t, FALSE, volume)
    /\ Same

\* fopen "wb" truncates what has the name, the source itself included.
CopyOpenDestination(t) ==
    LET to == Target(t)
        can == to # <<>> /\ HasParent(to) /\ Holds(to) # Directory
    IN
    /\ At(t, "copy_open")
    /\ \/ can /\ Sound /\ Goto(t, "copy_chunk", With(to, <<>>), work[t])
       \/ (Fault("open") \/ (~can /\ Sound)) /\ Ends(t, FALSE, volume)
    /\ Same

\* What is read and not yet written.
Remaining(t) == Len(volume[Path(t)]) - Len(volume[Target(t)])

CopyChunk(t) ==
    LET from == volume[Path(t)]
        done == volume[Target(t)]
    IN
    /\ At(t, "copy_chunk") /\ Remaining(t) > 0
    /\ \/ /\ Sound
          /\ Goto(t, "copy_chunk", With(Target(t), Append(done, from[Len(done) + 1])), work[t])
       \/ Fault("write") /\ Goto(t, "copy_cleanup", volume, work[t])
    /\ Same

\* fread fails: a flash backend asks ferror, the card takes it for the end.
CopyReadFails(t) ==
    /\ At(t, "copy_chunk") /\ Remaining(t) > 0
    /\ Fault("read")
    /\ IF Flash THEN Goto(t, "copy_cleanup", volume, work[t]) /\ UNCHANGED lost
                ELSE Ends(t, TRUE, volume) /\ lost' = TRUE
    /\ UNCHANGED <<vfs, mounted, lock>>

\* Nobody looks at what fclose returns.
CopyEnd(t) ==
    LET done == volume[Target(t)] IN
    /\ At(t, "copy_chunk") /\ Remaining(t) = 0
    /\ \/ Sound /\ Ends(t, TRUE, volume) /\ UNCHANGED lost
       \/ /\ Fault("close") /\ done # <<>>
          /\ Ends(t, TRUE, With(Target(t), Front(done)))
          /\ lost' = TRUE
    /\ UNCHANGED <<vfs, mounted, lock>>

\* Nor at what this unlink returns.
CopyCleanup(t) ==
    /\ At(t, "copy_cleanup")
    /\ \/ Sound /\ Ends(t, FALSE, With(Target(t), Absent)) /\ UNCHANGED lost
       \/ Fault("unlink") /\ Ends(t, FALSE, volume) /\ lost' = TRUE
    /\ UNCHANGED <<vfs, mounted, lock>>

-----------------------------------------------------------------------------
(***************************************************************************)
(* rename_file, delete_file, create_directory, and what only reads         *)
(* (hash_file, list_directory).                                            *)
(***************************************************************************)
\* unlink takes files; some file systems let it take an empty directory.
Unlinkable(p) == IsFile(p) \/ (IsEmptyDirectory(p) /\ kind = "sd")

\* The card unlinks what has the new name first, and waits 50 ms; whether the
\* unlink worked, nobody looks.
RenameClears(t) ==
    LET new == Target(t) IN
    /\ At(t, "rename") /\ ~Flash
    /\ \/ /\ Sound
          /\ Goto(t, "rename_move", IF Unlinkable(new) THEN Without({new}) ELSE volume, work[t])
       \/ Fault("unlink") /\ Unlinkable(new) /\ Goto(t, "rename_move", volume, work[t])
    /\ Same

\* LittleFS puts a file in the place of another; the others refuse.
Replaceable(p, new) ==
    \/ ~Exists(new) \/ p = new
    \/ kind = "littlefs" /\ IsFile(p) /\ IsFile(new)

RenameMoves(t) ==
    LET p == Path(t)
        new == Target(t)
    IN
    /\ At(t, IF Flash THEN "rename" ELSE "rename_move")
    /\ Decides(t, /\ p # <<>> /\ Exists(p)
                  /\ HasParent(new) /\ Replaceable(p, new)
                  /\ IsPrefix(p, new) => p = new,
               "rename", Moved(p, new))

\* The card: a directory is an error.  unlink, then rmdir: the others.
DeleteFile(t) ==
    LET p == Path(t)
        can == IsFile(p) \/ (IsEmptyDirectory(p) /\ kind \in {"littlefs", "flashfat"})
    IN
    /\ At(t, "delete")
    /\ Decides(t, can, "unlink", Without({p}))

\* A name that is taken: the card asks whether it is a directory's, LittleFS
\* and FAT take EEXIST for success.
CreateDirectory(t) ==
    LET p == Path(t) IN
    /\ At(t, "mkdir")
    /\ IF Exists(p)
       THEN Ends(t, Flash \/ ~IsFile(p), volume) /\ Sound /\ Same
       ELSE Decides(t, HasParent(p), "mkdir", With(p, Directory))

\* hash_file.  The card's does not see that a read failed.
HashFile(t) ==
    /\ At(t, "read")
    /\ \/ Sound /\ Ends(t, IsFile(Path(t)), volume) /\ UNCHANGED lost
       \/ IsFile(Path(t)) /\ Fault("open") /\ Ends(t, FALSE, volume) /\ UNCHANGED lost
       \/ /\ IsFile(Path(t)) /\ Fault("read")
          /\ Ends(t, ~Flash, volume)
          /\ lost' = (lost \/ ~Flash)
    /\ UNCHANGED <<vfs, mounted, lock>>

-----------------------------------------------------------------------------
(***************************************************************************)
(* delete_directory_recursive: dirs is the recursion's stack.              *)
(***************************************************************************)
\* Mutant of RecursiveOpens: the recursion starts at the path it was given, not at
\* the one that was resolved and looked at.
RecursiveOpensGiven(t) ==
    LET p == Path(t) IN
    /\ At(t, "recursive")
    /\ \/ /\ Holds(p) = Directory /\ Sound
          /\ Goto(t, "remove_next", volume, [work[t] EXCEPT !.dirs = <<call[t].path>>])
       \/ (Fault("open") \/ (Holds(p) # Directory /\ Sound)) /\ Ends(t, FALSE, volume)
    /\ Same

RecursiveOpens(t) ==
    LET p == Path(t) IN
    /\ At(t, "recursive")
    /\ \/ /\ Holds(p) = Directory /\ Sound
          /\ Goto(t, "remove_next", volume, [work[t] EXCEPT !.dirs = <<p>>])
       \/ (Fault("open") \/ (Holds(p) # Directory /\ Sound)) /\ Ends(t, FALSE, volume)
    /\ Same

\* What readdir still returns.  After an error the flash backends stop.
Left(t) ==
    IF Flash /\ ~work[t].ok THEN {} ELSE Entries(Head(work[t].dirs)) \ work[t].passed

Passes(t, q) == [work[t] EXCEPT !.passed = @ \cup {q}]

RemoveEntry(t) ==
    /\ At(t, "remove_next")
    /\ \E q \in Left(t) :
          \/ IsFile(q) /\ Sound /\ Goto(t, "remove_next", Without({q}), Passes(t, q))
          \/ /\ Fault(IF IsFile(q) THEN "unlink" ELSE "open")
             /\ Goto(t, "remove_next", volume, [Passes(t, q) EXCEPT !.ok = FALSE])
          \/ /\ ~IsFile(q) /\ Sound
             /\ Goto(t, "remove_next", volume, [Passes(t, q) EXCEPT !.dirs = <<q>> \o @])
    /\ Same

\* The directory itself: the card always tries, the others after a success.
DirectoryDone(t) ==
    LET p == Head(work[t].dirs)
        outer == Tail(work[t].dirs)
        Pops(ok, v) == Goto(t, IF outer = <<>> THEN "leave" ELSE "remove_next", v,
                            [work[t] EXCEPT !.dirs = outer, !.ok = ok])
    IN
    /\ At(t, "remove_next") /\ Left(t) = {}
    /\ \/ Flash /\ ~work[t].ok /\ Sound /\ Pops(FALSE, volume)
       \/ /\ ~Flash \/ work[t].ok
          /\ \/ IsEmptyDirectory(p) /\ Sound /\ Pops(work[t].ok, Without({p}))
             \/ (Fault("rmdir") \/ (~IsEmptyDirectory(p) /\ Sound)) /\ Pops(FALSE, volume)
    /\ Same

-----------------------------------------------------------------------------
(***************************************************************************)
(* mount, unmount, format.                                                 *)
(***************************************************************************)
Empty == [q \in Places |-> Absent]

\* esp_vfs_*_register, m_mounted = true.
Registers(t, label, w) ==
    /\ Goto(t, label, volume, w)
    /\ vfs' = TRUE /\ mounted' = TRUE
    /\ UNCHANGED lost

\* The flash backends' mount.  FlashFAT always asks for a format of a volume
\* that cannot be mounted; LittleFS and SPIFFS when they were made so.
MountFlash(t) ==
    LET ok == [work[t] EXCEPT !.ok = TRUE] IN
    /\ At(t, "mount") /\ Flash
    /\ \/ mounted /\ Sound /\ Ends(t, TRUE, volume) /\ UNCHANGED <<vfs, mounted, lost>>
       \/ ~mounted /\ Sound /\ Registers(t, "leave", ok)
       \/ /\ ~mounted /\ Fault("mount")
          /\ IF formats
             THEN Ends(t, TRUE, Empty) /\ vfs' = TRUE /\ mounted' = TRUE
             ELSE Ends(t, FALSE, volume) /\ UNCHANGED <<vfs, mounted>>
          /\ UNCHANGED lost
    /\ UNCHANGED lock

\* The card's mount, also the one format ends with: it gives the mutex before
\* it looks for the partial uploads of earlier sessions.
MountCard(t) ==
    LET nested == pc[t] = "format_mount"
        ok == [work[t] EXCEPT !.ok = ~nested]
    IN
    /\ ~Flash /\ pc[t] \in {"mount", "format_mount"}
    /\ lock = IF nested THEN Nobody ELSE t
    /\ \/ mounted /\ Sound /\ Ends(t, ~nested, volume) /\ UNCHANGED <<vfs, mounted, lost>>
       \/ ~mounted /\ Sound /\ Registers(t, "clean_up", ok)
       \/ ~mounted /\ Fault("mount") /\ Ends(t, FALSE, volume) /\ UNCHANGED <<vfs, mounted, lost>>
    /\ lock' = Nobody

\* cleanup_partial_uploads_in_dir, from the mount point down.
CleanUp(t) ==
    /\ At(t, "clean_up")
    /\ Sound
    /\ Goto(t, "leave", IF vfs THEN Without({q \in Partials : IsFile(q)}) ELSE volume, work[t])
    /\ Same

Unmount(t) ==
    /\ At(t, "unmount")
    /\ \/ ~mounted /\ Sound /\ Ends(t, TRUE, volume) /\ UNCHANGED <<vfs, mounted>>
       \/ /\ mounted /\ Sound
          /\ Ends(t, TRUE, volume)
          /\ vfs' = FALSE /\ mounted' = FALSE
       \/ /\ mounted /\ Flash /\ Fault("unregister")
          /\ Ends(t, FALSE, volume)
          /\ UNCHANGED <<vfs, mounted>>
    /\ UNCHANGED <<lock, lost>>

\* Mutant of FormatUnregisters: m_mounted stays set.
FormatStaysMounted(t) ==
    LET was == [work[t] EXCEPT !.was = mounted] IN
    /\ At(t, "format") /\ Flash
    /\ Sound /\ Goto(t, "format_erase", volume, was) /\ vfs' = FALSE
    /\ UNCHANGED <<mounted, lock, lost>>

\* The flash backends' format: unregister, erase, register again.
FormatUnregisters(t) ==
    LET was == [work[t] EXCEPT !.was = mounted] IN
    /\ At(t, "format") /\ Flash
    /\ \/ Sound /\ Goto(t, "format_erase", volume, was) /\ vfs' = FALSE /\ mounted' = FALSE
       \/ /\ mounted /\ Fault("unregister")
          /\ Ends(t, FALSE, volume)
          /\ UNCHANGED <<vfs, mounted>>
    /\ UNCHANGED <<lock, lost>>

FormatErases(t) ==
    /\ At(t, "format_erase")
    /\ \/ /\ Sound
          /\ IF work[t].was THEN Goto(t, "format_remount", Empty, work[t]) ELSE Ends(t, TRUE, Empty)
       \/ Fault("format") /\ \E v \in {volume, Empty} : Ends(t, FALSE, v)
    /\ Same

\* A failure here is only logged: ESP_OK, on a volume that is not mounted.
FormatRemounts(t) ==
    /\ At(t, "format_remount")
    /\ \/ Sound /\ Registers(t, "leave", work[t])
       \/ Fault("mount") /\ Ends(t, TRUE, volume) /\ UNCHANGED <<vfs, mounted, lost>>
    /\ UNCHANGED lock

\* The card's format, without the mutex; a failure unmounts and mounts, and is
\* what format answers whatever comes of that.
FormatCard(t) ==
    /\ At(t, "format") /\ ~Flash
    /\ \/ Sound /\ Ends(t, TRUE, Empty)
       \/ Fault("format") /\ \E v \in {volume, Empty} : Goto(t, "format_unmount", v, work[t])
    /\ Same

FormatUnmounts(t) ==
    /\ At(t, "format_unmount") /\ lock = Nobody
    /\ Sound /\ Goto(t, "format_mount", volume, work[t])
    /\ vfs' = FALSE /\ mounted' = FALSE
    /\ UNCHANGED <<lock, lost>>

-----------------------------------------------------------------------------
\* What a task that is in a call does next.
Step(t) ==
    \/ Enter(t) \/ Leave(t)
    \/ CopyOpenSource(t) \/ CopyOpenDestination(t) \/ CopyChunk(t)
    \/ CopyReadFails(t) \/ CopyEnd(t) \/ CopyCleanup(t)
    \/ RenameClears(t) \/ RenameMoves(t) \/ DeleteFile(t)
    \/ CreateDirectory(t) \/ HashFile(t)
    \/ RecursiveOpens(t) \/ RemoveEntry(t) \/ DirectoryDone(t)
    \/ MountFlash(t) \/ MountCard(t) \/ CleanUp(t) \/ Unmount(t)
    \/ FormatUnregisters(t) \/ FormatErases(t) \/ FormatRemounts(t)
    \/ FormatCard(t) \/ FormatUnmounts(t)

Next == \E t \in Tasks : Begin(t) \/ Step(t)

\* A task that may run runs, and the mutex is given in turn.
Spec == Init /\ [][Next]_vars /\ \A t \in Tasks : SF_vars(Step(t))

-----------------------------------------------------------------------------
(***************************************************************************)
(* Properties.                                                             *)
(***************************************************************************)
\* Between two calls, m_mounted says whether the file system is registered:
\* after a mount, unmount or format that failed anywhere on its way, and after
\* the card's two mounts that met.
MountedAgrees == lock = Nobody => mounted = vfs

\* The paths that resolve_path may read in one, and the calls with their paths
\* read.
Readings(p) == {p} \cup (IF p # <<>> /\ Head(p) = MountName THEN {Tail(p)} ELSE {})

Askable ==
    UNION {{[c EXCEPT !.path = p, !.to = q] : p \in Readings(c.path), q \in Readings(c.to)} :
              c \in Calls}

Asked == [t \in Tasks |-> [call[t] EXCEPT !.path = Path(t), !.to = Target(t)]]

Contract == INSTANCE BackendContract WITH store <- volume, call <- Asked, Calls <- Askable

\* Every backend keeps the contract of storage_backend.h: whatever fails on the
\* way and whatever else runs, a call touches only what it names and answers
\* ESP_OK only when its work is done.  A path is the one resolve_path reads.
ImplementsContract == Contract!Spec

\* Every call returns, so the mutex is given on every way out of a method.
CallsEnd == \A t \in Tasks : result[t] = "running" ~> result[t] # "running"

\* A copy that answered ESP_OK left the destination as the source was when the
\* call started (storage_backend.h: "Copies file contents and preserves size").
CopyKeepsContents ==
    [][\A t \in Tasks :
        call[t].op = "copy" /\ Leave(t) /\ work[t].ok /\ ~lost =>
            volume[Target(t)] = seen[t][Path(t)]]_vars
=============================================================================
