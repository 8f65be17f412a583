# esp-idf-uart-filebridge: a verification project

TLA+ modules that model the filebridge (a device-side command dispatcher in C++
and its Python host), TLC configurations that check them on small instances, and
theorems that TLAPS checks for every value of the constants. Paths below are those
of the repository with `src/` in front, so the device's code is under `src/src/`
and the host's under `src/tools_py/esp_idf_uart_filebridge/`.

## 1. Inventory

### Components

| Component | State it keeps | Operations | Talks to |
|---|---|---|---|
| **Dispatcher**, `FileProtocol` (`file_protocol.cpp`) | the upload session (`m_transfer_*`, `m_benchmark_mode`, the `setvbuf` buffer), `m_rx_sequence`, `m_tx_sequence`, the saved log levels, the receive buffer | one handler per command, run to its end by the RX task | StorageManager (calls), stdio on the card, `bridge_tx_cb` |
| **SD backend**, `StorageSDFAT` | `m_mounted`, the card handle, a mutex | mount (and removal of partial uploads), unmount, stat, list, delete, rename, mkdir, copy, hash, format | FAT volume |
| **Flash backends** (LittleFS, SPIFFS, FAT on flash) | the same for their partitions | the same contract (`storage_backend.h`) | VFS |
| **Registry and manager** | `m_backends`, `m_backend_count`, a mutex | register, unregister, resolve, iterate, reset; the manager resolves and then calls the backend | backends, by pointers used after the mutex is released |
| **Bridge lifecycle** (`esp_idf_uart_filebridge.cpp`) | the statics `s_protocol`, `s_storage_manager`, `s_rx_task`, `s_running`, `s_runtime_ready`, `s_cfg` | init, deinit, pause, resume, mount_sd, the lazy start on the RX task | application tasks and the RX task share the statics without a lock |
| **Host protocol**, `ESP32Protocol` (`protocol.py`) | `sequence`, `_rx_sequence`, the serial port, an RLock per call | connect, HELLO, streamed upload, download, card commands | the serial line |
| **File manager** (`file_manager.py`) | nothing beyond a call | upload with three attempts, download, delete, ... | `ESP32Protocol` |
| **WebDAV** (`webdav/`) | `DirectoryCache`, one writer per request | GET, PUT, DELETE, MOVE, COPY on request threads | one shared `ESP32Protocol` |
| **Batch runner** | `BatchState` in a JSON file | run, retry, resume | file manager |
| Compression, CLI, build scripts | none | pure functions, argument parsing | (no command uses the codec) |

### What is hard, and what makes each part correct

* **Upload session.** BEGIN opens `<path>.upload`, DATA appends without an answer,
  END checks the size, closes, unlinks the old target and renames. Every other
  command may arrive in between, every step may fail and leaves by its own early
  return, and the power may go between two steps. Correct means: the session
  variables agree; an ACK of END means stored; a partial file never shows under a
  plain name, is never left behind, and is touched by nothing but its upload.
* **Host and line.** DATA is not acknowledged, errors come back as extra NACKs, and
  answers are matched to commands by order and numbering only. Frames are lost,
  damaged and late; the host retries three times, and may die. Correct means: what
  is reported stored is stored, no mixture of attempts is ever committed, one fault
  is survived, every upload ends.
* **Mount and lifecycle.** Application tasks mount, initialise and delete beside
  the RX task. Correct means: one runtime, no use of a deleted object, no partial
  file of the running session removed.
* **Registry.** Correct means: at most one backend serves a path, in any order of
  registration, and no backend is used after it is deleted.
* **Backends.** rename, copy and format are made of steps that destroy before they
  create. Correct means: the contract of `storage_backend.h`.
* **WebDAV and batch.** Request threads interleave calls on one session; caches and
  state files are read after the fact. Correct means: a PUT stores its own bytes, a
  listing after a change shows it, a resumed batch neither skips nor repeats.

`PROJECT.json` lists the hazards line by line, with the properties that cover them.

## 2. Plan

| # | Module | Content | Status |
|---|---|---|---|
| 1 | `AtomicUpload` | abstract: uploads happen at once or not at all | done |
| 2 | `FileProtocol` | dispatcher, session, card, faults; implements 1 | done |
| 3 | `FileProtocolProofs`, `FileProtocolCardProofs` | session, partial file, acknowledged END; what surfaces and what stays on the card, log levels, the refinement of 1 | done |
| 4 | `UploadSystem`, `UploadSystemProofs` | host x line x frame checks x 2 | done |
| 5 | `StorageRegistry`, `StorageRegistryProofs` | registration, removal, resolution, use after unlock | done |
| 6 | `BridgeLifecycle`, `BridgeLifecycleProofs` | init, deinit, lazy start, the manager's init, mount_sd, pause as interleaved steps | done |
| 7 | `BackendContract`, `Backends`, `BackendsProofs` | the abstract backend, and the four backends that implement it, also proved | done |
| 8 | `WebDavServer`, `WebDavServerProofs` | request threads over one protocol object, directory cache | done |
| 9 | `BatchRunner`, `BatchRunnerProofs` | state file, resume, retries, conditions | done |

Every safety property of the passing runs is now also a theorem, under the hypotheses
that section 5 states.

## 3. The modules and the code

### FileProtocol

One action per handler, because one task runs each handler to its end. The card is
a function from names to what they hold (`Absent`, `Directory` or a sequence of
bytes). Which names end in `.upload`, which name is the temporary one of which
(`TempOf`), and which paths are `/dev/null`, off the card or too long are constants.

| Code | Model |
|---|---|
| `handle_put_file_begin` | `PutFileBegin`: `BeginTooLong`, `BeginBenchmark`, `BeginRefused`, `BeginAccepted`. What a refusal has already written (path, total, temporary path) stays written |
| `handle_put_file_data` | `PutFileData` |
| `handle_put_file_end` | `PutFileEnd`: a size that does not match, `CloseFails`, `TargetStays`, `RenameFails`, `CommitUpload`, `CommitBenchmark` |
| `abort_active_transfer` | `AbortActiveTransfer(fs)`, on the card that the failing step left |
| `handle_hello`, `handle_device_info` | `Hello`, `DeviceInfo`, which abort a dangling transfer |
| other commands | `GetFileBegin`, `Delete`, `Rename`, `Mkdir`, `Copy`, `FormatFs`, `Malformed`, `Reboot` |
| `StorageSDFAT::mount` | `MountSd`, and `CleanPartials` when an application task mounts: the mutex is released before the search for partial files |
| power | `PowerLoss`, between commands, and inside END, RENAME and COPY |

Uninitialised memory is a choice: `transferTempPath` starts as any path the heap
may hold. Files opened for writing keep any prefix when the power goes. The
*environment's* faults are those in the constant `Faults`, so that a run says what
it assumes. `received` and `handled` are history variables.

A file is a sequence over `Bytes`; paths are atoms; error texts, progress, time and
heap are left out. A declared size of 0 with no free space (ERR_DISK_FULL only for
n > 0) follows the comparison `free < required`.

### AtomicUpload

A card (`store`) and an upload in progress that is not part of it. An upload ends by
replacing its target at once, or by nothing at all. `FileProtocol` implements it with `store` the
names without the `.upload` suffix.

### UploadSystem

EXTENDS `FileProtocol`: `DeviceStep` takes the first frame of the line, applies the
checks of `try_parse_frame` (`Accepts`), and then runs the handler's action; the
frames that it sends are numbered from `m_tx_sequence`. The host is a program
counter over `upload_file`, `connect` and `_abort_transfer`; `TakeReply`,
`Verdict` and `TimesOut` are `_receive_frame` and the two waits. In particular: a frame
that raises leaves `_rx_sequence` as it was; after each DATA the host looks once,
without waiting, for an answer; an ACK found there is dropped; nothing drains the line
between two attempts. A wait times out when no answer is under way, or (fault
`late`) when it comes too late. A damaged frame is one whose CRC fails: damage to a
length field, which makes the parser wait, is not modelled.

### StorageRegistry

The registry's table `entries` and the backend objects' lives (`heap`), under any
number of tasks. A registry method holds the mutex from its first read to its last
write, so it is one action; the pointer that it returns (`hand`) is used in a later
action (`Use`, `ListUse`), and `rename_file` and `copy_file` look up their two paths in
two actions. A mount point or a path is the sequence of its components, the root the
empty one. `check_mount_overlap` and `resolve_path` compare strings, to both of which
the root is special by accident: "/" is a prefix of "/sd", but the character after it is
not '/'. So `Overlap` holds between the root and nothing, and `Serves` gives it the path
"/" alone: registered, it takes no path from anybody, and no file can be reached
through it, although storage_registry.h says that mount points must not overlap.

| Code | Model |
|---|---|
| making an object, `register_backend`, and deletion when refused | `New`, `Register`, `RegisterRefused` (`Accepts`, `Overlap`) |
| `unregister_backend`, `reset` | `Unregister` (`Removed`), `Reset` |
| `resolve_path` and a call on its result | `Resolve`, `Use` |
| `rename_file`, `copy_file` of the manager | `ResolveOld`, `ResolveNew`, `Use` |
| `get_backend_by_mount` | `GetByMount`, `Use` |
| `handle_storage_list` | `ListStart`, `ListNext`, `ListUse`, `ListEnd` |

`ContractKept` is what storage_registry.h asks of callers ("Ensure no active operations
before unregistering!"): the guard `Unused` of removals. Each object is made once, and
one that is unregistered without being owned is not registered again.

### BridgeLifecycle

The statics of `esp_idf_uart_filebridge.cpp`, shared without a lock by the RX task and
the application's tasks, of which one (`Main`) inits, deinits, pauses and resumes. A
step goes from one access to a static, or to the mutex of the registry or of the card,
to the next. Objects have numbers; a call through a null or deleted pointer puts the
task at "crashed".

| Code | Model |
|---|---|
| `ensure_runtime_ready` | `EnsureRuntimeReady` (its first test), `NewManager`, `InitManager`, then `StorageManager::init`, `NewProtocol`, `InitProtocol`, `SetReady` |
| `StorageManager::init` | `RegisterBackend`, `RegisteredOrRefused` (an earlier manager's backend may have the mount point), `MarkInitialized`, `Mount` |
| `StorageSDFAT::mount` | `LockCard`, `MountCard` |
| `uart_rx_task` | `Receive`, `ProcessRxData`, `Lookup`, `LookedUp`, `Handle` |
| `esp_idf_uart_filebridge_mount_sd` | `MountSd`, the start, `GetBackend`, `GotBackend`, `IsMounted`, and again `LockCard`, `MountCard` |
| `esp_idf_uart_filebridge_init` | `InitBridge`, `CreateRxTask`, `SetRunning` |
| `esp_idf_uart_filebridge_deinit` | `Deinit` (deletes the RX task wherever it stands), `DeleteProtocol`, `DeleteManager`, `StopBridge` |
| `..._pause`, `..._resume` | `Pause`, `Resume` |

FreeRTOS does not give a mutex back when its holder is deleted: it stays with
`DeletedTask`. The destructor of `FileProtocol` aborts its transfer; that of
`StorageManager` leaves its backend in the registry, so after deinit and init the
manager's registration is refused and the runtime is ready but serves nothing (`Served`).

### BackendContract and Backends

`BackendContract` is what `storage_backend.h` promises, as an abstract specification:
a call sees the volume when it starts, changes nothing outside of its `Scope` until it
returns, and then answers by `Done` or `NotDone`. `Backends` is all four
implementations: `kind` says which, a step is one call of the file system or the taking
or giving of the mutex, and each such call may fail (`Fault`). It implements the
contract (`ImplementsContract`), with both paths of a call read as `resolve_path` reads
them (`Asked`).

| Code | Model |
|---|---|
| a call, the mutex, the test of `m_mounted` | `Begin`, `Enter`, `Leave` |
| `copy_file` | `CopyOpenSource`, `CopyOpenDestination`, `CopyChunk`, `CopyReadFails`, `CopyEnd`, `CopyCleanup` |
| `rename_file` | `RenameClears` (unlinks a target that is in the way), `RenameMoves` |
| `delete_file`, `create_directory`, `hash_file` | `DeleteFile`, `CreateDirectory`, `HashFile` |
| `delete_directory_recursive` and its recursion | `RecursiveOpens`, `RemoveEntry`, `DirectoryDone` |
| `mount`, `unmount` | `MountFlash`, `MountCard`, `CleanUp`, `Unmount` |
| `format` | `FormatUnregisters`, `FormatErases`, `FormatRemounts`; on the card `FormatCard`, `FormatUnmounts` |

The flash backends hold their mutex over a whole method. The card's takes it in mount
and unmount alone: there the RX task is the only one to call the other methods, as in
the program. The contract leaves out what the code does not do: the result of a copy
whose stream lost data when nothing looked at the answer (`fclose` of the destination,
and on the card a failing `fread`), a copy of a file onto itself, and on the flash
backends `create_directory` of a name that a file has, which answers ESP_OK (EEXIST).
Renaming a path to itself deletes it on the card, where the target is unlinked first.
A path is a sequence over `Components`; the volumes that a run starts with are trees
(`VolumeAssumption`), as every file system but SPIFFS keeps them. On SPIFFS a name with
slashes is a name like any other: a rename moves that name alone, so the contract asks
of a rename the file, or the directory with all that is in it (`Tree`).
`formats` says whether a failing mount erases the volume: always with FlashFAT, as
configured with LittleFS and SPIFFS.

### BatchRunner

| Code | Model |
|---|---|
| `handle_batch_command` (`--resume`, `BatchState.clear`) | `StartRun` |
| `BatchState.load`, `save` | `LoadState`; `SaveOpens` (open "w" empties the file), `SaveDumps` |
| `connect` | `Connect` |
| `execute` | `NextTask`, `Succeeds`, `Skips`, `FailsForGood`, `Finish`, `EndRun` |
| `execute_task_with_retry` | `AttemptFails`, `MoreAttempts` |
| `check_condition` | `CheckCondition` |
| `_execute_upload`, `_execute_upload_dir` | `Upload`, `AfterFile`, `KeepFile` |
| `_execute_*` of one call | `CallMethod`; `CallMissingMethod` |

`ESP32Protocol` has no `hash_file`, `compute_crc32_file`, `delete_file_or_dir`,
`rename_file_or_dir` or `get_space_info`, which `batch_runner.py` calls (lines 212, 223,
327, 396, 424, 448, 464, 510). So verified uploads, delete, rename, check_hash and
check_space tasks fail at every attempt, and conditions on a hash or on space always
skip; the model says so (type "missing", `verify`). A verified upload with
`overwrite: false` uploads, fails its verification, and is "skipped" by its own retry.
`failed_tasks` is never cleared. A process may be killed, or interrupted, at any step.

### WebDavServer

Threads of requests on one folder. A step is one call of the protocol object, which
`with_lock` makes atomic, or of the directory cache. Which calls a request makes, and
in which order, is WsgiDAV's; a PUT whose `write` raises gets no `close`.

| Code | Model |
|---|---|
| `get_resource_inst`, `get_member_names`, `DirectoryCache` | `Resolved`, `CacheGet`, `Fetch`, `FetchFails`, `CachePut`, `CacheExpires`, `Invalidates` |
| `create_empty_resource` | `CreateBegin`, `CreateEnd`, `CreateAbort`, `Created` |
| `ESP32FileWriter.write`, `close` | `BeginWrite`, `WriteData`, `EndWrite`, `AbortWrite`, `Changed` |
| `ESP32File.delete`, `copy_move_single` | `DeleteFile`, `MoveFile` |
| the device's handlers | `BeginEffects`, `DataEffects`, `EndEffects`, `DeleteEffects`, `RenameEffects` |
| frames that nobody read; frame numbers | `answers`, `Reads`, `deaf` |

The host refuses every frame after a lost one until the next HELLO, which this server
sends only when it connects (`deaf`). The content of a file is the sequence of the
requests that its chunks are of, so that a mixture shows.

## 4. Runs

| Run | Question | Bounds |
|---|---|---|
| `upload_session` | with failing opens, writes, closes, renames and formats, power losses anywhere and an application's mount: type, session, no partial file surfaces or stays, acknowledged END is stored | one upload target and its temporary file, one other file, payloads of up to two bytes, declared sizes 0 to 2, also `/dev/null`, a path off the card and one too long |
| `upload_refines_atomic` | without failing renames, power losses inside commands and application mounts: the session implements `AtomicUpload`, the partial file is out of reach, log levels are restored | as above, without the benchmark path; here unlink may fail too |
| `upload_over_faulty_line` | one lost or damaged command, or one failing open, close or rename, and one dead host: the retry stores the file, connecting starts clean | three chunks, 3 attempts, sequence numbers modulo 8 so that they wrap |
| `upload_any_two_faults` | any two faults of line, clock, writes and power: no mixture of attempts in the target; every upload ends | three chunks, sequence numbers modulo 32, more than the frames of one run |
| `upload_reported_but_lost` | finding: answers read one command early | two faults |
| `registry_two_tasks` | two tasks make, register, look up, list and remove backends: one backend serves a path and keeps it, and (contract kept) no deleted object is reached | six objects at two equal mount points, one nested in them, an unrelated one, the root and a malformed one; room for two; the tasks and the two equal objects are symmetric |
| `bridge_lifecycle` | start, pause, resume, stop and start again at any point of what the other tasks do: no call of a null or deleted object, nothing outlives deinit, every call ends unless its mutex went with a deleted or suspended task | the RX task and two application tasks, two lives, three managers and protocols, one failing allocation |
| `backend_calls` | each backend, with two tasks, implements the contract, keeps `m_mounted` true and gives its mutex back | two calls of every kind on a volume of nine places, two levels deep, any two faults |
| `backend_copy_onto_itself` | finding: a copy of a file onto itself empties it | two calls |
| `batch_runner` | what is recorded is done, a resumed run repeats nothing recorded, fail_fast stops, every run ends | four batches of three tasks, two attempts, three runs, two faults |
| `webdav_two_requests` | a PUT that had the line to itself and was reported stored is stored, the cached listing is stale only in the named cases, every request is answered | two threads with a request each (LIST, PUT, DELETE, MOVE), two names, bodies of no chunk or two, any refusals, one answer late or lost |
| `webdav_put_reported_but_lost` | finding: the ABORT of a failed PUT leaves its answer unread, and the next PUT reports success for a refused END | one thread, two PUTs of one chunk, refusals |

Why the bounds are enough: a session's steps depend on a payload only through its
length against the declared size, so sizes up to two chunks reach below, at and
above the limit; two names let every command hit the upload's target, its temporary
file (by mount and power only) and another file. Three chunks are needed for a
hole in the middle of a file; two faults for an upload whose retry fails too. In
longer experiments with a file of two chunks, TLC found no mixture of attempts with up
to four faults and one with five, including answers late by more than a wait and a
host restarted while frames are under way: chunks of two attempts that add up to the
right size. The device does not check the content of a file
beyond each frame's CRC and the total size, so this is where the guarantee ends.

The strict form of `ReportedUploadIsStored`, without waiting for the frames under
way, fails after one damaged DATA frame: the host is early, and the file is stored
later. The run checks the form that tells lost from late.

For the registry, two tasks are what a race needs, and two entries what a shift of the
table needs; whether two mount points overlap is a question about pairs. The theorems
have no such bounds.

For the lifecycle, two application tasks let one stop the bridge while the other mounts
beside the RX task; a second life is what the backend left in the registry needs; three
objects cover a failed start in each. `StartsAlone` is an assumption of that run: two
tasks that start the runtime at once may each make a manager and a protocol, and one may
delete what the other uses; with `StartsAlone = FALSE` `NoBadCall` fails. Nothing in the
code enforces it.

For the backends, two calls are what it takes to meet (two mounts, a mount and a
format) or to find what the first left; two faults let a cleanup fail after the step
that called for it; a tree of two levels needs the recursion to go down and come back.
The runs of a batch are three, so that a resumed run can fail and be resumed.

With three interleaved requests TLC also finds a stored file that holds another
request's chunk: the protocol object's lock is per call, and the device has one
transfer. With two, a request that had the line to itself is safe (`CleanPutIsStored`).

**Where code and words differ.** Each finding has its run. Five more were met while
modelling, and have none: a benchmark upload (`/dev/null`)
restores log levels that it never saved (`file_protocol.cpp:396`); the commit unlinks before
it renames, while `README.md:66` calls it atomic; the search for partial files in an
application's mount removes that of a running upload (`storage_sd_fat.cpp:204`); one lost
answer fails all three attempts of an upload, since nothing sends HELLO between them; and
`unregister_backend` never returns the INVALID_STATE that `storage_registry.h:132` lists.
Further, from the newer modules: the README's batch example (lines 187 to 215) uses
`verify: true`, which always fails; an empty PUT over an existing file opens no stream and
reports success (`provider.py:319-345`); a refused DELETE is reported as done (183-190); a
listing that fails is served as an empty folder (443-445).

**Fairness.** `UploadEnds` assumes weak fairness of the host's program, the RX task
and the mount at start-up. The RX task runs at a fixed priority and reads with a
100 ms timeout; every wait of the host has a deadline (2, 10 or 30 s). Nothing is
assumed of the line: faults are bounded by `MaxFaults`, not by fairness. A host whose
HELLO fails tries again (`connect` makes up to nine tries; a user is assumed to
start it again after those).

`CallsEnd` of `BridgeLifecycle` and of `Backends` assumes strong fairness of the steps of
each task: FreeRTOS gives a mutex to a task that waits for it, highest priority first and
in order, and no task takes one in a loop. That data arrives, or that the application
calls anything, is not assumed. `RunEnds` assumes weak fairness of the runner, and
`RequestsEnd` of each thread: every call of the protocol object has a timeout.
Deadlock is not checked in the runs whose number of calls, runs or requests is bounded
and may be used up; there the liveness property says that whatever was begun ends.

## 5. Proofs

### FileProtocolProofs

| Theorem | States |
|---|---|
| `TypeCorrect` | `Spec => []TypeOK` |
| `SessionAgrees` | `Spec => []SessionConsistent` |
| `PartialFileIntact` | `Spec => []UploadUndisturbed`, if no application mounts the card beside the RX task |
| `AckedUploadStored` | `Spec => AckedEndIsStored` |

All hold for any set of names, payloads and sizes and any set of faults; the
assumptions are the named ASSUMEs of `FileProtocol` (the suffix is injective, what a
name without a file holds is not a file). The inductive invariant is

    IInv == TypeOK /\ SessionConsistent /\ PartialFile /\ (cleaning => "app_mount" \in Faults)

`PartialFile` (during an upload the partial file holds `received`, or its directory
entry is gone because a mount's search removed it) is needed because
`AckedEndIsStored` speaks of the file that is renamed, and COPY, RENAME, DELETE and FORMAT
must be shown to miss it: the first three reach only names without the suffix, the
last refuses during an upload. The proof has one lemma per action.

### StorageRegistryProofs

| Theorem | States |
|---|---|
| `TypeCorrect` | `Spec => []TypeOK` |
| `OneServer` | `Spec => []ServedByOne` |
| `NeverTakenOver` | `Spec => NeverHijacked` |
| `PointersAlive` | `Spec => []NoUseAfterDelete`, if `ContractKept` |

For any tasks, objects, mount points, paths and capacity. The first three follow from

    IInv == TypeOK /\ MountsValid /\ MountsApart /\ RegistersObject

`MountsApart` (no registered mount point equals or overlaps another) is what
`register_backend` checks of each newcomer, and a removal keeps because what is left
is a part of what was there (`RemovedEntries`). `SharedPathOverlaps` links it to
resolution: of two mount points that serve one path, the shorter lies within the
longer. `NeverTakenOver` needs no case per action: in the state before and in the state
after, the backend that serves a path is the only one. `PointersAlive` adds
`NewIsPrivate`: an object on its way to be registered is in nobody else's hands, so
its maker may delete it when it is refused.

### FileProtocolCardProofs

| Theorem | States | If |
|---|---|---|
| `UploadsSurfaceWhole` | `Spec => OnlyWholeUploadsSurface` | |
| `NoPartialStays` | `Spec => []NoPartialLeft` | unlink works |
| `LevelsRestored` | `Spec => []LogsRestored` | no benchmark uploads (`BenchmarkPaths = {}`) |
| `UploadIsAtomic` | `Spec => ImplementsAtomicUpload` | `Calm`: no failing rename, no power loss inside a command, no mount beside an upload |

All rest on `IInv` above. `NoPartialLeft` speaks of a card without an open upload, which
says nothing of what an upload may leave when it ends; inductive is `PartialsAreOpen`:
every `.upload` file on a card that is mounted and searched is the open one. A power
loss leaves it by unmounting, and the mount's search brings it back. For the levels,
the saved ones must be the application's during an upload (`LevelsSaved`); a benchmark
breaks that, as section 4 says. The refinement maps initial states to initial states
and each action to a step of the abstract card or to a stutter, one lemma per handler
(`BeginRefines`, `DataRefines`, `EndRefines`, ...): BEGIN opens the abstract upload, an
END that is acknowledged stores it, and whatever else ends a session cancels it. It needs
`Calm` because the target is unlinked before the rename, while in AtomicUpload a
cancelled upload leaves its target as it was.

### UploadSystemProofs

| Theorem | States | If |
|---|---|---|
| `DeviceKeepsSession` | `SystemSpec => Spec` | |
| `SystemTypeCorrect` | `SystemSpec => []SystemTypeOK` | |
| `ConnectsClean` | `SystemSpec => []ConnectStartsClean` | no answer is late, unlink works, the power stays on and no application mounts the card |
| `OneFaultRecovered` | `SystemSpec => []RecoversFromOneFault` | one fault, as listed below |
| `ReportedIsStored` | `SystemSpec => [](faults <= 1 => ReportedUploadIsStored)` | one fault, as listed below |
| `TargetNeverMixed` | `SystemSpec => [](faults <= 1 \/ NoCommandFaults => TargetOldOrWhole)` | no power loss inside a command |

For every file, chunk size, modulus, number of attempts, and any number of faults and
restarts. `DeviceKeepsSession` says that the line and the host add nothing to what the
device can do: every frame that passes `Accepts` is a command of `FileProtocol`, so that
the theorems about sessions (`AckedUploadStored`, `UploadsSurfaceWhole`, ...) hold
behind the line too. `ConnectsClean` uses two of them, and an invariant of the HELLO's
way: between `SendHello` and the end of its wait the line holds nothing (`HelloSent`,
`HelloAnswered`) but the HELLO, perhaps damaged, or its one answer, and if that is an
ACK, the device has ended the earlier session (`Greeted`). Each hypothesis is needed:
a late ACK may answer an earlier HELLO, a partial file that unlink leaves stays, and a
device that restarts forgets the numbers it has agreed on.

`OneFaultRecovered` and `ReportedIsStored` are about the upload itself, for a file of any
length in chunks of any size, with any number of frames under way. Their hypotheses:

* the line loses or damages only commands. A lost or damaged answer shifts all later
  answers, and fails every attempt (section 4); a late one does the same;
* the card may refuse a command whole (open, close, rename, unlink, format and the full
  disk), but a `write` that fails does so in the middle of the stream, and each DATA
  that follows is refused too: many NACKs, which the attempts after it read as theirs;
* the power stays on and no application mounts the card: a restarted device has forgotten
  its numbers, and a mount may remove the partial file;
* `Attempts >= 3`, as in the source: the second attempt may find the upload of the first
  still open, and be refused.

The number of faults is not bounded by a hypothesis: the state counts them, and both
statements speak of the states with at most one. The invariant is

    Course == InTurn
              /\ (Connected /\ faults = 0 => Undisturbed)
              /\ (Connected /\ faults = 1 => Undisturbed \/ Disturbed)

beside `SystemTInv` and `Handshake`. `InTurn` says that no answer is lost: the host
expects the number of the first, and one follows the other. The rest relates the frames
under way to what the device has. `UnderWay(pos, g)`: the i-th frame of the line belongs
at `pos[i]` of the file, each continues where the one before it ends, in number and in
place, except at the gap `g`. `Shape` gives the order of their kinds.

| Phase | What has happened |
|---|---|
| `Undisturbed` | the device has the file up to `pos[1]`; the answers under way are ACKs, for as many commands as the host waits for, or for one more after a disturbed attempt |
| `BeginAstray` | the BEGIN was lost or damaged |
| `Astray` | a DATA or END was lost or damaged; the device will come to its place too early |
| `FallenBehind` | it has: it holds less than the frames assume, and END will fail |
| `Refusal` | the host has yet to read a NACK that its BEGIN or END got |
| `Aborting` | the host gives the attempt up; whatever its ABORT gets, at most one answer stays |
| `LeftOpen` | the ABORT was refused: the second attempt finds the first upload open |

A step of the device, of the line or of the host leads from each phase to one of these
(lemmas `DeviceOnCourse`, `DeviceAstray`, ..., `LineDisturbs`, and one lemma per action of the
host). Only the line, or a refusal by the card, leaves `Undisturbed`, and counts a
fault; from the others only a new attempt returns to it. In no phase has `upload_file`
failed, and a host that has reported success is in `Undisturbed`, where a line without
frames means that END has been carried out. TLC checked `Course` beforehand, on files
of none, three and five bytes, chunks of one and two, numbers modulo 1, 2, 8 and 16, and up
to three faults.

`TargetNeverMixed` asks less of the line, the card and the device, because it promises
less: not that the upload succeeds, but that END never stores chunks of two attempts.
One fault may be of any kind: a command or an answer lost or damaged, a wait that ends
too early, a refusal or a failing write, a device that restarts while frames are under
way, beside any number of hosts that die in the middle. Where the line loses and
damages no command (`NoCommandFaults`), the number of faults is free too. Its one
hypothesis excludes a power loss inside a command, the subject of `FileProtocol`. The
answers need not be followed, since what the host sends is determined by what it has
sent: the frames under way form a chain, from HELLO to ABORT of several attempts and
hosts, each continuing where the one before it ends. The invariant, beside
`SystemTInv`, is

    InOrder == OnlyTarget
               /\ (faults <= 1 \/ NoCommandFaults => TargetOldOrWhole)
               /\ (faults = 0 \/ NoCommandFaults => \E pos : InStep(pos))
               /\ (faults = 1 => \E pos, g : OutOfStep(pos, g))

`InStep`: an upload that the device has open holds the file up to the place of the next
frame. `OutOfStep`: one frame, the `g`-th, is out of its place. Until the device comes to
it, the upload is a beginning of the file; after it, one that is as long as the
next frame's place must still be one (`Sound`), because what a gap leaves out is missing
from the length, and END compares that with the declared size. A second gap could make up
for the length of the first, which is why the theorem ends there; section 4 gives
the number of faults at which TLC finds a mixture. TLC checked `InOrder` with one fault of any kind
and a restart of the host, and with two that are not of commands.

### BridgeLifecycleProofs

| Theorem | States | If |
|---|---|---|
| `TypeCorrect` | `Spec => []TypeOK` | |
| `NoDeletedObjectIsCalled` | `Spec => []NoBadCall` | `StartsAlone` |
| `OneRuntimeAtATime` | `Spec => []OneRuntime` | `StartsAlone` |
| `ReadyRuntimeServes` | `Spec => []ServesUnlessOrphaned` | `StartsAlone` |

The types need to know where the tasks may be during init and deinit (`Phases`: the RX
task is there exactly while it has a place in its code, and while Main creates or
deletes, no other application task works). The rest follows from

    IInv == TypeOK /\ Phases /\ Objects /\ Apartness /\ Settled /\ NoBadCall

`Objects`: the statics name live objects, and every live object is named by a static.
`Apartness`: at most one task starts the runtime, and it knows how far it has come
(`Made`, step by step). `Settled`: what holds when nobody is starting: a ready runtime is
complete, one that is not ready has no objects. `StartsAlone` is an assumption about the
application (section 4); the theorems need it, since two starts at once break them.

### BackendsProofs

| Theorem | States | If |
|---|---|---|
| `TypeCorrect` | `Spec => []TypeOK` | `CopiesNoPartial` |
| `MountFlagAgrees` | `Spec => []MountedAgrees` | |
| `ContractKept` | `Spec => ImplementsContract` | `CopiesNoPartial`, `RenamesNoPartial`, `RenamesFit` |

For any volume, tasks, calls and faults. The type of the volume says that it is a
tree: no step, failed or not, removes a directory that something is in. So the invariant
says who may be where (`PlacedAt`: past its entry a task of a flash backend holds the
mutex; on the card only the RX task does more than mount) and that the streams a copy
has open are of files (`FoundAt`). `MountedAgrees` speaks of the
moments when nobody holds the mutex; inductive is that the flag agrees at every step,
since the steps that register and unregister set it in the same critical section.

The hypotheses, all of them about the calls and none about a state:

* `CopiesNoPartial` and `RenamesNoPartial`: where another task than RX may mount
  (`OthersMount`), no copy names a partial upload, and no rename moves or replaces one, or
  a directory with one in it. The search for partial
  uploads in that mount may delete a file that a copy has open, and what FatFs does to the
  stream then is not modelled; a file that a rename was to move is gone then, which
  the contract forbids. Of the program's own calls none names one; a host that names one does.
* `RenamesFit`: the volume has a place for every name that a rename makes. It bounds the
  model, not the code, and holds when `Places` is every path.

`ContractKept` is a refinement by the mapping of `Contract`: initial states are the
contract's (`InitStarts`), and each step is one of its steps or none (`NextContract`:
`Begin`, `Enter` and `Leave` are the contract's `Begin`, `Start` and `Return`, all others
its `Work`, or a stutter). A call's answer is about the volume as the call found it,
many steps earlier, so the invariant `RInv` carries that memory from step to step: beside
`IInv`, what relates the volume to `seen` at each label (`Told`). That is `CopyAt` (the source
is as it was seen, the destination a prefix of it), `RenameAt` (nothing of the tree has
moved until all of it does), `RecursionAt` (the stack starts at the call's path, and
every directory on it is below), `FileAt` and `FormatAt`, with `CourseAt` for where the call
is in its method, and `FlatIsFlat`. `OthersTold` shows that no step of another task disturbs
it: a flash backend's mutex keeps all others out, and on the card they only mount. That
everything below a path is gone when the path is, whatever its depth, is a
descent to the least deep entry (`DirectoryAbove`).

### BatchRunnerProofs

| Theorem | States |
|---|---|
| `TypeCorrect` | `Spec => []TypeOK` |
| `RecordIsTrue` | `Spec => []RecordedIsDone` |
| `ResumedRunsSkip` | `Spec => ResumeSkipsDone` |
| `FailFastStops` | `Spec => NothingAfterFailure` |

For any batches, attempts, runs, faults and interruptions. The inductive invariant is
`TypeOK /\ Position /\ Recorded /\ Resumed /\ Passed /\ Ended`: where the runner is in its
task and in save; whatever the file or the memory lists is on the device; what an earlier
run recorded is in the memory of the run that resumed it and, unless a kill in the middle
of a save has emptied it, in the file; every task before `index` has a result; a run has
ended only with its last task. `ResumeSkipsDone` is about the step that takes up a task,
so it needs `Resumed` in the state before.

### WebDavServerProofs

| Theorem | States |
|---|---|
| `TypeCorrect` | `Spec => []TypeOK` |
| `CleanUploadStored` | `Spec => []CleanPutIsStored` |
| `CacheIsFresh` | `Spec => []StaleOnlyByFailureOrRace` |

For any number of threads, requests, names, body sizes, refusals and lost answers. The
inductive invariant is `TypeOK /\ Steps /\ CleanLine /\ StaleOnlyByFailureOrRace`. `Steps` is
what a thread knows at its step (how many chunks it has sent, that it has changed
nothing yet). `CleanLine` follows a PUT that has the line to itself: the device
holds exactly its first `count` chunks, or has refused something, and then the refusal
is still in the line, so that END reads it instead of an ACK.

## 6. What is only model-checked, and what is not modelled

TLC only:

* of `UploadSystem`, `TargetOldOrWhole` with two faults or more that lose or damage
  commands: it holds up to the number of faults that section 4 names, depending on the
  file's length, and the device checks nothing that would make a general proof possible.
  Likewise `ReportedUploadIsStored` and `RecoversFromOneFault` beyond the hypotheses of
  section 5;
* liveness (`UploadEnds`, `CallsEnd`, `RunEnds`, `RequestsEnd`), which is out of the
  prover's reach;
* the properties of the violation runs, which do not hold.

Not modelled:

* queries of the dispatcher (LIST, STAT, SPACE_INFO, HASH, the storage list) and
  `open_file`, `stat_file`, `list_directory` and `get_space_info` of the backends, which
  change nothing;
* byte-level framing: the receive buffer and its resynchronisation depend on what bytes a
  payload holds, not on any state the properties are about; frames are whole, and lost or
  damaged as a whole. Progress frames, likewise;
* the space check's sum in 64 bits, which wraps only for declared sizes near 2^64;
* uploads by `fopen` beside a flash backend's own mutex: `FileProtocol` streams to the
  card's file by stdio, in one task;
* the compression codec, which no command uses;
* of WebDAV, GET, COPY, MKCOL and moves or deletes of folders, and `server.py`, which
  configures cheroot and WsgiDAV; of the batch runner, dry runs and delays;
* configuration parsing, logging and the command line.
