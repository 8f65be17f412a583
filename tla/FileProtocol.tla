---------------------------- MODULE FileProtocol ----------------------------
(***************************************************************************)
(* The device's command dispatcher, src/src/file_protocol.cpp: the upload  *)
(* session, the commands that work on the SD card beside it, the SD card   *)
(* as the FAT backend changes it, and the log levels of the I/O tags.      *)
(*                                                                         *)
(* One task (the UART RX task) runs every handler to its end before it     *)
(* reads the next frame, so a handler is one action; what can come between *)
(* two steps of a handler is a power loss, and PowerLoss says which cards  *)
(* that leaves behind.  Handlers do run between the two steps of a mount   *)
(* that an application task asks for ("app_mount"): the search for partial *)
(* uploads starts after the mutex is released.  Any command may follow any *)
(* other: the link and the host that drive the device are in UploadSystem. *)
(***************************************************************************)
EXTENDS Naturals, Sequences

CONSTANTS
    Bytes,          \* what a file is a sequence of
    Payloads,       \* the non-empty DATA payloads a host sends
    Totals,         \* the sizes a host declares in PUT_FILE_BEGIN
    Names,          \* the names on the SD card that the model tells apart
    UploadNames,    \* those of them that end in ".upload"
    PutNames,       \* the names on the card a host uploads to
    TempOf,         \* path -> path ++ UPLOAD_TEMP_SUFFIX, for PutNames
    BenchmarkPaths, \* "/dev/null", when the host benchmarks the link
    OffCardPaths,   \* upload paths that no storage backend serves
    LongPaths,      \* upload paths that leave no room for the suffix
    OffCardTemp,    \* a temporary path that names nothing on the card
    NoPath,         \* the empty path
    Absent,         \* what a free name holds
    Directory,      \* what the name of a directory holds
    Faults          \* what may go wrong around the program

FaultKinds == {"open", "write", "close", "unlink", "rename", "format",
               "power", "power_in_command", "app_mount"}

UserNames == Names \ UploadNames

ASSUME DataAssumption ==
    /\ Payloads \subseteq Seq(Bytes) \ {<<>>}
    /\ Totals \subseteq Nat
    /\ Absent \notin Seq(Bytes) \cup {Directory}
    /\ Directory \notin Seq(Bytes)

ASSUME NameAssumption ==
    /\ UploadNames \subseteq Names
    /\ PutNames \subseteq UserNames
    /\ TempOf \in [PutNames -> UploadNames]
    /\ \A p, q \in PutNames : TempOf[p] = TempOf[q] => p = q
    /\ {NoPath, OffCardTemp} \cap Names = {}
    /\ NoPath # OffCardTemp

ASSUME PathAssumption ==
    /\ (BenchmarkPaths \cup OffCardPaths \cup LongPaths) \cap Names = {}
    /\ NoPath \notin BenchmarkPaths \cup OffCardPaths \cup LongPaths
    /\ NoPath \notin [path : Names, total : Nat, data : Seq(Bytes)]

ASSUME FaultAssumption == Faults \subseteq FaultKinds

VARIABLES
    files,            \* what each name on the card holds
    mounted,          \* StorageSDFAT::m_mounted
    cleaning,         \* a mount that has not yet removed the partial uploads
    transferActive,   \* m_transfer_active
    transferFile,     \* m_transfer_file is open
    sdWriteBuffer,    \* m_sd_write_buffer is allocated
    transferBytes,    \* m_transfer_bytes
    transferTotal,    \* m_transfer_total
    transferFailed,   \* m_transfer_failed
    transferPath,     \* m_transfer_path
    transferTempPath, \* m_transfer_temp_path
    benchmarkMode,    \* m_benchmark_mode
    logLevel,         \* the level the suppressed tags log at
    savedLogLevel,    \* saved_log_levels
    reply,            \* the frames the last handler sent
    handled,          \* history: the command it handled
    received          \* history: the payloads taken since PUT_FILE_BEGIN

cardVars == <<files, mounted, cleaning>>
sessionVars == <<transferActive, transferFile, sdWriteBuffer, transferBytes,
                 transferTotal, transferFailed, transferPath,
                 transferTempPath, benchmarkMode>>
logVars == <<logLevel, savedLogLevel>>
historyVars == <<handled, received>>
vars == <<cardVars, sessionVars, logVars, reply, historyVars>>

Data == Seq(Bytes)
Entry == Data \cup {Absent, Directory}
IsFile(v) == v \notin {Absent, Directory}

Idle == ~transferActive
PutPaths == PutNames \cup BenchmarkPaths \cup OffCardPaths \cup LongPaths
\* Mutant of TempPath: the suffix is never appended.
BarePath(p) == p

TempPath(p) == IF p \in PutNames THEN TempOf[p] ELSE OffCardTemp
LogLevels == {"app", "none"}

Errors == {"ERR_TRANSFER_ACTIVE", "ERR_NO_TRANSFER", "ERR_IO_ERROR",
           "ERR_PATH_TOO_LONG", "ERR_INVALID_PATH", "ERR_UNKNOWN_CMD",
           "ERR_FS_NOT_MOUNTED", "ERR_DISK_FULL", "ERR_FILE_NOT_FOUND"}
Replies == Errors \cup {"ACK", "DEVICE_INFO", "GET_FILE_DATA", "GET_FILE_END"}
Commands == {"HELLO", "DEVICE_INFO", "REBOOT", "PUT_FILE_BEGIN",
             "PUT_FILE_DATA", "PUT_FILE_END", "PUT_FILE_ABORT",
             "GET_FILE_BEGIN", "DELETE", "RENAME", "MKDIR", "COPY",
             "FORMAT_FS", "malformed"}
Events == Commands \cup {"boot", "mount_sd", "power_loss"}

TypeOK ==
    /\ files \in [Names -> Entry]
    /\ mounted \in BOOLEAN
    /\ cleaning \in BOOLEAN
    /\ transferActive \in BOOLEAN
    /\ transferFile \in BOOLEAN
    /\ sdWriteBuffer \in BOOLEAN
    /\ transferBytes \in Nat
    /\ transferTotal \in Nat
    /\ transferFailed \in BOOLEAN
    /\ transferPath \in PutPaths \cup {NoPath}
    /\ transferTempPath \in UploadNames \cup {OffCardTemp, NoPath}
    /\ benchmarkMode \in BOOLEAN
    /\ logLevel \in LogLevels
    /\ savedLogLevel \in LogLevels
    /\ reply \in Seq(Replies)
    /\ handled \in Events
    /\ received \in Data

-----------------------------------------------------------------------------
(***************************************************************************)
(* A restart: the members' initial values.  The two path buffers have no   *)
(* initialiser, so the temporary path starts as what the heap held, often  *)
(* the previous object's; the constructor leaves it, and the first HELLO   *)
(* reads it.                                                               *)
(***************************************************************************)
FreshObject ==
    /\ transferActive' = FALSE
    /\ transferFile' = FALSE
    /\ sdWriteBuffer' = FALSE
    /\ transferBytes' = 0
    /\ transferTotal' = 0
    /\ transferFailed' = FALSE
    /\ transferPath' = NoPath
    /\ transferTempPath' \in {NoPath, OffCardTemp, transferTempPath}
    /\ benchmarkMode' = FALSE

Init ==
    /\ files \in [Names -> {Absent, Directory, <<>>}]
    /\ \A n \in UploadNames : files[n] = Absent
    /\ mounted = FALSE
    /\ cleaning = FALSE
    /\ transferActive = FALSE
    /\ transferFile = FALSE
    /\ sdWriteBuffer = FALSE
    /\ transferBytes = 0
    /\ transferTotal = 0
    /\ transferFailed = FALSE
    /\ transferPath = NoPath
    /\ transferTempPath \in {NoPath, OffCardTemp}
    /\ benchmarkMode = FALSE
    /\ logLevel = "app"
    /\ savedLogLevel = "none"
    /\ reply = <<>>
    /\ handled = "boot"
    /\ received = <<>>

-----------------------------------------------------------------------------
(***************************************************************************)
(* Replies.  A NACK is named by its error code.                            *)
(***************************************************************************)
Handles(cmd) == handled' = cmd
Sends(r) == reply' = <<r>>

Refuse(error) ==
    /\ Sends(error)
    /\ UNCHANGED <<cardVars, sessionVars, logVars, received>>

(***************************************************************************)
(* suppress_logs_if_needed and restore_logs_if_needed.                     *)
(***************************************************************************)
SuppressLogs ==
    /\ savedLogLevel' = logLevel
    /\ logLevel' = "none"

\* Mutant of RestoreLogs: the saved levels are not put back.
LevelsForgotten == UNCHANGED logVars

RestoreLogs ==
    /\ logLevel' = savedLogLevel
    /\ UNCHANGED savedLogLevel

\* Mutant of PartialRemoved: the abort forgets the unlink.
PartialForgotten(fs) == {fs}

(***************************************************************************)
(* unlink(m_transfer_temp_path) on card fs: FAT's unlink removes a file or *)
(* an empty directory; what it cannot remove stays.                        *)
(***************************************************************************)
PartialRemoved(fs) ==
    LET t == transferTempPath IN
    IF benchmarkMode \/ t \notin Names THEN {fs}
    ELSE {g \in {fs, [fs EXCEPT ![t] = Absent]} :
            g[t] = fs[t] => fs[t] \in {Absent, Directory} \/ "unlink" \in Faults}

(***************************************************************************)
(* abort_active_transfer, on card fs.                                      *)
(***************************************************************************)
AbortActiveTransfer(fs) ==
    /\ files' \in PartialRemoved(fs)
    /\ IF transferActive THEN RestoreLogs ELSE UNCHANGED logVars
    /\ transferActive' = FALSE
    /\ transferFile' = FALSE
    /\ sdWriteBuffer' = FALSE
    /\ transferBytes' = 0
    /\ transferTotal' = 0
    /\ transferFailed' = FALSE
    /\ transferPath' = NoPath
    /\ transferTempPath' = NoPath
    /\ benchmarkMode' = FALSE
    /\ received' = <<>>
    /\ UNCHANGED <<mounted, cleaning>>

\* Mutant of AbortDangling: a new host does not end an open upload.
DanglingKept == UNCHANGED <<cardVars, sessionVars, logVars, received>>

AbortDangling ==
    IF transferActive \/ transferTempPath # NoPath
    THEN AbortActiveTransfer(files)
    ELSE UNCHANGED <<cardVars, sessionVars, logVars, received>>

Hello == Handles("HELLO") /\ Sends("ACK") /\ AbortDangling

DeviceInfo == Handles("DEVICE_INFO") /\ Sends("DEVICE_INFO") /\ AbortDangling

-----------------------------------------------------------------------------
(***************************************************************************)
(* Upload.                                                                 *)
(***************************************************************************)
BeginTooLong(p, n) ==
    /\ Idle
    /\ p \in LongPaths
    /\ transferTotal' = n
    /\ transferPath' = p
    /\ Sends("ERR_PATH_TOO_LONG")
    /\ UNCHANGED <<cardVars, logVars, transferActive, transferFile,
                   sdWriteBuffer, transferBytes, transferFailed,
                   transferTempPath, benchmarkMode, received>>

BeginBenchmark(p, n) ==
    /\ Idle
    /\ p \in BenchmarkPaths
    /\ transferTotal' = n
    /\ transferPath' = p
    /\ transferTempPath' = TempPath(p)
    /\ benchmarkMode' = TRUE
    /\ transferActive' = TRUE
    /\ transferBytes' = 0
    /\ received' = <<>>
    /\ Sends("ACK")
    /\ UNCHANGED <<cardVars, logVars, transferFile, sdWriteBuffer,
                   transferFailed>>

(***************************************************************************)
(* Every refusal after the temporary path is composed leaves that path     *)
(* set, with no transfer active.                                           *)
(***************************************************************************)
BeginRefusal(p, n) ==
    {e \in {"ERR_INVALID_PATH", "ERR_FS_NOT_MOUNTED", "ERR_DISK_FULL",
            "ERR_IO_ERROR"} :
        CASE e = "ERR_INVALID_PATH"   -> p \in OffCardPaths
          [] e = "ERR_FS_NOT_MOUNTED" -> p \in PutNames /\ ~mounted
          [] e = "ERR_DISK_FULL"      -> p \in PutNames /\ mounted /\ n > 0
          [] e = "ERR_IO_ERROR"       ->
                p \in PutNames /\ mounted
                /\ ("open" \in Faults \/ files[TempPath(p)] = Directory)}

BeginRefused(p, n) ==
    /\ Idle
    /\ \E e \in BeginRefusal(p, n) : Sends(e)
    /\ transferTotal' = n
    /\ transferPath' = p
    /\ transferTempPath' = TempPath(p)
    /\ benchmarkMode' = FALSE
    /\ UNCHANGED <<cardVars, logVars, transferActive, transferFile,
                   sdWriteBuffer, transferBytes, transferFailed, received>>

BeginAccepted(p, n) ==
    /\ Idle
    /\ p \in PutNames
    /\ mounted
    /\ files[TempOf[p]] # Directory
    /\ files' = [files EXCEPT ![TempOf[p]] = <<>>]
    /\ transferTotal' = n
    /\ transferPath' = p
    /\ transferTempPath' = TempOf[p]
    /\ benchmarkMode' = FALSE
    /\ transferFile' = TRUE
    /\ sdWriteBuffer' \in BOOLEAN
    /\ transferActive' = TRUE
    /\ transferBytes' = 0
    /\ transferFailed' = FALSE
    /\ SuppressLogs
    /\ received' = <<>>
    /\ Sends("ACK")
    /\ UNCHANGED <<mounted, cleaning>>

PutFileBegin(p, n) ==
    /\ Handles("PUT_FILE_BEGIN")
    /\ \/ transferActive /\ Refuse("ERR_TRANSFER_ACTIVE")
       \/ BeginTooLong(p, n)
       \/ BeginBenchmark(p, n)
       \/ BeginRefused(p, n)
       \/ BeginAccepted(p, n)

(***************************************************************************)
(* The upload's file after a write, and after a write or a close that      *)
(* failed part way.  A file whose name has been removed keeps none of it.  *)
(***************************************************************************)
Written(v, payload) == IF v = Absent THEN Absent ELSE v \o payload

CutShort(v) ==
    IF v = Absent THEN {files}
    ELSE {[files EXCEPT ![transferTempPath] = SubSeq(v, 1, k)] :
             k \in 0 .. Len(v)}

\* Mutant of TooMuch: the check leaves out the payload at hand.
AlreadyTooMuch(payload) == transferBytes > transferTotal

TooMuch(payload) == Len(payload) + transferBytes > transferTotal

PutFileData(payload) ==
    /\ Handles("PUT_FILE_DATA")
    /\ \/ /\ ~transferActive \/ (~benchmarkMode /\ ~transferFile)
          /\ Refuse("ERR_NO_TRANSFER")
       \/ /\ transferActive /\ (benchmarkMode \/ transferFile)
          /\ TooMuch(payload)
          /\ AbortActiveTransfer(files)
          /\ Sends("ERR_IO_ERROR")
       \/ /\ transferActive /\ benchmarkMode
          /\ ~TooMuch(payload)
          /\ transferBytes' = transferBytes + Len(payload)
          /\ received' = received \o payload
          /\ reply' = <<>>
          /\ UNCHANGED <<cardVars, logVars, transferActive, transferFile,
                         sdWriteBuffer, transferTotal, transferFailed,
                         transferPath, transferTempPath, benchmarkMode>>
       \/ /\ "write" \in Faults
          /\ transferActive /\ ~benchmarkMode /\ transferFile
          /\ ~TooMuch(payload)
          /\ \E fs \in CutShort(Written(files[transferTempPath], payload)) :
                AbortActiveTransfer(fs)
          /\ Sends("ERR_IO_ERROR")
       \/ /\ transferActive /\ ~benchmarkMode /\ transferFile
          /\ ~TooMuch(payload)
          /\ files' = [files EXCEPT ![transferTempPath] = Written(@, payload)]
          /\ transferBytes' = transferBytes + Len(payload)
          /\ received' = received \o payload
          /\ reply' = <<>>
          /\ UNCHANGED <<mounted, cleaning, logVars, transferActive, transferFile,
                         sdWriteBuffer, transferTotal, transferFailed,
                         transferPath, transferTempPath, benchmarkMode>>

-----------------------------------------------------------------------------
(***************************************************************************)
(* PUT_FILE_END.  The commit closes the temporary file, removes an         *)
(* existing target and renames the temporary file onto it.                 *)
(***************************************************************************)
\* Mutants of UploadComplete: the size is not compared, or only from above.
SizeUnchecked == ~transferFailed
AtMostDeclared == ~transferFailed /\ transferBytes <= transferTotal

UploadComplete == ~transferFailed /\ transferBytes = transferTotal

EndSession ==
    /\ transferActive' = FALSE
    /\ transferFile' = FALSE
    /\ sdWriteBuffer' = FALSE
    /\ transferPath' = NoPath
    /\ transferTempPath' = NoPath
    /\ transferBytes' = 0
    /\ transferTotal' = 0
    /\ benchmarkMode' = FALSE
    /\ received' = <<>>
    /\ UNCHANGED <<mounted, cleaning, transferFailed>>

EndFails(fs) == AbortActiveTransfer(fs) /\ Sends("ERR_IO_ERROR")

CommitBenchmark ==
    /\ benchmarkMode
    /\ EndSession
    /\ RestoreLogs
    /\ Sends("ACK")
    /\ UNCHANGED files

\* Mutant of CloseFails: the result of fclose is not looked at.
CloseUnchecked ==
    /\ "close" \in Faults
    /\ transferFile
    /\ \E fs \in CutShort(files[transferTempPath]) :
          files' = [fs EXCEPT ![transferPath] = fs[transferTempPath],
                              ![transferTempPath] = Absent]
    /\ EndSession
    /\ RestoreLogs
    /\ Sends("ACK")

CloseFails ==
    /\ "close" \in Faults
    /\ transferFile
    /\ \E fs \in CutShort(files[transferTempPath]) : EndFails(fs)

TargetStays ==
    /\ ~benchmarkMode
    /\ \/ files[transferPath] = Directory
       \/ IsFile(files[transferPath]) /\ "unlink" \in Faults
    /\ EndFails(files)

TargetRemoved == [files EXCEPT ![transferPath] = Absent]

RenameFails ==
    /\ ~benchmarkMode
    /\ files[transferPath] # Directory
    /\ "rename" \in Faults \/ files[transferTempPath] = Absent
    /\ EndFails(TargetRemoved)

CommitUpload ==
    /\ ~benchmarkMode
    /\ files[transferPath] # Directory
    /\ files[transferTempPath] # Absent
    /\ files' = [TargetRemoved EXCEPT ![transferPath] = files[transferTempPath],
                                      ![transferTempPath] = Absent]
    /\ EndSession
    /\ RestoreLogs
    /\ Sends("ACK")

PutFileEnd ==
    /\ Handles("PUT_FILE_END")
    /\ \/ ~transferActive /\ Refuse("ERR_NO_TRANSFER")
       \/ transferActive /\ ~UploadComplete /\ EndFails(files)
       \/ /\ transferActive /\ UploadComplete
          /\ \/ CommitBenchmark
             \/ CloseFails
             \/ TargetStays
             \/ RenameFails
             \/ CommitUpload

PutFileAbort ==
    /\ Handles("PUT_FILE_ABORT")
    /\ Sends("ACK")
    /\ AbortActiveTransfer(files)

-----------------------------------------------------------------------------
(***************************************************************************)
(* The other commands on the card.                                         *)
(***************************************************************************)
Answers(cmd, error) ==
    /\ Handles(cmd)
    /\ Refuse(error)

CardChange(cmd, r, fs) ==
    /\ Handles(cmd)
    /\ Sends(r)
    /\ files' = fs
    /\ UNCHANGED <<mounted, cleaning, sessionVars, logVars, received>>

GetFileBegin(n) ==
    \/ transferActive /\ Answers("GET_FILE_BEGIN", "ERR_TRANSFER_ACTIVE")
    \/ /\ Idle /\ ~mounted
       /\ Answers("GET_FILE_BEGIN", "ERR_FS_NOT_MOUNTED")
    \/ /\ Idle /\ mounted /\ ~IsFile(files[n])
       /\ Answers("GET_FILE_BEGIN", "ERR_FILE_NOT_FOUND")
    \/ /\ Idle /\ mounted /\ IsFile(files[n])
       /\ Handles("GET_FILE_BEGIN")
       /\ reply' = <<"ACK", "GET_FILE_DATA", "GET_FILE_END">>
       /\ transferTotal' = 0
       /\ transferBytes' = 0
       /\ UNCHANGED <<cardVars, logVars, transferActive, transferFile,
                      sdWriteBuffer, transferFailed, transferPath,
                      transferTempPath, benchmarkMode, received>>

Delete(n) ==
    \/ transferActive /\ Answers("DELETE", "ERR_TRANSFER_ACTIVE")
    \/ Idle /\ ~mounted /\ Answers("DELETE", "ERR_IO_ERROR")
    \/ /\ Idle /\ mounted /\ files[n] = Absent
       /\ Answers("DELETE", "ERR_FILE_NOT_FOUND")
    \/ /\ Idle /\ mounted /\ files[n] # Absent /\ "unlink" \in Faults
       /\ Answers("DELETE", "ERR_IO_ERROR")
    \/ /\ Idle /\ mounted /\ files[n] # Absent
       /\ CardChange("DELETE", "ACK", [files EXCEPT ![n] = Absent])

(***************************************************************************)
(* StorageSDFAT::rename_file removes what the new name holds (a directory  *)
(* only when it is empty) before it renames, and reports only the rename.  *)
(***************************************************************************)
Rename(a, b) ==
    \/ transferActive /\ Answers("RENAME", "ERR_TRANSFER_ACTIVE")
    \/ Idle /\ ~mounted /\ Answers("RENAME", "ERR_IO_ERROR")
    \/ /\ Idle /\ mounted
       /\ \E fs \in {files, [files EXCEPT ![b] = Absent]} :
            /\ fs[b] = files[b] /\ IsFile(files[b]) => "unlink" \in Faults
            /\ \/ /\ fs[b] # Absent \/ fs[a] = Absent \/ "rename" \in Faults
                  /\ CardChange("RENAME", "ERR_IO_ERROR", fs)
               \/ /\ fs[b] = Absent /\ fs[a] # Absent
                  /\ CardChange("RENAME", "ACK",
                                [fs EXCEPT ![b] = fs[a], ![a] = Absent])

Mkdir(n) ==
    \/ transferActive /\ Answers("MKDIR", "ERR_TRANSFER_ACTIVE")
    \/ /\ Idle /\ (~mounted \/ IsFile(files[n]) \/ "open" \in Faults)
       /\ Answers("MKDIR", "ERR_IO_ERROR")
    \/ /\ Idle /\ mounted /\ ~IsFile(files[n])
       /\ CardChange("MKDIR", "ACK", [files EXCEPT ![n] = Directory])

(***************************************************************************)
(* COPY does not look at m_transfer_active.  Copying a file onto itself    *)
(* truncates it before it is read, and keeps what the stream still finds;  *)
(* a copy that fails removes the destination.                              *)
(***************************************************************************)
Copies(a, b) ==
    IF a = b THEN {SubSeq(files[a], 1, k) : k \in 0 .. Len(files[a])}
    ELSE {files[a]}

Copy(a, b) ==
    \/ /\ ~mounted \/ ~IsFile(files[a]) \/ files[b] = Directory
          \/ "open" \in Faults
       /\ Answers("COPY", "ERR_IO_ERROR")
    \/ /\ mounted /\ IsFile(files[a]) /\ files[b] # Directory
       /\ \/ \E data \in Copies(a, b) :
                CardChange("COPY", "ACK", [files EXCEPT ![b] = data])
          \/ /\ "write" \in Faults
             /\ CardChange("COPY", "ERR_IO_ERROR", [files EXCEPT ![b] = Absent])

(***************************************************************************)
(* The cards that cleanup_partial_uploads_in_dir leaves of card fs.        *)
(***************************************************************************)
Cleaned(fs) ==
    {g \in [Names -> {fs[n] : n \in Names} \cup {Absent}] :
        \A n \in Names :
            IF n \in UploadNames /\ IsFile(fs[n])
            THEN g[n] = Absent \/ (g[n] = fs[n] /\ "unlink" \in Faults)
            ELSE g[n] = fs[n]}

EmptyCard == [n \in Names |-> Absent]

\* Mutant of FormatFs: m_transfer_active is not looked at.
FormatAnyTime ==
    \/ ~mounted /\ Answers("FORMAT_FS", "ERR_IO_ERROR")
    \/ mounted /\ CardChange("FORMAT_FS", "ACK", EmptyCard)

FormatFs ==
    \/ transferActive /\ Answers("FORMAT_FS", "ERR_TRANSFER_ACTIVE")
    \/ Idle /\ ~mounted /\ Answers("FORMAT_FS", "ERR_IO_ERROR")
    \/ Idle /\ mounted /\ CardChange("FORMAT_FS", "ACK", EmptyCard)
    \/ /\ Idle /\ mounted /\ "format" \in Faults
       /\ Handles("FORMAT_FS")
       /\ Sends("ERR_IO_ERROR")
       /\ mounted' \in BOOLEAN
       /\ \E fs \in {files, EmptyCard} :
            files' \in (IF mounted' THEN Cleaned(fs) ELSE {fs})
       /\ UNCHANGED <<cleaning, sessionVars, logVars, received>>

(***************************************************************************)
(* A frame whose payload no handler accepts, and an unknown command.       *)
(***************************************************************************)
Malformed ==
    \E e \in {"ERR_INVALID_PATH", "ERR_PATH_TOO_LONG", "ERR_UNKNOWN_CMD"} :
        Answers("malformed", e)

-----------------------------------------------------------------------------
(***************************************************************************)
(* The world around the dispatcher.                                        *)
(***************************************************************************)

\* StorageSDFAT::mount, at start-up and from esp_idf_uart_filebridge_mount_sd.
MountSd ==
    /\ ~mounted
    /\ mounted' = TRUE
    /\ \/ cleaning' = FALSE /\ files' \in Cleaned(files)
       \/ "app_mount" \in Faults /\ cleaning' = TRUE /\ files' = files
    /\ handled' = "mount_sd"
    /\ reply' = <<>>
    /\ UNCHANGED <<sessionVars, logVars, received>>

\* The second step of an application task's mount.
CleanPartials ==
    /\ cleaning
    /\ cleaning' = FALSE
    /\ files' \in Cleaned(files)
    /\ handled' = "mount_sd"
    /\ reply' = <<>>
    /\ UNCHANGED <<mounted, sessionVars, logVars, received>>

Restart(fs) ==
    /\ files' = fs
    /\ mounted' = FALSE
    /\ cleaning' = FALSE
    /\ FreshObject
    /\ logLevel' = "app"
    /\ savedLogLevel' = "none"
    /\ received' = <<>>

\* What a restart leaves of a file that was open for writing.
Unsynced ==
    IF transferFile
    THEN CutShort(files[transferTempPath])
         \cup {[files EXCEPT ![transferTempPath] = Absent]}
    ELSE {files}

Reboot ==
    /\ Handles("REBOOT")
    /\ Sends("ACK")
    /\ \E fs \in Unsynced : Restart(fs)

\* The cards between two steps of a handler that changes the card in several.
InCommit ==
    IF transferFile /\ UploadComplete /\ IsFile(files[transferPath])
    THEN {TargetRemoved} ELSE {}

InRename ==
    {[files EXCEPT ![b] = Absent] :
        b \in {n \in UserNames : Idle /\ mounted /\ IsFile(files[n])}}

InCopy ==
    UNION {{[fs EXCEPT ![b] = SubSeq(files[a], 1, k)] :
                fs \in Unsynced, k \in 0 .. Len(files[a]),
                b \in {n \in UserNames \ {a} : files[n] # Directory}} :
           a \in {n \in UserNames : mounted /\ IsFile(files[n])}}

PowerLoss ==
    /\ handled' = "power_loss"
    /\ reply' = <<>>
    /\ \/ "power" \in Faults /\ \E fs \in Unsynced : Restart(fs)
       \/ /\ "power_in_command" \in Faults
          /\ \E fs \in InCommit \cup InRename \cup InCopy : Restart(fs)

-----------------------------------------------------------------------------
Upload ==
    \/ \E p \in PutPaths, n \in Totals : PutFileBegin(p, n)
    \/ \E payload \in Payloads : PutFileData(payload)
    \/ PutFileEnd
    \/ PutFileAbort

Session == Hello \/ DeviceInfo \/ Reboot \/ Malformed

CardCommand ==
    \/ \E n \in UserNames : GetFileBegin(n) \/ Delete(n) \/ Mkdir(n)
    \/ \E a, b \in UserNames : Rename(a, b) \/ Copy(a, b)
    \/ FormatFs

Environment == MountSd \/ CleanPartials \/ PowerLoss

Next == Upload \/ Session \/ CardCommand \/ Environment

Spec == Init /\ [][Next]_vars

-----------------------------------------------------------------------------
(***************************************************************************)
(* Properties.                                                             *)
(***************************************************************************)

\* The session's variables agree at every command boundary: a stream is open
\* exactly during an upload to the card, its buffer never outlives it (no
\* leaked FILE, no setvbuf buffer freed late or twice), and the upload is
\* within its declared size on a mounted card.
SessionConsistent ==
    /\ transferFile <=> transferActive /\ ~benchmarkMode
    /\ benchmarkMode => transferActive
    /\ sdWriteBuffer => transferFile
    /\ ~transferFailed
    /\ transferActive => /\ transferBytes = Len(received)
                         /\ transferBytes <= transferTotal
    /\ transferFile => /\ mounted
                       /\ transferPath \in PutNames
                       /\ transferTempPath = TempOf[transferPath]

\* No command that may arrive while an upload runs (another PUT_FILE_BEGIN,
\* FORMAT_FS, DELETE, RENAME, COPY, a mount request) touches its partial file:
\* it holds the payloads taken so far, in order, and nothing else.
UploadUndisturbed ==
    transferFile => files[transferTempPath] = received

\* A partial upload never shows under a name without the ".upload" suffix,
\* whatever fails and whenever the power goes: what appears under such a name
\* is a complete upload to that name, or (RENAME) what another such name held,
\* or (COPY, which a power loss may cut) the beginning of that.
OnlyWholeUploadsSurface ==
    [][\A n \in UserNames :
          IsFile(files'[n]) /\ files'[n] # files[n] =>
             \/ /\ transferFile /\ n = transferPath
                /\ files'[n] = received /\ Len(received) = transferTotal
             \/ handled' = "RENAME" /\ \E m \in UserNames : files[m] = files'[n]
             \/ /\ handled' \in {"COPY", "power_loss"}
                /\ \E m \in UserNames :
                      /\ IsFile(files[m])
                      /\ Len(files'[n]) <= Len(files[m])
                      /\ files'[n] = SubSeq(files[m], 1, Len(files'[n]))]_vars

\* The ACK of PUT_FILE_END means that the target holds exactly the declared
\* number of bytes, as they were received, and that no partial file is left.
AckedEndIsStored ==
    [][handled' = "PUT_FILE_END" /\ reply' = <<"ACK">> /\ transferFile =>
          /\ files' = [files EXCEPT ![transferPath] = received,
                                    ![transferTempPath] = Absent]
          /\ Len(received) = transferTotal]_vars

\* Where unlink works, no upload leaves a partial file behind: not after an
\* abort, a refusal, a failed write or a lost session, and not after a restart
\* once the card is mounted again.
NoPartialLeft ==
    mounted /\ ~cleaning /\ ~transferFile =>
        \A n \in UploadNames : ~IsFile(files[n])

\* Absent a power loss inside a command and a failing rename, the temporary
\* file, the unlink and the rename implement AtomicUpload: a card on which an
\* upload happens at once or not at all.
UploadInProgress ==
    IF transferFile
    THEN [path |-> transferPath, total |-> transferTotal,
          data |-> files[transferTempPath]]
    ELSE NoPath

Abstract == INSTANCE AtomicUpload
            WITH Targets <- UserNames, NoUpload <- NoPath,
                 store <- [n \in UserNames |-> files[n]],
                 upload <- UploadInProgress

ImplementsAtomicUpload == Abstract!Spec

\* "Restore original log levels" (src/src/file_protocol.cpp:49): the I/O tags
\* log at the application's level whenever no upload runs.
LogsRestored == ~transferActive => logLevel = "app"
=============================================================================
