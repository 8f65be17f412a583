----------------------- MODULE FileProtocolCardProofs ------------------------
(***************************************************************************)
(* What FileProtocol does to the card, for any names, bytes, payloads and  *)
(* sizes: no partial file stays, none surfaces under another name, the log *)
(* levels are restored, and the session implements AtomicUpload.  All rest *)
(* on the invariant of FileProtocolProofs; what each needs beside it is an *)
(* invariant of its own.                                                   *)
(***************************************************************************)
EXTENDS FileProtocolProofs

USE DataAssumption, NameAssumption, PathAssumption
    DEF Replies, Errors, Events, Commands

-----------------------------------------------------------------------------
(***************************************************************************)
(* Which names the helpers leave alone.                                    *)
(***************************************************************************)
LEMMA TempIsNoUser ==
    ASSUME IInv
    PROVE  transferTempPath \notin UserNames
  BY DEF IInv, TypeOK, UserNames

\* A write, a close or a restart cuts the partial file short and nothing else.
LEMMA CutShortSpares ==
    ASSUME IInv, NEW v, NEW fs \in CutShort(v), NEW n \in Names, n # transferTempPath
    PROVE  fs[n] = files[n]
<1>1. CASE fs = files
  BY <1>1
<1>2. CASE \E k \in 0 .. Len(v) : fs = [files EXCEPT ![transferTempPath] = SubSeq(v, 1, k)]
  BY <1>2 DEF IInv, TypeOK
<1>3. QED
  BY <1>1, <1>2 DEF CutShort

LEMMA UnsyncedSpares ==
    ASSUME IInv, NEW fs \in Unsynced, NEW n \in Names, transferFile => n # transferTempPath
    PROVE  fs[n] = files[n]
<1>1. CASE transferFile /\ fs = [files EXCEPT ![transferTempPath] = Absent]
  BY <1>1 DEF IInv, TypeOK
<1>2. CASE transferFile /\ fs \in CutShort(files[transferTempPath])
  BY <1>2, CutShortSpares
<1>3. QED
  BY <1>1, <1>2 DEF Unsynced

\* abort_active_transfer removes the partial file and nothing else.
LEMMA AbortSpares ==
    ASSUME IInv, NEW fs \in [Names -> Entry], AbortActiveTransfer(fs),
           NEW n \in Names, n # transferTempPath
    PROVE  files'[n] = fs[n]
  BY DEF AbortActiveTransfer, PartialRemoved

\* The search for partial uploads looks at the names that end in ".upload".
LEMMA CleanedSpares ==
    ASSUME NEW fs \in [Names -> Entry], NEW g \in Cleaned(fs), NEW n \in UserNames
    PROVE  g[n] = fs[n]
  BY DEF Cleaned, UserNames

-----------------------------------------------------------------------------
(***************************************************************************)
(* No partial file stays.  NoPartialLeft speaks of a card without an open  *)
(* upload; inductive is that every ".upload" file is the open one.         *)
(***************************************************************************)
PartialsAreOpen ==
    mounted /\ ~cleaning =>
        \A n \in UploadNames : IsFile(files[n]) => transferFile /\ n = transferTempPath

\* The end of a session, on a card that differs in no other ".upload" file,
\* removes the partial file of the upload it ends.
LEMMA AbortLeavesNone ==
    ASSUME "unlink" \notin Faults, IInv, PartialsAreOpen,
           NEW fs \in [Names -> Entry], ~transferFile => fs = files,
           \A n \in UploadNames : n # transferTempPath => fs[n] = files[n],
           AbortActiveTransfer(fs)
    PROVE  PartialsAreOpen'
<1> SUFFICES ASSUME mounted, ~cleaning, NEW n \in UploadNames
             PROVE  ~IsFile(files'[n])
  BY DEF PartialsAreOpen, AbortActiveTransfer
<1>1. CASE n # transferTempPath
  BY <1>1, AbortSpares DEF PartialsAreOpen
<1>2. CASE n = transferTempPath /\ transferFile
  <2>1. ~benchmarkMode
    BY <1>2 DEF IInv, SessionConsistent
  <2>2. \/ files' = [fs EXCEPT ![n] = Absent]
        \/ files' = fs /\ fs[n] \in {Absent, Directory}
    BY <1>2, <2>1 DEF AbortActiveTransfer, PartialRemoved
  <2>3. QED
    BY <2>2 DEF IsFile
<1>3. CASE n = transferTempPath /\ ~transferFile
  <2>1. ~IsFile(files[n]) /\ fs = files
    BY <1>3 DEF PartialsAreOpen
  <2>2. files' \in {fs, [fs EXCEPT ![n] = Absent]}
    BY <1>3 DEF AbortActiveTransfer, PartialRemoved
  <2>3. QED
    BY <2>1, <2>2 DEF IsFile
<1>4. QED
  BY <1>1, <1>2, <1>3

\* A step that leaves the session's file and the other ".upload" files alone.
LEMMA PartialsStay ==
    ASSUME PartialsAreOpen, UNCHANGED <<mounted, cleaning, transferFile>>,
           transferFile => transferTempPath' = transferTempPath,
           \A n \in UploadNames : n # transferTempPath \/ ~transferFile => files'[n] = files[n]
    PROVE  PartialsAreOpen'
  BY DEF PartialsAreOpen

\* A mount and a format end with the search for partial uploads.
LEMMA CleanedHasNone ==
    ASSUME "unlink" \notin Faults, NEW fs \in [Names -> Entry], NEW g \in Cleaned(fs),
           NEW n \in UploadNames
    PROVE  ~IsFile(g[n])
  BY DEF Cleaned, IsFile

LEMMA UploadLeavesNone ==
    ASSUME "unlink" \notin Faults, IInv, PartialsAreOpen, Upload PROVE PartialsAreOpen'
<1>1. files \in [Names -> Entry]
  BY DEF IInv, TypeOK
<1>2. ASSUME NEW e, Refuse(e) PROVE PartialsAreOpen'
  BY <1>2, PartialsStay DEF Refuse, cardVars, sessionVars
<1>3. ASSUME NEW fs \in [Names -> Entry], AbortActiveTransfer(fs), ~transferFile => fs = files,
             \A n \in UploadNames : n # transferTempPath => fs[n] = files[n]
      PROVE  PartialsAreOpen'
  BY <1>3, AbortLeavesNone
<1>4. ASSUME NEW p \in PutPaths, NEW n \in Totals, PutFileBegin(p, n) PROVE PartialsAreOpen'
  <2>1. CASE BeginTooLong(p, n) \/ BeginBenchmark(p, n) \/ BeginRefused(p, n)
    <3>1. ~transferFile
      BY <2>1, IdleNoStream DEF BeginTooLong, BeginBenchmark, BeginRefused
    <3>2. QED
      BY <2>1, <3>1, PartialsStay DEF BeginTooLong, BeginBenchmark, BeginRefused, cardVars
  <2>2. CASE BeginAccepted(p, n)
    <3>1. ~transferFile
      BY <2>2, IdleNoStream DEF BeginAccepted
    <3>2. /\ transferFile' /\ transferTempPath' = TempOf[p] /\ UNCHANGED <<mounted, cleaning>>
          /\ \A m \in UploadNames : m # TempOf[p] => files'[m] = files[m]
      BY <1>1, <2>2 DEF BeginAccepted
    <3>3. QED
      BY <3>1, <3>2 DEF PartialsAreOpen
  <2>3. QED
    BY <1>2, <1>4, <2>1, <2>2 DEF PutFileBegin
<1>5. ASSUME NEW payload \in Payloads, PutFileData(payload) PROVE PartialsAreOpen'
  <2>1. CASE Refuse("ERR_NO_TRANSFER")
    BY <1>2, <2>1
  <2>2. CASE AbortActiveTransfer(files)
    BY <1>1, <1>3, <2>2
  <2>3. ASSUME transferActive, ~benchmarkMode, transferFile,
               NEW fs \in CutShort(Written(files[transferTempPath], payload)),
               AbortActiveTransfer(fs)
        PROVE  PartialsAreOpen'
    <3>1. Written(files[transferTempPath], payload) \in Data \cup {Absent}
      BY <2>3, UploadOnCard DEF Written, Data
    <3>2. fs \in [Names -> Entry]
      BY <2>3, <3>1, UploadOnCard, CutShortIsCard DEF IInv
    <3>3. \A n \in UploadNames : n # transferTempPath => fs[n] = files[n]
      BY <2>3, CutShortSpares
    <3>4. QED
      BY <1>3, <2>3, <3>2, <3>3
  <2>4. CASE /\ files' = files \/ files' = [files EXCEPT ![transferTempPath] =
                                                Written(@, payload)]
             /\ files' # files => transferFile
             /\ UNCHANGED <<mounted, cleaning, transferFile, transferTempPath>>
    BY <1>1, <2>4, PartialsStay
  <2>5. QED
    BY <1>5, <2>1, <2>2, <2>3, <2>4 DEF PutFileData, cardVars
<1>6. CASE PutFileEnd
  <2>1. CASE Refuse("ERR_NO_TRANSFER")
    BY <1>2, <2>1
  <2>2. CASE EndFails(files)
    BY <1>1, <1>3, <2>2 DEF EndFails
  <2>3. CASE CommitBenchmark
    <3>1. ~transferFile /\ ~transferFile'
      BY <2>3 DEF CommitBenchmark, EndSession, IInv, SessionConsistent
    <3>2. QED
      BY <2>3, <3>1 DEF CommitBenchmark, EndSession, PartialsAreOpen
  <2>4. CASE transferActive /\ CloseFails
    <3>1. PICK fs \in CutShort(files[transferTempPath]) : AbortActiveTransfer(fs)
      BY <2>4 DEF CloseFails, EndFails
    <3>2. ~benchmarkMode /\ transferFile
      BY <2>4 DEF CloseFails, IInv, SessionConsistent
    <3>3. fs \in [Names -> Entry]
      BY <2>4, <3>2, UploadOnCard, CutShortIsCard DEF IInv
    <3>4. QED
      BY <1>3, <3>1, <3>2, <3>3, CutShortSpares
  <2>5. CASE TargetStays
    BY <1>1, <1>3, <2>5 DEF TargetStays, EndFails
  <2>6. CASE transferActive /\ RenameFails
    <3>1. transferFile /\ transferPath \in UserNames
      BY <2>6, UploadOnCard DEF RenameFails
    <3>2. TargetRemoved \in [Names -> Entry]
      BY <1>1 DEF TargetRemoved, Entry
    <3>3. \A n \in UploadNames : TargetRemoved[n] = files[n]
      BY <1>1, <3>1 DEF TargetRemoved, UserNames
    <3>4. QED
      BY <1>3, <2>6, <3>1, <3>2, <3>3 DEF RenameFails, EndFails
  <2>7. CASE transferActive /\ CommitUpload
    <3>1. transferFile /\ transferPath \in UserNames /\ transferTempPath \in UploadNames
      BY <2>7, UploadOnCard DEF CommitUpload
    <3>2. /\ files'[transferTempPath] = Absent
          /\ \A n \in UploadNames : n # transferTempPath => files'[n] = files[n]
      BY <1>1, <2>7, <3>1 DEF CommitUpload, TargetRemoved, UserNames
    <3>3. QED
      BY <2>7, <3>2 DEF CommitUpload, EndSession, PartialsAreOpen, IsFile
  <2>8. QED
    BY <1>6, <2>1, <2>2, <2>3, <2>4, <2>5, <2>6, <2>7 DEF PutFileEnd
<1>7. CASE PutFileAbort
  BY <1>1, <1>3, <1>7 DEF PutFileAbort
<1>8. QED
  BY <1>4, <1>5, <1>6, <1>7 DEF Upload

\* The commands beside an upload change no ".upload" file: a host has no other
\* way to one than PUT_FILE_BEGIN.
LEMMA CardCommandSparesPartials ==
    ASSUME IInv, CardCommand
    PROVE  \/ FormatFs
           \/ /\ UNCHANGED <<mounted, cleaning, transferFile, transferTempPath>>
              /\ \A n \in UploadNames : files'[n] = files[n]
<1>1. files \in [Names -> Entry]
  BY DEF IInv, TypeOK
<1>2. ASSUME NEW c, NEW e, Answers(c, e)
      PROVE  UNCHANGED <<files, mounted, cleaning, transferFile, transferTempPath>>
  BY <1>2 DEF Answers, Refuse, cardVars, sessionVars
<1>3. ASSUME NEW c, NEW e, NEW fs, CardChange(c, e, fs)
      PROVE  files' = fs /\ UNCHANGED <<mounted, cleaning, transferFile, transferTempPath>>
  BY <1>3 DEF CardChange, sessionVars
<1>4. \A n \in UserNames : n \notin UploadNames /\ n \in Names
  BY DEF UserNames
<1>5. ASSUME NEW n \in UserNames, GetFileBegin(n)
      PROVE  UNCHANGED <<files, mounted, cleaning, transferFile, transferTempPath>>
  BY <1>2, <1>5 DEF GetFileBegin, cardVars
<1>6. ASSUME NEW n \in UserNames, Delete(n) \/ Mkdir(n)
      PROVE  /\ \/ files' = files \/ files' = [files EXCEPT ![n] = Absent]
                \/ files' = [files EXCEPT ![n] = Directory]
             /\ UNCHANGED <<mounted, cleaning, transferFile, transferTempPath>>
  BY <1>2, <1>3, <1>6 DEF Delete, Mkdir
<1>7. ASSUME NEW a \in UserNames, NEW b \in UserNames, Rename(a, b)
      PROVE  /\ \A n \in UploadNames : files'[n] = files[n]
             /\ UNCHANGED <<mounted, cleaning, transferFile, transferTempPath>>
  <2>1. CASE \E e \in Replies : Answers("RENAME", e)
    BY <1>2, <2>1
  <2>2. ASSUME NEW fs \in {files, [files EXCEPT ![b] = Absent]},
               \/ \E e \in Replies : CardChange("RENAME", e, fs)
               \/ CardChange("RENAME", "ACK", [fs EXCEPT ![b] = fs[a], ![a] = Absent])
        PROVE  /\ \A n \in UploadNames : files'[n] = files[n]
               /\ UNCHANGED <<mounted, cleaning, transferFile, transferTempPath>>
    BY <1>1, <1>3, <1>4, <2>2
  <2>3. QED
    BY <1>7, <2>1, <2>2 DEF Rename
<1>8. ASSUME NEW a \in UserNames, NEW b \in UserNames, Copy(a, b)
      PROVE  /\ \A n \in UploadNames : files'[n] = files[n]
             /\ UNCHANGED <<mounted, cleaning, transferFile, transferTempPath>>
  <2>1. CASE Answers("COPY", "ERR_IO_ERROR")
    BY <1>2, <2>1
  <2>2. ASSUME NEW e, NEW data, CardChange("COPY", e, [files EXCEPT ![b] = data])
        PROVE  /\ \A n \in UploadNames : files'[n] = files[n]
               /\ UNCHANGED <<mounted, cleaning, transferFile, transferTempPath>>
    <3>1. files' = [files EXCEPT ![b] = data]
      BY <2>2 DEF CardChange
    <3>2. \A n \in UploadNames : n \in Names /\ n # b
      BY <1>4
    <3>3. QED
      BY <1>1, <2>2, <3>1, <3>2 DEF CardChange, sessionVars
  <2>3. QED
    BY <1>8, <2>1, <2>2 DEF Copy
<1>9. QED
  BY <1>1, <1>4, <1>5, <1>6, <1>7, <1>8 DEF CardCommand

LEMMA FormatLeavesNone ==
    ASSUME "unlink" \notin Faults, IInv, PartialsAreOpen, FormatFs PROVE PartialsAreOpen'
<1>1. files \in [Names -> Entry] /\ EmptyCard \in [Names -> Entry]
  BY DEF IInv, TypeOK, EmptyCard, Entry
<1>2. CASE \E e \in Replies : Answers("FORMAT_FS", e)
  BY <1>2, PartialsStay DEF Answers, Refuse, cardVars, sessionVars
<1>3. CASE CardChange("FORMAT_FS", "ACK", EmptyCard)
  BY <1>3 DEF CardChange, EmptyCard, PartialsAreOpen, IsFile
<1>4. ASSUME NEW fs \in {files, EmptyCard}, files' \in (IF mounted' THEN Cleaned(fs) ELSE {fs})
      PROVE  PartialsAreOpen'
  BY <1>1, <1>4, CleanedHasNone DEF PartialsAreOpen
<1>5. QED
  BY <1>2, <1>3, <1>4 DEF FormatFs

LEMMA RestLeavesNone ==
    ASSUME "unlink" \notin Faults, IInv, PartialsAreOpen, Session \/ Environment
    PROVE  PartialsAreOpen'
<1>1. files \in [Names -> Entry]
  BY DEF IInv, TypeOK
<1>2. CASE Hello \/ DeviceInfo
  <2>1. CASE AbortActiveTransfer(files)
    BY <1>1, <2>1, AbortLeavesNone
  <2>2. CASE UNCHANGED <<cardVars, sessionVars, logVars, received>>
    BY <2>2, PartialsStay DEF cardVars, sessionVars
  <2>3. QED
    BY <1>2, <2>1, <2>2 DEF Hello, DeviceInfo, AbortDangling
<1>3. CASE Malformed
  BY <1>3, PartialsStay DEF Malformed, Answers, Refuse, cardVars, sessionVars
<1>4. ASSUME NEW fs, Restart(fs) PROVE PartialsAreOpen'
  BY <1>4 DEF Restart, PartialsAreOpen
<1>5. CASE MountSd \/ CleanPartials
  BY <1>1, <1>5, CleanedHasNone DEF MountSd, CleanPartials, PartialsAreOpen
<1>6. QED
  BY <1>2, <1>3, <1>4, <1>5 DEF Session, Environment, Reboot, PowerLoss

\* Where unlink works, a card that is mounted and searched holds no partial file
\* but the one of the upload that runs.
THEOREM NoPartialStays ==
    ASSUME "unlink" \notin Faults
    PROVE  Spec => []NoPartialLeft
<1>1. Init => PartialsAreOpen
  BY DEF Init, PartialsAreOpen
<1>2. IInv /\ PartialsAreOpen /\ [Next]_vars => PartialsAreOpen'
  <2> SUFFICES ASSUME IInv, PartialsAreOpen, [Next]_vars PROVE PartialsAreOpen'
    OBVIOUS
  <2>1. CASE CardCommand
    BY <2>1, CardCommandSparesPartials, FormatLeavesNone, PartialsStay
  <2>2. CASE UNCHANGED vars
    BY <2>2, PartialsStay DEF vars, cardVars, sessionVars
  <2>3. QED
    BY <2>1, <2>2, UploadLeavesNone, RestLeavesNone DEF Next
<1>3. PartialsAreOpen => NoPartialLeft
  BY DEF PartialsAreOpen, NoPartialLeft
<1>4. QED
  BY <1>1, <1>2, <1>3, Invariance, PTL DEF Spec

-----------------------------------------------------------------------------
(***************************************************************************)
(* The log levels.  A benchmark does not suppress them but its end puts    *)
(* back the levels an earlier upload saved, so this is about a host that   *)
(* does not benchmark the link.                                            *)
(***************************************************************************)
LevelsSaved ==
    /\ ~benchmarkMode
    /\ ~transferActive => logLevel = "app"
    /\ transferActive => savedLogLevel = "app"

LEMMA LevelsKept ==
    ASSUME BenchmarkPaths = {}, LevelsSaved, [Next]_vars
    PROVE  LevelsSaved'
<1>1. ASSUME NEW fs, AbortActiveTransfer(fs) PROVE LevelsSaved'
  BY <1>1 DEF AbortActiveTransfer, RestoreLogs, LevelsSaved, logVars
<1>2. CASE UNCHANGED <<sessionVars, logVars>>
  BY <1>2 DEF sessionVars, logVars, LevelsSaved
<1>3. ASSUME NEW p \in PutPaths, NEW n \in Totals, PutFileBegin(p, n) PROVE LevelsSaved'
  BY <1>2, <1>3
     DEF PutFileBegin, BeginTooLong, BeginBenchmark, BeginRefused, BeginAccepted, Refuse,
         SuppressLogs, Idle, LevelsSaved, logVars
<1>4. ASSUME NEW payload \in Payloads, PutFileData(payload) PROVE LevelsSaved'
  BY <1>1, <1>2, <1>4 DEF PutFileData, Refuse, LevelsSaved, logVars
<1>5. CASE PutFileEnd
  <2>1. CASE EndSession /\ RestoreLogs /\ transferActive
    BY <2>1 DEF EndSession, RestoreLogs, LevelsSaved
  <2>2. CASE \E fs : EndFails(fs)
    BY <1>1, <2>2 DEF EndFails
  <2>3. QED
    BY <1>2, <1>5, <2>1, <2>2
       DEF PutFileEnd, Refuse, CommitBenchmark, CloseFails, TargetStays, RenameFails,
           CommitUpload
<1>6. CASE PutFileAbort
  BY <1>1, <1>6 DEF PutFileAbort
<1>7. ASSUME NEW fs, Restart(fs) PROVE LevelsSaved'
  BY <1>7 DEF Restart, FreshObject, LevelsSaved
<1>8. CASE Session
  BY <1>1, <1>2, <1>7, <1>8
     DEF Session, Hello, DeviceInfo, AbortDangling, Reboot, Malformed, Answers, Refuse
<1>9. CASE CardCommand
  <2>1. ASSUME NEW n \in UserNames, GetFileBegin(n) PROVE LevelsSaved'
    BY <1>2, <2>1 DEF GetFileBegin, Answers, Refuse, LevelsSaved, logVars
  <2>2. ASSUME NEW n \in UserNames, Delete(n) \/ Mkdir(n) PROVE LevelsSaved'
    BY <1>2, <2>2 DEF Delete, Mkdir, Answers, Refuse, CardChange
  <2>3. ASSUME NEW a \in UserNames, NEW b \in UserNames, Rename(a, b) \/ Copy(a, b)
        PROVE  LevelsSaved'
    BY <1>2, <2>3 DEF Rename, Copy, Answers, Refuse, CardChange
  <2>4. CASE FormatFs
    BY <1>2, <2>4 DEF FormatFs, Answers, Refuse, CardChange
  <2>5. QED
    BY <1>9, <2>1, <2>2, <2>3, <2>4 DEF CardCommand
<1>10. CASE Environment
  BY <1>2, <1>7, <1>10 DEF Environment, MountSd, CleanPartials, PowerLoss
<1>11. CASE UNCHANGED vars
  BY <1>2, <1>11 DEF vars
<1>12. QED
  BY <1>3, <1>4, <1>5, <1>6, <1>8, <1>9, <1>10, <1>11 DEF Next, Upload

\* Without benchmarks, the I/O tags log at the application's level whenever no
\* upload runs, however the uploads before have ended.
THEOREM LevelsRestored ==
    ASSUME BenchmarkPaths = {}
    PROVE  Spec => []LogsRestored
<1>1. Init => LevelsSaved
  BY DEF Init, LevelsSaved
<1>2. LevelsSaved /\ [Next]_vars => LevelsSaved'
  BY LevelsKept
<1>3. LevelsSaved => LogsRestored
  BY DEF LevelsSaved, LogsRestored
<1>4. QED
  BY <1>1, <1>2, <1>3, PTL DEF Spec

-----------------------------------------------------------------------------
(***************************************************************************)
(* What can appear under a name that a host sees.                          *)
(***************************************************************************)
\* The name takes content it did not hold, and it is content it may take.
WholeUpload(n) ==
    /\ transferFile /\ n = transferPath
    /\ files'[n] = received /\ Len(received) = transferTotal

RenamedFile(n) == handled' = "RENAME" /\ \E m \in UserNames : files[m] = files'[n]

CopiedFile(n) ==
    /\ handled' \in {"COPY", "power_loss"}
    /\ \E m \in UserNames :
          /\ IsFile(files[m])
          /\ Len(files'[n]) <= Len(files[m])
          /\ files'[n] = SubSeq(files[m], 1, Len(files'[n]))

Surfaces(n) ==
    IsFile(files'[n]) /\ files'[n] # files[n] =>
        WholeUpload(n) \/ RenamedFile(n) \/ CopiedFile(n)

\* A prefix is the prefix of its own length.
LEMMA PrefixOfItsLength ==
    ASSUME NEW s \in Data, NEW k \in 0 .. Len(s)
    PROVE  /\ Len(SubSeq(s, 1, k)) = k /\ Len(s) \in Nat
           /\ SubSeq(s, 1, k) = SubSeq(s, 1, Len(SubSeq(s, 1, k)))
<1>1. s \in Seq(Bytes) /\ Len(s) \in Nat /\ k \in Nat
  BY DEF Data
<1>2. Len(SubSeq(s, 1, k)) = k
  BY <1>1, SubSeqProperties
<1>3. QED
  BY <1>1, <1>2

LEMMA WholeIsPrefix ==
    ASSUME NEW s \in Data
    PROVE  s = SubSeq(s, 1, Len(s)) /\ Len(s) \in Nat
  BY SubSeqFull, LenProperties DEF Data

\* A session that ends does not show at a user's name what was not there.
LEMMA AbortSurfacesNothing ==
    ASSUME IInv, NEW n \in UserNames, NEW fs \in [Names -> Entry],
           AbortActiveTransfer(fs), fs[n] \in {files[n], Absent}
    PROVE  files'[n] \in {files[n], Absent}
  BY AbortSpares, TempIsNoUser DEF UserNames

\* An upload leaves a user's name as it was, or removes what it held, or its
\* last command puts the whole there.
Uploads(n) ==
    files'[n] \in {files[n], Absent} \/ (handled' = "PUT_FILE_END" /\ WholeUpload(n))

LEMMA UploadSurfacesWhole ==
    ASSUME IInv, NEW n \in UserNames, Upload
    PROVE  Uploads(n) /\ Surfaces(n)
<1> SUFFICES Uploads(n)
  BY DEF Uploads, Surfaces, IsFile
<1>1. files \in [Names -> Entry] /\ n \in Names /\ n \notin UploadNames /\ n # transferTempPath
  BY TempIsNoUser DEF IInv, TypeOK, UserNames
<1>2. CASE files'[n] = files[n]
  BY <1>2 DEF Uploads
<1>3. ASSUME NEW e, Refuse(e) PROVE Uploads(n)
  BY <1>2, <1>3 DEF Refuse, cardVars
<1>4. CASE AbortActiveTransfer(files)
  BY <1>1, <1>4, AbortSurfacesNothing DEF Uploads
<1>5. ASSUME transferActive, ~benchmarkMode,
             NEW v \in Data \cup {Absent}, NEW fs \in CutShort(v), AbortActiveTransfer(fs)
      PROVE  Uploads(n)
  BY <1>1, <1>5, UploadOnCard, CutShortIsCard, CutShortSpares, AbortSurfacesNothing DEF Uploads, IInv
<1>6. ASSUME NEW p \in PutPaths, NEW t \in Totals, PutFileBegin(p, t) PROVE Uploads(n)
  <2>1. CASE BeginAccepted(p, t)
    BY <1>1, <1>2, <2>1 DEF BeginAccepted
  <2>2. QED
    BY <1>2, <1>3, <1>6, <2>1
       DEF PutFileBegin, BeginTooLong, BeginBenchmark, BeginRefused, cardVars
<1>7. ASSUME NEW payload \in Payloads, PutFileData(payload) PROVE Uploads(n)
  <2>1. CASE UNCHANGED files \/ files' = [files EXCEPT ![transferTempPath] = Written(@, payload)]
    BY <1>1, <1>2, <2>1
  <2>2. CASE /\ transferActive /\ ~benchmarkMode
             /\ \E fs \in CutShort(Written(files[transferTempPath], payload)) :
                   AbortActiveTransfer(fs)
    <3>1. Written(files[transferTempPath], payload) \in Data \cup {Absent}
      BY <2>2, UploadOnCard DEF Written, Data
    <3>2. QED
      BY <1>5, <2>2, <3>1
  <2>3. QED
    BY <1>3, <1>4, <1>7, <2>1, <2>2 DEF PutFileData, cardVars
<1>8. CASE PutFileEnd
  <2>1. CASE CommitBenchmark
    BY <1>2, <2>1 DEF CommitBenchmark
  <2>2. CASE transferActive /\ CloseFails
    <3>1. ~benchmarkMode /\ files[transferTempPath] \in Data \cup {Absent}
      BY <2>2, UploadOnCard DEF CloseFails, IInv, SessionConsistent
    <3>2. QED
      BY <1>5, <2>2, <3>1 DEF CloseFails, EndFails
  <2>3. CASE transferActive /\ RenameFails
    <3>1. TargetRemoved \in [Names -> Entry] /\ TargetRemoved[n] \in {files[n], Absent}
      BY <1>1 DEF TargetRemoved, Entry
    <3>2. QED
      BY <2>3, <3>1, AbortSurfacesNothing DEF Uploads, RenameFails, EndFails
  <2>4. CASE transferActive /\ UploadComplete /\ CommitUpload
    <3>1. transferFile /\ files[transferTempPath] = received /\ Len(received) = transferTotal
      BY <2>4, UploadOnCard DEF CommitUpload, UploadComplete, IInv, SessionConsistent
    <3>2. files'[n] = IF n = transferPath THEN received ELSE files[n]
      BY <1>1, <2>4, <3>1 DEF CommitUpload, TargetRemoved
    <3>3. handled' = "PUT_FILE_END"
      BY <1>8 DEF PutFileEnd, Handles
    <3>4. QED
      BY <3>1, <3>2, <3>3 DEF Uploads, WholeUpload
  <2>5. QED
    BY <1>3, <1>4, <1>8, <2>1, <2>2, <2>3, <2>4 DEF PutFileEnd, TargetStays, EndFails
<1>9. CASE PutFileAbort
  BY <1>4, <1>9 DEF PutFileAbort
<1>10. QED
  BY <1>6, <1>7, <1>8, <1>9 DEF Upload

LEMMA CardCommandSurfaces ==
    ASSUME IInv, NEW n \in UserNames, CardCommand
    PROVE  Surfaces(n)
<1>1. files \in [Names -> Entry] /\ UserNames \subseteq Names
  BY DEF IInv, TypeOK, UserNames
<1>2. CASE files'[n] \in {files[n], Absent, Directory}
  BY <1>2 DEF Surfaces, IsFile
<1>3. ASSUME NEW c, NEW e, Answers(c, e) PROVE Surfaces(n)
  BY <1>2, <1>3 DEF Answers, Refuse, cardVars
<1>4. ASSUME NEW m \in UserNames, GetFileBegin(m) PROVE Surfaces(n)
  BY <1>2, <1>3, <1>4 DEF GetFileBegin, cardVars
<1>5. ASSUME NEW m \in UserNames, Delete(m) \/ Mkdir(m) PROVE Surfaces(n)
  BY <1>1, <1>2, <1>3, <1>5 DEF Delete, Mkdir, CardChange
<1>6. ASSUME NEW a \in UserNames, NEW b \in UserNames, Rename(a, b) PROVE Surfaces(n)
  <2>1. ASSUME NEW e, NEW fs \in {files, [files EXCEPT ![b] = Absent]},
               CardChange("RENAME", e, fs)
        PROVE  Surfaces(n)
    BY <1>1, <1>2, <2>1 DEF CardChange
  <2>2. ASSUME NEW fs \in {files, [files EXCEPT ![b] = Absent]}, fs[a] # Absent,
               CardChange("RENAME", "ACK", [fs EXCEPT ![b] = fs[a], ![a] = Absent])
        PROVE  Surfaces(n)
    <3>1. fs[a] = files[a] /\ fs[n] \in {files[n], Absent}
      BY <1>1, <2>2
    <3>2. /\ files' = [fs EXCEPT ![b] = fs[a], ![a] = Absent] /\ handled' = "RENAME"
          /\ fs \in [Names -> Entry]
      BY <1>1, <2>2 DEF CardChange, Handles, Entry
    <3>3. files'[n] \in {files[n], Absent, files[a]}
      BY <1>1, <3>1, <3>2
    <3>4. QED
      BY <1>2, <3>2, <3>3 DEF Surfaces, RenamedFile
  <2>3. CASE \E e : Answers("RENAME", e)
    BY <1>3, <2>3
  <2>4. CASE \E fs \in {files, [files EXCEPT ![b] = Absent]} :
               \/ CardChange("RENAME", "ERR_IO_ERROR", fs)
               \/ /\ fs[a] # Absent
                  /\ CardChange("RENAME", "ACK", [fs EXCEPT ![b] = fs[a], ![a] = Absent])
    BY ZenonT(60), <2>1, <2>2, <2>4
  <2>5. QED
    BY <1>6, <2>3, <2>4 DEF Rename
<1>7. ASSUME NEW a \in UserNames, NEW b \in UserNames, Copy(a, b) PROVE Surfaces(n)
  <2>1. ASSUME IsFile(files[a]), NEW data \in Copies(a, b),
               CardChange("COPY", "ACK", [files EXCEPT ![b] = data])
        PROVE  Surfaces(n)
    <3>1. files[a] \in Data
      BY <1>1, <2>1 DEF IsFile, Entry
    <3>2. Len(data) <= Len(files[a]) /\ data = SubSeq(files[a], 1, Len(data))
      <4>1. CASE data = files[a]
        BY <3>1, <4>1, WholeIsPrefix
      <4>2. ASSUME NEW k \in 0 .. Len(files[a]), data = SubSeq(files[a], 1, k)
            PROVE  Len(data) <= Len(files[a]) /\ data = SubSeq(files[a], 1, Len(data))
        BY <3>1, <4>2, PrefixOfItsLength
      <4>3. QED
        BY <2>1, <4>1, <4>2 DEF Copies
    <3>3. files'[n] \in {files[n], data} /\ handled' = "COPY"
      BY <1>1, <2>1 DEF CardChange, Handles
    <3>4. QED
      BY <1>2, <2>1, <3>2, <3>3 DEF Surfaces, CopiedFile
  <2>2. CASE CardChange("COPY", "ERR_IO_ERROR", [files EXCEPT ![b] = Absent])
    BY <1>1, <1>2, <2>2 DEF CardChange
  <2>3. QED
    BY <1>3, <1>7, <2>1, <2>2 DEF Copy
<1>8. CASE FormatFs
  <2>1. EmptyCard \in [Names -> Entry] /\ EmptyCard[n] = Absent
    BY <1>1 DEF EmptyCard, Entry
  <2>2. CASE CardChange("FORMAT_FS", "ACK", EmptyCard)
    BY <1>2, <2>1, <2>2 DEF CardChange
  <2>3. ASSUME NEW fs \in {files, EmptyCard}, files' \in (IF mounted' THEN Cleaned(fs) ELSE {fs})
        PROVE  Surfaces(n)
    BY <1>1, <1>2, <2>1, <2>3, CleanedSpares
  <2>4. QED
    BY <1>3, <1>8, <2>2, <2>3 DEF FormatFs
<1>9. QED
  BY <1>4, <1>5, <1>6, <1>7, <1>8 DEF CardCommand

LEMMA PowerLossSurfaces ==
    ASSUME IInv, NEW n \in UserNames, PowerLoss
    PROVE  Surfaces(n)
<1>1. files \in [Names -> Entry] /\ UserNames \subseteq Names /\ n # transferTempPath
  BY TempIsNoUser DEF IInv, TypeOK, UserNames
<1>2. CASE files'[n] \in {files[n], Absent}
  BY <1>2 DEF Surfaces, IsFile
<1>3. ASSUME NEW fs \in Unsynced, Restart(fs) PROVE Surfaces(n)
  BY <1>1, <1>2, <1>3, UnsyncedSpares DEF Restart
<1>4. ASSUME NEW fs \in InCommit \cup InRename, Restart(fs) PROVE Surfaces(n)
  <2>1. fs[n] \in {files[n], Absent}
    BY <1>1, <1>4 DEF InCommit, InRename, TargetRemoved
  <2>2. QED
    BY <1>2, <1>4, <2>1 DEF Restart
<1>5. ASSUME NEW g \in InCopy, Restart(g) PROVE Surfaces(n)
  <2>1. PICK a \in UserNames :
           /\ IsFile(files[a])
           /\ \E fs \in Unsynced, k \in 0 .. Len(files[a]), b \in UserNames :
                 g = [fs EXCEPT ![b] = SubSeq(files[a], 1, k)]
    BY DEF InCopy
  <2>2. PICK fs \in Unsynced, k \in 0 .. Len(files[a]), b \in UserNames :
           g = [fs EXCEPT ![b] = SubSeq(files[a], 1, k)]
    BY <2>1
  <2>3. files[a] \in Data
    BY <1>1, <2>1 DEF IsFile, Entry
  <2>4. fs \in [Names -> Entry] /\ fs[n] = files[n]
    BY <1>1, UnsyncedIsCard, UnsyncedSpares
  <2>5. files'[n] \in {files[n], SubSeq(files[a], 1, k)}
    BY <1>1, <1>5, <2>2, <2>4 DEF Restart
  <2>6. k <= Len(files[a]) /\ Len(SubSeq(files[a], 1, k)) = k
    BY <2>3, PrefixOfItsLength
  <2>7. QED
    BY <1>2, <2>1, <2>5, <2>6 DEF PowerLoss, Surfaces, CopiedFile
<1>6. QED
  BY <1>3, <1>4, <1>5 DEF PowerLoss

\* Whatever fails, and whenever the power goes: a name without the suffix takes
\* an upload only whole and at its own name; all else that appears there is
\* renamed from, or copied from, another such name.
THEOREM UploadsSurfaceWhole == Spec => OnlyWholeUploadsSurface
<1>1. ASSUME IInv, Next, NEW n \in UserNames PROVE Surfaces(n)
  <2>1. files \in [Names -> Entry] /\ n \in Names
    BY <1>1 DEF IInv, TypeOK, UserNames
  <2>2. CASE files'[n] \in {files[n], Absent}
    BY <2>2 DEF Surfaces, IsFile
  <2>3. CASE Hello \/ DeviceInfo
    BY <2>1, <2>2, <2>3, <1>1, AbortSurfacesNothing DEF Hello, DeviceInfo, AbortDangling, cardVars
  <2>4. CASE Malformed
    BY <2>2, <2>4 DEF Malformed, Answers, Refuse, cardVars
  <2>5. CASE Reboot
    BY <1>1, <2>1, <2>2, <2>5, UnsyncedSpares, TempIsNoUser DEF Reboot, Restart
  <2>6. CASE MountSd \/ CleanPartials
    BY <2>1, <2>2, <2>6, CleanedSpares DEF MountSd, CleanPartials
  <2>7. QED
    BY <1>1, <2>3, <2>4, <2>5, <2>6, UploadSurfacesWhole, CardCommandSurfaces, PowerLossSurfaces
       DEF Next, Session, Environment
<1>2. IInv /\ [Next]_vars => [\A n \in UserNames : Surfaces(n)]_vars
  BY <1>1
<1>3. [\A n \in UserNames : Surfaces(n)]_vars =>
         [\A n \in UserNames :
             IsFile(files'[n]) /\ files'[n] # files[n] =>
                \/ /\ transferFile /\ n = transferPath
                   /\ files'[n] = received /\ Len(received) = transferTotal
                \/ handled' = "RENAME" /\ \E m \in UserNames : files[m] = files'[n]
                \/ /\ handled' \in {"COPY", "power_loss"}
                   /\ \E m \in UserNames :
                         /\ IsFile(files[m])
                         /\ Len(files'[n]) <= Len(files[m])
                         /\ files'[n] = SubSeq(files[m], 1, Len(files'[n]))]_vars
  BY DEF Surfaces, WholeUpload, RenamedFile, CopiedFile
<1>4. QED
  BY <1>2, <1>3, Invariance, PTL DEF Spec, OnlyWholeUploadsSurface

-----------------------------------------------------------------------------
(***************************************************************************)
(* The session implements AtomicUpload: the initial state is one of its,   *)
(* and every step is one of its steps or changes nothing there.            *)
(***************************************************************************)
\* The faults that the abstract specification has no step for: a rename that
\* fails and a power loss in a command, which leave a name removed and not
\* replaced, and a mount beside an upload, which may remove its partial file.
Calm == Faults \cap {"rename", "power_in_command", "app_mount"} = {}

AbstractStep == [Abstract!Next]_(Abstract!avars)

UsersKept == \A n \in UserNames : files'[n] = files[n]

LEMMA StoreTyped ==
    ASSUME TypeOK
    PROVE  [n \in UserNames |-> files[n]] \in
               [UserNames -> Seq(Bytes) \cup {Absent, Directory}]
  BY DEF TypeOK, UserNames, Entry, Data

\* The upload that runs is the one that the session's variables describe, and
\* its data is what the host has sent.
LEMMA UploadIs ==
    ASSUME Calm, IInv
    PROVE  /\ Abstract!Running <=> transferFile
           /\ transferFile =>
                 /\ UploadInProgress = [path |-> transferPath, total |-> transferTotal,
                                        data |-> received]
                 /\ transferPath \in UserNames /\ transferTotal \in Nat
                 /\ received \in Seq(Bytes) /\ Len(received) <= transferTotal
           /\ ~transferFile => UploadInProgress = NoPath
<1>1. CASE transferFile
  <2>1. files[transferTempPath] = received
    BY <1>1 DEF Calm, IInv, PartialFile
  <2>2. /\ transferPath \in Names /\ transferPath \in UserNames /\ transferTotal \in Nat
        /\ received \in Seq(Bytes) /\ Len(received) <= transferTotal
    BY <1>1 DEF IInv, TypeOK, SessionConsistent, UserNames, Data
  <2>3. UploadInProgress = [path |-> transferPath, total |-> transferTotal, data |-> received]
    BY <1>1, <2>1 DEF UploadInProgress
  <2>4. UploadInProgress \in [path : Names, total : Nat, data : Seq(Bytes)]
    BY <2>2, <2>3
  <2>5. QED
    BY <1>1, <2>2, <2>3, <2>4 DEF Abstract!Running
<1>2. CASE ~transferFile
  BY <1>2 DEF UploadInProgress, Abstract!Running
<1>3. QED
  BY <1>1, <1>2

\* What is appended leaves what was there as a prefix.
LEMMA AppendedPrefix ==
    ASSUME NEW s \in Seq(Bytes), NEW t \in Seq(Bytes), Len(t) > 0
    PROVE  Len(s \o t) > Len(s) /\ SubSeq(s \o t, 1, Len(s)) = s
  BY SubSeqOfConcat1, SubSeqFull, ConcatProperties, LenProperties

\* A step that shows neither at a user's name nor in the upload.
LEMMA Stutters ==
    ASSUME Calm, IInv, IInv', UsersKept, UNCHANGED transferFile,
           transferFile => UNCHANGED <<transferPath, transferTotal, received>>
    PROVE  AbstractStep
<1>1. UNCHANGED [n \in UserNames |-> files[n]]
  BY DEF UsersKept
<1>2. UNCHANGED UploadInProgress
  <2>1. CASE transferFile
    <3>1. /\ files[transferTempPath] = received
          /\ files'[transferTempPath'] = received'
      BY <2>1 DEF Calm, IInv, PartialFile
    <3>2. QED
      BY <2>1, <3>1 DEF UploadInProgress
  <2>2. CASE ~transferFile
    BY <2>2 DEF UploadInProgress
  <2>3. QED
    BY <2>1, <2>2
<1>3. QED
  BY <1>1, <1>2 DEF AbstractStep, Abstract!avars

\* The session is over, and no user's name has changed.
LEMMA Cancels ==
    ASSUME Calm, IInv, IInv', UsersKept, ~transferFile'
    PROVE  AbstractStep
<1>1. CASE ~transferFile
  <2>1. UNCHANGED transferFile
    BY <1>1 DEF IInv, TypeOK
  <2>2. QED
    BY <1>1, <2>1, Stutters
<1>2. CASE transferFile
  <2>1. UNCHANGED [n \in UserNames |-> files[n]]
    BY DEF UsersKept
  <2>2. Abstract!Running /\ UploadInProgress' = NoPath
    BY <1>2, UploadIs DEF UploadInProgress
  <2>3. Abstract!Cancel
    BY <2>1, <2>2 DEF Abstract!Cancel
  <2>4. QED
    BY <2>3 DEF AbstractStep, Abstract!Next
<1>3. QED
  BY <1>1, <1>2

LEMMA BeginRefines ==
    ASSUME Calm, IInv, IInv', NEW p \in PutPaths, NEW t \in Totals, PutFileBegin(p, t)
    PROVE  AbstractStep
<1>1. CASE Refuse("ERR_TRANSFER_ACTIVE")
  BY <1>1, Stutters DEF Refuse, cardVars, sessionVars, UsersKept
<1>2. CASE BeginTooLong(p, t) \/ BeginBenchmark(p, t) \/ BeginRefused(p, t)
  <2>1. ~transferFile /\ UNCHANGED <<files, transferFile>>
    BY <1>2, IdleNoStream DEF BeginTooLong, BeginBenchmark, BeginRefused, cardVars
  <2>2. QED
    BY <2>1, Stutters DEF UsersKept
<1>3. CASE BeginAccepted(p, t)
  <2>1. ~transferFile /\ transferFile' /\ received' = <<>> /\ TempOf[p] \in UploadNames
    BY <1>3, IdleNoStream DEF BeginAccepted
  <2>2. UNCHANGED [n \in UserNames |-> files[n]]
    BY <1>3, <2>1 DEF BeginAccepted, IInv, TypeOK, UserNames
  <2>3. UploadInProgress' = [path |-> transferPath', total |-> transferTotal', data |-> <<>>]
    BY <2>1 DEF Calm, IInv, PartialFile, UploadInProgress
  <2>4. transferPath' \in UserNames /\ transferTotal' \in Nat
    BY <2>1 DEF IInv, TypeOK, SessionConsistent
  <2>5. ~Abstract!Running
    BY <2>1, UploadIs
  <2>6. Abstract!Begin
    BY <2>2, <2>3, <2>4, <2>5 DEF Abstract!Begin
  <2>7. QED
    BY <2>6 DEF AbstractStep, Abstract!Next
<1>4. QED
  BY <1>1, <1>2, <1>3 DEF PutFileBegin

LEMMA DataRefines ==
    ASSUME Calm, IInv, IInv', NEW payload \in Payloads, PutFileData(payload)
    PROVE  AbstractStep
<1>1. files \in [Names -> Entry] /\ \A n \in UserNames : n \in Names /\ n # transferTempPath
  BY TempIsNoUser DEF IInv, TypeOK, UserNames
<1>2. CASE Refuse("ERR_NO_TRANSFER")
  BY <1>2, Stutters DEF Refuse, cardVars, sessionVars, UsersKept
<1>3. CASE AbortActiveTransfer(files)
  <2>1. ~transferFile' /\ UsersKept
    BY <1>1, <1>3, AbortSpares DEF AbortActiveTransfer, UsersKept
  <2>2. QED
    BY <2>1, Cancels
<1>4. CASE /\ transferActive /\ ~benchmarkMode
           /\ \E fs \in CutShort(Written(files[transferTempPath], payload)) :
                 AbortActiveTransfer(fs)
  <2>1. Written(files[transferTempPath], payload) \in Data \cup {Absent}
    BY <1>4, UploadOnCard DEF Written, Data
  <2>2. PICK fs \in CutShort(Written(files[transferTempPath], payload)) :
           AbortActiveTransfer(fs)
    BY <1>4
  <2>3. fs \in [Names -> Entry]
    BY <1>4, <2>1, UploadOnCard, CutShortIsCard DEF IInv
  <2>4. UsersKept
    BY <1>1, <2>2, <2>3, CutShortSpares, AbortSpares DEF UsersKept
  <2>5. QED
    BY <2>2, <2>4, Cancels DEF AbortActiveTransfer
<1>5. CASE transferActive /\ benchmarkMode /\ UNCHANGED <<cardVars, transferFile>>
  <2>1. ~transferFile
    BY <1>5 DEF IInv, SessionConsistent
  <2>2. QED
    BY <1>5, <2>1, Stutters DEF UsersKept, cardVars
<1>6. CASE /\ transferFile /\ received' = received \o payload
           /\ files' = [files EXCEPT ![transferTempPath] = Written(@, payload)]
           /\ UNCHANGED <<transferFile, transferTotal, transferPath>>
  <2>1. UNCHANGED [n \in UserNames |-> files[n]]
    BY <1>1, <1>6
  <2>2. /\ UploadInProgress = [path |-> transferPath, total |-> transferTotal,
                               data |-> received]
        /\ received \in Seq(Bytes) /\ Abstract!Running
    BY <1>6, UploadIs
  <2>3. /\ UploadInProgress' = [path |-> transferPath, total |-> transferTotal,
                                data |-> received']
        /\ Len(received') <= transferTotal /\ UploadInProgress' # NoPath
    <3>1. /\ files'[transferTempPath'] = received'
          /\ transferPath \in Names /\ transferTotal' \in Nat /\ received' \in Seq(Bytes)
          /\ Len(received') <= transferTotal'
      BY <1>6 DEF Calm, IInv, TypeOK, PartialFile, SessionConsistent, UserNames, Data
    <3>2. UploadInProgress' = [path |-> transferPath, total |-> transferTotal,
                               data |-> received']
      BY <1>6, <3>1 DEF UploadInProgress
    <3>3. UploadInProgress' \in [path : Names, total : Nat, data : Seq(Bytes)]
      BY <1>6, <3>1, <3>2
    <3>4. QED
      BY <1>6, <3>1, <3>2, <3>3
  <2>4. payload \in Seq(Bytes) /\ Len(payload) > 0
    <3>1. payload \in Seq(Bytes) /\ payload # <<>>
      OBVIOUS
    <3>2. QED
      BY <3>1, EmptySeq
  <2>5. Len(received') > Len(received) /\ SubSeq(received', 1, Len(received)) = received
    BY <1>6, <2>2, <2>4, AppendedPrefix
  <2>6. Abstract!Receive
    BY <2>1, <2>2, <2>3, <2>5 DEF Abstract!Receive
  <2>7. QED
    BY <2>6 DEF AbstractStep, Abstract!Next
<1>7. QED
  BY <1>2, <1>3, <1>4, <1>5, <1>6 DEF PutFileData

\* An upload that is not acknowledged leaves what its target held.
LEMMA EndRefines == ASSUME Calm, IInv, IInv', PutFileEnd PROVE AbstractStep
<1>1. files \in [Names -> Entry] /\ \A n \in UserNames : n \in Names /\ n # transferTempPath
  BY TempIsNoUser DEF IInv, TypeOK, UserNames
<1>2. CASE Refuse("ERR_NO_TRANSFER")
  BY <1>2, Stutters DEF Refuse, cardVars, sessionVars, UsersKept
<1>3. ASSUME NEW fs \in [Names -> Entry], AbortActiveTransfer(fs),
             \A n \in UserNames : fs[n] = files[n]
      PROVE  AbstractStep
  <2>1. ~transferFile' /\ UsersKept
    BY <1>1, <1>3, AbortSpares DEF AbortActiveTransfer, UsersKept
  <2>2. QED
    BY <2>1, Cancels
<1>4. CASE EndFails(files)
  BY <1>1, <1>3, <1>4 DEF EndFails
<1>5. CASE CommitBenchmark
  <2>1. ~transferFile' /\ UsersKept
    BY <1>5 DEF CommitBenchmark, EndSession, UsersKept
  <2>2. QED
    BY <2>1, Cancels
<1>6. CASE transferActive /\ CloseFails
  <2>1. PICK fs \in CutShort(files[transferTempPath]) : AbortActiveTransfer(fs)
    BY <1>6 DEF CloseFails, EndFails
  <2>2. ~benchmarkMode
    BY <1>6 DEF CloseFails, IInv, SessionConsistent
  <2>3. fs \in [Names -> Entry]
    BY <1>6, <2>2, UploadOnCard, CutShortIsCard DEF IInv
  <2>4. QED
    BY <1>1, <1>3, <2>1, <2>3, CutShortSpares
<1>7. CASE TargetStays
  BY <1>1, <1>3, <1>7 DEF TargetStays, EndFails
<1>8. ASSUME transferActive, RenameFails PROVE FALSE
  <2>1. transferFile /\ files[transferTempPath] = Absent
    BY <1>8, UploadOnCard DEF RenameFails, Calm
  <2>2. received \in Seq(Bytes) /\ files[transferTempPath] = received
    BY <2>1 DEF Calm, IInv, TypeOK, PartialFile, Data
  <2>3. QED
    BY <2>1, <2>2
<1>9. CASE transferActive /\ UploadComplete /\ CommitUpload
  <2>1. /\ transferFile /\ files[transferTempPath] = received
        /\ Len(received) = transferTotal
    BY <1>9, UploadOnCard DEF CommitUpload, UploadComplete, IInv, SessionConsistent
  <2>2. /\ Abstract!Running
        /\ UploadInProgress = [path |-> transferPath, total |-> transferTotal,
                               data |-> received]
    BY <2>1, UploadIs
  <2>3. \A n \in UserNames : files'[n] = IF n = transferPath THEN received ELSE files[n]
    BY <1>1, <1>9, <2>1 DEF CommitUpload, TargetRemoved
  <2>4. [n \in UserNames |-> files[n]]' =
            [[n \in UserNames |-> files[n]] EXCEPT ![transferPath] = received]
    BY <2>3
  <2>5. UploadInProgress' = NoPath
    BY <1>9 DEF CommitUpload, EndSession, UploadInProgress
  <2>6. Abstract!Commit
    BY <2>1, <2>2, <2>4, <2>5 DEF Abstract!Commit
  <2>7. QED
    BY <2>6 DEF AbstractStep, Abstract!Next
<1>10. QED
  BY <1>2, <1>4, <1>5, <1>6, <1>7, <1>8, <1>9 DEF PutFileEnd

\* COPY changes its destination, also beside an upload; the other commands wait
\* until none runs.
LEMMA CardCommandRefines ==
    ASSUME Calm, IInv, IInv', CardCommand
    PROVE  AbstractStep
<1>1. files \in [Names -> Entry] /\ UserNames \subseteq Names
  BY DEF IInv, TypeOK, UserNames
<1>2. ASSUME NEW c, NEW e, Answers(c, e) PROVE AbstractStep
  BY <1>2, Stutters DEF Answers, Refuse, cardVars, sessionVars, UsersKept
<1>3. ASSUME Idle, UNCHANGED transferFile PROVE AbstractStep
  <2>1. ~transferFile /\ ~transferFile'
    BY <1>3, IdleNoStream
  <2>2. ~Abstract!Running /\ UNCHANGED UploadInProgress
    BY <2>1, UploadIs DEF UploadInProgress
  <2>3. [n \in UserNames |-> files[n]]' \in
            [UserNames -> Seq(Bytes) \cup {Absent, Directory}]
    BY DEF IInv, TypeOK, UserNames, Entry, Data
  <2>4. Abstract!Command
    BY <2>2, <2>3 DEF Abstract!Command
  <2>5. QED
    BY <2>4 DEF AbstractStep, Abstract!Next
<1>4. ASSUME NEW m \in UserNames, GetFileBegin(m) \/ Delete(m) \/ Mkdir(m)
      PROVE  AbstractStep
  BY <1>2, <1>3, <1>4 DEF GetFileBegin, Delete, Mkdir, CardChange, sessionVars
<1>5. ASSUME NEW a \in UserNames, NEW b \in UserNames, Rename(a, b) PROVE AbstractStep
  <2>1. CASE \E e : Answers("RENAME", e)
    BY <1>2, <2>1
  <2>2. CASE Idle /\ \E e, fs : CardChange("RENAME", e, fs)
    BY <1>3, <2>2 DEF CardChange, sessionVars
  <2>3. QED
    BY <1>5, <2>1, <2>2 DEF Rename
<1>6. ASSUME NEW a \in UserNames, NEW b \in UserNames, Copy(a, b) PROVE AbstractStep
  <2>1. ASSUME NEW e, NEW data, CardChange("COPY", e, [files EXCEPT ![b] = data])
        PROVE  AbstractStep
    <3>1. /\ files' = [files EXCEPT ![b] = data]
          /\ UNCHANGED <<transferFile, transferPath, transferTotal, transferTempPath, received>>
      BY <2>1 DEF CardChange, sessionVars
    <3>2. \A m \in UserNames \ {b} : files'[m] = files[m]
      BY <1>1, <3>1
    <3>3. UNCHANGED UploadInProgress
      <4>1. b # transferTempPath
        BY TempIsNoUser
      <4>2. files'[transferTempPath] = files[transferTempPath]
        BY <1>1, <3>1, <4>1
      <4>3. QED
        BY <3>1, <4>2 DEF UploadInProgress
    <3>4. [n \in UserNames |-> files[n]]' \in
              [UserNames -> Seq(Bytes) \cup {Absent, Directory}]
      BY DEF IInv, TypeOK, UserNames, Entry, Data
    <3>5. Abstract!CopyInto(b)
      BY <3>2, <3>3, <3>4 DEF Abstract!CopyInto
    <3>6. QED
      BY <3>5 DEF AbstractStep, Abstract!Next
  <2>2. QED
    BY <1>2, <1>6, <2>1 DEF Copy
<1>7. CASE FormatFs
  BY <1>2, <1>3, <1>7 DEF FormatFs, CardChange, sessionVars
<1>8. QED
  BY <1>4, <1>5, <1>6, <1>7 DEF CardCommand

LEMMA RestRefines ==
    ASSUME Calm, IInv, IInv', Session \/ PutFileAbort \/ Environment
    PROVE  AbstractStep
<1>1. files \in [Names -> Entry] /\ \A n \in UserNames : n \in Names /\ n # transferTempPath
  BY TempIsNoUser DEF IInv, TypeOK, UserNames
<1>2. CASE AbortActiveTransfer(files)
  <2>1. ~transferFile' /\ UsersKept
    BY <1>1, <1>2, AbortSpares DEF AbortActiveTransfer, UsersKept
  <2>2. QED
    BY <2>1, Cancels
<1>3. CASE UNCHANGED <<cardVars, sessionVars, received>>
  BY <1>3, Stutters DEF cardVars, sessionVars, UsersKept
<1>4. ASSUME NEW fs \in Unsynced, Restart(fs) PROVE AbstractStep
  <2>1. ~transferFile' /\ UsersKept
    BY <1>1, <1>4, UnsyncedSpares DEF Restart, FreshObject, UsersKept
  <2>2. QED
    BY <2>1, Cancels
<1>5. CASE MountSd
  <2>1. UsersKept
    BY <1>1, <1>5, CleanedSpares DEF MountSd, UsersKept
  <2>2. QED
    BY <1>5, <2>1, Stutters DEF MountSd, sessionVars
<1>6. ~CleanPartials
  BY DEF CleanPartials, Calm, IInv
<1>7. QED
  BY <1>2, <1>3, <1>4, <1>5, <1>6
     DEF Session, PutFileAbort, Environment, Hello, DeviceInfo, AbortDangling, Reboot,
         Malformed, Answers, Refuse, PowerLoss, Calm

\* Where a rename does not fail, the power stays on in a command and no mount
\* runs beside an upload, the temporary file, the unlink and the rename are one
\* step to the host: an upload replaces its target whole, or nothing has happened.
THEOREM UploadIsAtomic == ASSUME Calm PROVE Spec => ImplementsAtomicUpload
<1>1. Init => Abstract!Init
  <2> SUFFICES ASSUME Init PROVE Abstract!Init
    OBVIOUS
  <2>1. TypeOK
    BY InitEstablishes DEF IInv
  <2>2. QED
    BY <2>1, StoreTyped DEF Init, UploadInProgress, Abstract!Init
<1>2. IInv /\ IInv' /\ [Next]_vars => AbstractStep
  <2> SUFFICES ASSUME IInv, IInv', [Next]_vars PROVE AbstractStep
    OBVIOUS
  <2>1. CASE UNCHANGED vars
    BY <2>1, Stutters DEF vars, cardVars, sessionVars, historyVars, UsersKept
  <2>2. QED
    BY <2>1, BeginRefines, DataRefines, EndRefines, CardCommandRefines, RestRefines
       DEF Next, Upload
<1>3. QED
  BY <1>1, <1>2, Invariance, PTL
     DEF Spec, AbstractStep, ImplementsAtomicUpload, Abstract!Spec
=============================================================================
