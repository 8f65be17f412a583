------------------------- MODULE FileProtocolProofs -------------------------
(***************************************************************************)
(* Theorems about FileProtocol, for any set of names, bytes, payloads,     *)
(* sizes and faults.  The inductive invariant is the type invariant, the   *)
(* agreement of the session variables and the content of the partial file; *)
(* each needs the others: only with an open stream bound to its own        *)
(* temporary name is the partial file out of every other command's reach.  *)
(* A mount beside the commands may remove the partial file, and only that. *)
(***************************************************************************)
EXTENDS FileProtocol, SequenceTheorems, TLAPS

PartialFile ==
    transferFile => \/ files[transferTempPath] = received
                    \/ /\ "app_mount" \in Faults
                       /\ files[transferTempPath] = Absent

IInv ==
    /\ TypeOK
    /\ SessionConsistent
    /\ PartialFile
    /\ cleaning => "app_mount" \in Faults

USE DataAssumption, NameAssumption, PathAssumption
    DEF Replies, Errors, Events, Commands

-----------------------------------------------------------------------------
(***************************************************************************)
(* What the helpers preserve.                                              *)
(***************************************************************************)

\* A prefix of a sequence of bytes is one (a write or a close cut short).
LEMMA PrefixIsData ==
    ASSUME NEW data \in Data, NEW k \in 0 .. Len(data)
    PROVE  SubSeq(data, 1, k) \in Data
<1>1. \A i \in 1 .. k : data[i] \in Bytes
  BY ElementOfSeq DEF Data
<1>2. QED
  BY <1>1, SubSeqProperties DEF Data

\* A cut-short write leaves a well-typed card (PUT_FILE_DATA, PUT_FILE_END and
\* a restart with a file open).
LEMMA CutShortIsCard ==
    ASSUME TypeOK, transferTempPath \in Names, NEW v \in Data \cup {Absent},
           NEW fs \in CutShort(v)
    PROVE  fs \in [Names -> Entry]
<1>1. CASE v = Absent
  BY <1>1 DEF CutShort, TypeOK
<1>2. CASE v # Absent
  <2>1. v \in Data
    BY <1>2
  <2>2. PICK k \in 0 .. Len(v) :
          fs = [files EXCEPT ![transferTempPath] = SubSeq(v, 1, k)]
    BY <1>2 DEF CutShort
  <2>3. SubSeq(v, 1, k) \in Entry
    BY <2>1, PrefixIsData DEF Entry
  <2>4. QED
    BY <2>2, <2>3 DEF TypeOK
<1>3. QED
  BY <1>1, <1>2

\* abort_active_transfer ends every session, whatever it finds on the card.
LEMMA AbortEstablishes ==
    ASSUME IInv, NEW fs \in [Names -> Entry], AbortActiveTransfer(fs),
           reply' \in Seq(Replies), handled' \in Events
    PROVE  IInv'
<1>1. files' \in [Names -> Entry]
  BY DEF AbortActiveTransfer, PartialRemoved, Entry, IInv, TypeOK
<1>2. <<>> \in Data /\ Len(<<>>) = 0
  BY DEF Data
<1>3. logLevel' \in LogLevels /\ savedLogLevel' \in LogLevels
  BY DEF AbortActiveTransfer, RestoreLogs, logVars, IInv, TypeOK
<1>4. QED
  BY <1>1, <1>2, <1>3
     DEF AbortActiveTransfer, IInv, TypeOK, SessionConsistent, PartialFile

\* A command that changes neither the session nor the partial file keeps the
\* invariant.
LEMMA SessionUntouched ==
    ASSUME IInv, UNCHANGED <<mounted, cleaning, sessionVars, logVars, received>>,
           files' \in [Names -> Entry],
           transferFile => files'[transferTempPath] = files[transferTempPath],
           reply' \in Seq(Replies), handled' \in Events
    PROVE  IInv'
  BY DEF IInv, TypeOK, SessionConsistent, PartialFile, sessionVars,
         logVars

\* One frame is a well-typed reply.
LEMMA OneFrame ==
    ASSUME NEW e \in Replies, Sends(e)
    PROVE  reply' \in Seq(Replies)
<1>1. \A S : \A r \in S : <<r>> \in Seq(S)
  OBVIOUS
<1>2. QED
  BY <1>1 DEF Sends

\* An answer that changes nothing keeps the invariant.
LEMMA RefusalKeeps ==
    ASSUME IInv, NEW e \in Replies, Refuse(e), handled' \in Events
    PROVE  IInv'
<1>1. reply' \in Seq(Replies)
  BY OneFrame DEF Refuse
<1>2. QED
  BY <1>1, SessionUntouched DEF Refuse, cardVars, IInv, TypeOK

LEMMA AnswerKeeps ==
    ASSUME IInv, NEW c \in Events, NEW e \in Replies, Answers(c, e)
    PROVE  IInv'
BY RefusalKeeps DEF Answers, Handles

\* A command that changes the card, with no upload running, keeps it too.
LEMMA CardChangeKeeps ==
    ASSUME IInv, NEW c \in Events, NEW e \in Replies,
           NEW fs \in [Names -> Entry], CardChange(c, e, fs),
           transferFile => fs[transferTempPath] = files[transferTempPath]
    PROVE  IInv'
<1>1. reply' \in Seq(Replies)
  BY OneFrame DEF CardChange
<1>2. QED
  BY <1>1, SessionUntouched DEF CardChange, Handles

-----------------------------------------------------------------------------
(***************************************************************************)
(* The initial state.                                                      *)
(***************************************************************************)
LEMMA InitEstablishes == Init => IInv
<1> SUFFICES ASSUME Init PROVE IInv
  OBVIOUS
<1>1. <<>> \in Data /\ <<>> \in Seq(Replies)
  BY DEF Data
<1>2. files \in [Names -> Entry]
  BY <1>1 DEF Init, Entry
<1>3. TypeOK
  BY <1>1, <1>2 DEF Init, TypeOK, LogLevels
<1>4. QED
  BY <1>3 DEF Init, IInv, SessionConsistent, PartialFile

-----------------------------------------------------------------------------
(***************************************************************************)
(* The session's commands.                                                 *)
(***************************************************************************)
LEMMA DanglingKeeps ==
    ASSUME IInv, AbortDangling, NEW e \in Replies, Sends(e), handled' \in Events
    PROVE  IInv'
<1>1. reply' \in Seq(Replies)
  BY OneFrame
<1>2. CASE transferActive \/ transferTempPath # NoPath
  BY <1>1, <1>2, AbortEstablishes DEF AbortDangling, IInv, TypeOK
<1>3. CASE ~(transferActive \/ transferTempPath # NoPath)
  BY <1>1, <1>3, SessionUntouched DEF AbortDangling, cardVars, IInv, TypeOK
<1>4. QED
  BY <1>2, <1>3

\* A restart leaves no session, whatever it finds on the card.
LEMMA RestartEstablishes ==
    ASSUME TypeOK, NEW fs \in [Names -> Entry], Restart(fs),
           reply' \in Seq(Replies), handled' \in Events
    PROVE  IInv'
<1>1. <<>> \in Data
  BY DEF Data
<1>2. QED
  BY <1>1
     DEF Restart, FreshObject, IInv, TypeOK, SessionConsistent,
         PartialFile, LogLevels

\* What a restart may leave of an open file is a card.
LEMMA UnsyncedIsCard == ASSUME IInv PROVE Unsynced \subseteq [Names -> Entry]
<1>1. CASE transferFile
  <2>1. transferTempPath \in Names
        /\ files[transferTempPath] \in Data \cup {Absent}
    BY <1>1 DEF IInv, TypeOK, SessionConsistent, PartialFile
  <2>2. CutShort(files[transferTempPath]) \subseteq [Names -> Entry]
    BY <2>1, CutShortIsCard DEF IInv
  <2>3. QED
    BY <1>1, <2>2 DEF Unsynced, IInv, TypeOK, Entry
<1>2. CASE ~transferFile
  BY <1>2 DEF Unsynced, IInv, TypeOK
<1>3. QED
  BY <1>1, <1>2

LEMMA SessionKeeps == IInv /\ Session => IInv'
<1> SUFFICES ASSUME IInv, Session PROVE IInv'
  OBVIOUS
<1>1. CASE Hello
  <2>1. AbortDangling /\ Sends("ACK") /\ handled' \in Events
    BY <1>1 DEF Hello, Handles
  <2>2. QED
    BY <2>1, DanglingKeeps
<1>2. CASE DeviceInfo
  <2>1. AbortDangling /\ Sends("DEVICE_INFO") /\ handled' \in Events
    BY <1>2 DEF DeviceInfo, Handles
  <2>2. QED
    BY <2>1, DanglingKeeps
<1>3. CASE Reboot
  <2>1. Sends("ACK") /\ handled' \in Events
    BY <1>3 DEF Reboot, Handles
  <2> reply' \in Seq(Replies)
    BY <2>1, OneFrame
  <2>2. PICK fs \in [Names -> Entry] : Restart(fs)
    BY <1>3, UnsyncedIsCard DEF Reboot
  <2>3. QED
    BY <2>1, <2>2, RestartEstablishes DEF IInv
<1>4. CASE Malformed
  BY <1>4, AnswerKeeps DEF Malformed
<1>5. QED
  BY <1>1, <1>2, <1>3, <1>4 DEF Session

-----------------------------------------------------------------------------
(***************************************************************************)
(* Upload.                                                                 *)
(***************************************************************************)
LEMMA BeginKeeps ==
    ASSUME IInv, NEW p \in PutPaths, NEW n \in Totals, PutFileBegin(p, n)
    PROVE  IInv'
<1>1. n \in Nat /\ TempPath(p) \in UploadNames \cup {OffCardTemp}
  BY DEF TempPath
<1>2. handled' \in Events
  BY DEF PutFileBegin, Handles
<1>3. <<>> \in Data /\ Len(<<>>) = 0
  BY DEF Data
<1>4. CASE transferActive /\ Refuse("ERR_TRANSFER_ACTIVE")
  BY <1>2, <1>4, RefusalKeeps
<1>5. CASE BeginTooLong(p, n)
  <2>1. reply' \in Seq(Replies)
    BY <1>5, OneFrame DEF BeginTooLong
  <2>2. QED
    BY <1>1, <1>2, <1>5, <2>1
       DEF BeginTooLong, Idle, cardVars, logVars, IInv, TypeOK,
           SessionConsistent, PartialFile
<1>6. CASE BeginBenchmark(p, n)
  <2>1. reply' \in Seq(Replies)
    BY <1>6, OneFrame DEF BeginBenchmark
  <2>2. QED
    BY <1>1, <1>2, <1>3, <1>6, <2>1
       DEF BeginBenchmark, Idle, cardVars, logVars, IInv, TypeOK,
           SessionConsistent, PartialFile
<1>7. CASE BeginRefused(p, n)
  <2>1. reply' \in Seq(Replies)
    BY <1>7, OneFrame DEF BeginRefused, BeginRefusal
  <2>2. QED
    BY <1>1, <1>2, <1>7, <2>1
       DEF BeginRefused, Idle, cardVars, logVars, IInv, TypeOK,
           SessionConsistent, PartialFile
<1>8. CASE BeginAccepted(p, n)
  <2>1. reply' \in Seq(Replies)
    BY <1>8, OneFrame DEF BeginAccepted
  <2>2. p \in PutNames /\ TempOf[p] \in UploadNames /\ TempOf[p] \in Names
    BY <1>8 DEF BeginAccepted
  <2>3. /\ files' \in [Names -> Entry]
        /\ files'[TempOf[p]] = <<>>
    BY <1>3, <1>8, <2>2 DEF BeginAccepted, IInv, TypeOK, Entry
  <2>4. logLevel' \in LogLevels /\ savedLogLevel' \in LogLevels
    BY <1>8 DEF BeginAccepted, SuppressLogs, IInv, TypeOK, LogLevels
  <2>5. TypeOK'
    BY <1>1, <1>2, <1>3, <1>8, <2>1, <2>2, <2>3, <2>4
       DEF BeginAccepted, IInv, TypeOK
  <2>6. QED
    BY <1>1, <1>3, <1>8, <2>2, <2>3, <2>5
       DEF BeginAccepted, IInv, TypeOK, SessionConsistent, PartialFile
<1>9. QED
  BY <1>4, <1>5, <1>6, <1>7, <1>8 DEF PutFileBegin

\* A payload that fits is appended to the partial file and to the history.
LEMMA DataAppends ==
    ASSUME IInv, transferActive, NEW payload \in Payloads, ~TooMuch(payload)
    PROVE  /\ received \o payload \in Data
           /\ Len(received \o payload) = transferBytes + Len(payload)
           /\ transferBytes + Len(payload) \in Nat
           /\ transferBytes + Len(payload) <= transferTotal
<1>1. payload \in Data /\ received \in Data
  BY DEF IInv, TypeOK, Data
<1>2. Len(payload) \in Nat /\ transferBytes \in Nat /\ transferTotal \in Nat
  BY <1>1 DEF Data, IInv, TypeOK
<1>3. /\ received \o payload \in Data
      /\ Len(received \o payload) = Len(received) + Len(payload)
  BY <1>1, ConcatProperties DEF Data
<1>4. QED
  BY <1>2, <1>3 DEF TooMuch, IInv, SessionConsistent

LEMMA DataKeeps ==
    ASSUME IInv, NEW payload \in Payloads, PutFileData(payload)
    PROVE  IInv'
<1>1. handled' \in Events
  BY DEF PutFileData, Handles
<1>2. <<>> \in Seq(Replies)
  OBVIOUS
<1>3. CASE Refuse("ERR_NO_TRANSFER")
  BY <1>1, <1>3, RefusalKeeps
<1>4. ASSUME NEW fs \in [Names -> Entry], AbortActiveTransfer(fs),
             Sends("ERR_IO_ERROR")
      PROVE  IInv'
  BY <1>1, <1>4, OneFrame, AbortEstablishes DEF IInv
<1>5. CASE AbortActiveTransfer(files) /\ Sends("ERR_IO_ERROR")
  BY <1>4, <1>5 DEF IInv, TypeOK
<1>6. ASSUME transferActive, benchmarkMode, ~TooMuch(payload),
             transferBytes' = transferBytes + Len(payload),
             received' = received \o payload, reply' = <<>>,
             UNCHANGED <<cardVars, logVars, transferActive, transferFile,
                         sdWriteBuffer, transferTotal, transferFailed,
                         transferPath, transferTempPath, benchmarkMode>>
      PROVE  IInv'
  BY <1>1, <1>2, <1>6, DataAppends
     DEF cardVars, logVars, IInv, TypeOK, SessionConsistent, PartialFile
<1>7. ASSUME transferFile
      PROVE  /\ transferTempPath \in Names
             /\ files[transferTempPath] \in {received, Absent}
             /\ Written(files[transferTempPath], payload)
                   \in {received \o payload, Absent}
             /\ Written(received, payload) = received \o payload
             /\ received \o payload \in Data
  <2>1. payload \in Data /\ received \in Data
    BY DEF IInv, TypeOK, Data
  <2>2. received \o payload \in Data
    BY <2>1, ConcatProperties DEF Data
  <2>3. transferTempPath \in Names
    BY <1>7 DEF IInv, TypeOK, SessionConsistent
  <2>4. QED
    BY <1>7, <2>1, <2>2, <2>3 DEF IInv, PartialFile, Written, Data
<1>8. ASSUME transferFile, Sends("ERR_IO_ERROR"),
             \E fs \in CutShort(Written(files[transferTempPath], payload)) :
                AbortActiveTransfer(fs)
      PROVE  IInv'
  BY <1>4, <1>7, <1>8, CutShortIsCard DEF IInv
<1>9. ASSUME transferActive, ~benchmarkMode, transferFile, ~TooMuch(payload),
             files' = [files EXCEPT ![transferTempPath] = Written(@, payload)],
             transferBytes' = transferBytes + Len(payload),
             received' = received \o payload, reply' = <<>>,
             UNCHANGED <<mounted, cleaning, logVars, transferActive,
                         transferFile, sdWriteBuffer, transferTotal,
                         transferFailed, transferPath, transferTempPath,
                         benchmarkMode>>
      PROVE  IInv'
  <2>1. /\ files'[transferTempPath]
             = Written(files[transferTempPath], payload)
        /\ files' \in [Names -> Entry]
    BY ZenonT(60), <1>7, <1>9 DEF IInv, TypeOK, Entry
  <2>2. files'[transferTempPath] = received'
        \/ ("app_mount" \in Faults /\ files'[transferTempPath] = Absent)
    BY <1>7, <1>9, <2>1 DEF IInv, PartialFile, Written
  <2>3. TypeOK'
    BY <1>1, <1>2, <1>9, <2>1, DataAppends DEF logVars, IInv, TypeOK
  <2>4. QED
    BY <1>9, <2>2, <2>3, DataAppends
       DEF IInv, SessionConsistent, PartialFile
<1>10. QED
  BY <1>3, <1>5, <1>6, <1>8, <1>9 DEF PutFileData

-----------------------------------------------------------------------------
(***************************************************************************)
(* PUT_FILE_END and PUT_FILE_ABORT.                                        *)
(***************************************************************************)
LEMMA EndFailsKeeps ==
    ASSUME IInv, NEW fs \in [Names -> Entry], EndFails(fs), handled' \in Events
    PROVE  IInv'
BY OneFrame, AbortEstablishes DEF EndFails, IInv

\* The commit leaves a card, and its session's variables cleared.
LEMMA EndSessionKeeps ==
    ASSUME IInv, EndSession, RestoreLogs, Sends("ACK"), handled' \in Events,
           files' \in [Names -> Entry]
    PROVE  IInv'
<1>1. reply' \in Seq(Replies)
  BY OneFrame
<1>2. <<>> \in Data
  BY DEF Data
<1>3. QED
  BY <1>1, <1>2
     DEF EndSession, RestoreLogs, IInv, TypeOK, SessionConsistent,
         PartialFile, LogLevels

\* An upload to the card has both its names on it.
LEMMA UploadOnCard ==
    ASSUME IInv, transferActive, ~benchmarkMode
    PROVE  /\ transferFile
           /\ transferPath \in PutNames /\ transferPath \in UserNames
           /\ transferPath \in Names
           /\ transferTempPath \in UploadNames /\ transferTempPath \in Names
           /\ files[transferTempPath] \in {received, Absent}
           /\ files[transferTempPath] \in Data \cup {Absent}
BY DEF IInv, TypeOK, SessionConsistent, PartialFile, UserNames

LEMMA EndKeeps == IInv /\ PutFileEnd => IInv'
<1> SUFFICES ASSUME IInv, PutFileEnd PROVE IInv'
  OBVIOUS
<1>1. handled' \in Events
  BY DEF PutFileEnd, Handles
<1>2. files \in [Names -> Entry]
  BY DEF IInv, TypeOK
<1>3. CASE Refuse("ERR_NO_TRANSFER")
  BY <1>1, <1>3, RefusalKeeps
<1>4. CASE EndFails(files)
  BY <1>1, <1>2, <1>4, EndFailsKeeps
<1>5. CASE CommitBenchmark
  BY <1>1, <1>2, <1>5, EndSessionKeeps DEF CommitBenchmark
<1>6. CASE transferActive /\ CloseFails
  <2>1. ~benchmarkMode
    BY <1>6 DEF CloseFails, IInv, SessionConsistent
  <2>2. CutShort(files[transferTempPath]) \subseteq [Names -> Entry]
    BY <1>6, <2>1, UploadOnCard, CutShortIsCard DEF IInv
  <2>3. QED
    BY <1>1, <1>6, <2>2, EndFailsKeeps DEF CloseFails
<1>7. CASE TargetStays
  BY <1>1, <1>2, <1>7, EndFailsKeeps DEF TargetStays
<1>8. CASE transferActive /\ RenameFails
  <2>1. TargetRemoved \in [Names -> Entry]
    BY <1>2 DEF TargetRemoved, Entry
  <2>2. QED
    BY <1>1, <1>8, <2>1, EndFailsKeeps DEF RenameFails
<1>9. CASE transferActive /\ CommitUpload
  <2>1. files' \in [Names -> Entry]
    BY <1>2, <1>9, UploadOnCard DEF CommitUpload, TargetRemoved, Entry
  <2>2. QED
    BY <1>1, <1>9, <2>1, EndSessionKeeps DEF CommitUpload
<1>10. QED
  BY <1>3, <1>4, <1>5, <1>6, <1>7, <1>8, <1>9 DEF PutFileEnd

LEMMA AbortKeeps == IInv /\ PutFileAbort => IInv'
<1> SUFFICES ASSUME IInv, PutFileAbort PROVE IInv'
  OBVIOUS
<1>1. handled' \in Events /\ Sends("ACK")
  BY DEF PutFileAbort, Handles
<1>2. QED
  BY <1>1, OneFrame, AbortEstablishes DEF PutFileAbort, IInv, TypeOK

-----------------------------------------------------------------------------
(***************************************************************************)
(* The other commands on the card.  All but COPY refuse while an upload    *)
(* runs; COPY names no ".upload" file.                                     *)
(***************************************************************************)
LEMMA IdleNoStream == ASSUME IInv, Idle PROVE ~transferFile
BY DEF IInv, SessionConsistent, Idle

LEMMA CardChangeWhenIdle ==
    ASSUME IInv, Idle, NEW c \in Events, NEW e \in Replies,
           NEW fs \in [Names -> Entry], CardChange(c, e, fs)
    PROVE  IInv'
BY IdleNoStream, CardChangeKeeps

LEMMA EntryChange ==
    ASSUME TypeOK, NEW n \in UserNames, NEW v \in Entry
    PROVE  [files EXCEPT ![n] = v] \in [Names -> Entry]
BY DEF TypeOK, UserNames

LEMMA GetFileBeginKeeps ==
    ASSUME IInv, NEW n \in UserNames, GetFileBegin(n)
    PROVE  IInv'
<1>1. ASSUME NEW e \in Replies, Answers("GET_FILE_BEGIN", e) PROVE IInv'
  BY <1>1, AnswerKeeps
<1>2. ASSUME Idle, Handles("GET_FILE_BEGIN"),
             reply' = <<"ACK", "GET_FILE_DATA", "GET_FILE_END">>,
             transferTotal' = 0, transferBytes' = 0,
             UNCHANGED <<cardVars, logVars, transferActive, transferFile,
                         sdWriteBuffer, transferFailed, transferPath,
                         transferTempPath, benchmarkMode, received>>
      PROVE  IInv'
  <2>1. \A S : \A x, y, z \in S : <<x, y, z>> \in Seq(S)
    <3>1. \A S : \A x, y, z \in S : <<x, y, z>> \in [1 .. 3 -> S]
      OBVIOUS
    <3>2. QED
      BY <3>1, SeqDef
  <2>2. reply' \in Seq(Replies) /\ handled' \in Events
    BY <1>2, <2>1 DEF Handles
  <2>3. QED
    BY <1>2, <2>2
       DEF Idle, cardVars, logVars, IInv, TypeOK, SessionConsistent,
           PartialFile
<1>3. QED
  BY <1>1, <1>2 DEF GetFileBegin

LEMMA DeleteKeeps ==
    ASSUME IInv, NEW n \in UserNames, Delete(n)
    PROVE  IInv'
<1>1. ASSUME NEW e \in Replies, Answers("DELETE", e) PROVE IInv'
  BY <1>1, AnswerKeeps
<1>2. [files EXCEPT ![n] = Absent] \in [Names -> Entry]
  BY EntryChange DEF Entry, IInv
<1>3. ASSUME Idle, CardChange("DELETE", "ACK", [files EXCEPT ![n] = Absent])
      PROVE  IInv'
  BY <1>2, <1>3, CardChangeWhenIdle
<1>4. QED
  BY <1>1, <1>3 DEF Delete

LEMMA RenameKeeps ==
    ASSUME IInv, NEW a \in UserNames, NEW b \in UserNames, Rename(a, b)
    PROVE  IInv'
<1>1. ASSUME NEW e \in Replies, Answers("RENAME", e) PROVE IInv'
  BY <1>1, AnswerKeeps
<1>2. a \in Names /\ b \in Names /\ files \in [Names -> Entry]
  BY DEF UserNames, IInv, TypeOK
<1>3. [files EXCEPT ![b] = Absent] \in [Names -> Entry]
  BY <1>2 DEF Entry
<1>4. ASSUME NEW fs \in [Names -> Entry]
      PROVE  [fs EXCEPT ![b] = fs[a], ![a] = Absent] \in [Names -> Entry]
  BY <1>2, <1>4 DEF Entry
<1>5. ASSUME Idle, NEW fs \in {files, [files EXCEPT ![b] = Absent]},
             CardChange("RENAME", "ERR_IO_ERROR", fs)
      PROVE  IInv'
  BY <1>2, <1>3, <1>5, CardChangeWhenIdle
<1>6. ASSUME Idle, NEW fs \in {files, [files EXCEPT ![b] = Absent]},
             CardChange("RENAME", "ACK",
                        [fs EXCEPT ![b] = fs[a], ![a] = Absent])
      PROVE  IInv'
  BY <1>2, <1>3, <1>4, <1>6, CardChangeWhenIdle
<1>7. QED
  BY <1>1, <1>5, <1>6 DEF Rename

LEMMA MkdirKeeps ==
    ASSUME IInv, NEW n \in UserNames, Mkdir(n)
    PROVE  IInv'
<1>1. ASSUME NEW e \in Replies, Answers("MKDIR", e) PROVE IInv'
  BY <1>1, AnswerKeeps
<1>2. [files EXCEPT ![n] = Directory] \in [Names -> Entry]
  BY EntryChange DEF Entry, IInv
<1>3. ASSUME Idle, CardChange("MKDIR", "ACK", [files EXCEPT ![n] = Directory])
      PROVE  IInv'
  BY <1>2, <1>3, CardChangeWhenIdle
<1>4. QED
  BY <1>1, <1>3 DEF Mkdir

LEMMA CopyKeeps ==
    ASSUME IInv, NEW a \in UserNames, NEW b \in UserNames, Copy(a, b)
    PROVE  IInv'
<1>1. ASSUME NEW e \in Replies, Answers("COPY", e) PROVE IInv'
  BY <1>1, AnswerKeeps
<1>2. ASSUME NEW e \in Replies, NEW v \in Entry,
             CardChange("COPY", e, [files EXCEPT ![b] = v])
      PROVE  IInv'
  <2>1. [files EXCEPT ![b] = v] \in [Names -> Entry]
    BY EntryChange DEF IInv
  <2>2. transferFile => transferTempPath # b /\ transferTempPath \in Names
    BY DEF IInv, TypeOK, SessionConsistent, UserNames
  <2>3. transferFile => [files EXCEPT ![b] = v][transferTempPath]
                        = files[transferTempPath]
    BY <2>2 DEF IInv, TypeOK
  <2>4. QED
    BY <1>2, <2>1, <2>3, CardChangeKeeps
<1>3. Absent \in Entry /\ files[a] \in Entry
  BY DEF Entry, UserNames, IInv, TypeOK
<1>4. ASSUME IsFile(files[a]), NEW data \in Copies(a, b)
      PROVE  data \in Entry
  <2>1. files[a] \in Data
    BY <1>3, <1>4 DEF IsFile, Entry
  <2>2. \A k \in 0 .. Len(files[a]) : SubSeq(files[a], 1, k) \in Entry
    BY <2>1, PrefixIsData DEF Entry
  <2>3. QED
    BY <1>3, <1>4, <2>2 DEF Copies
<1>5. QED
  BY <1>1, <1>2, <1>3, <1>4 DEF Copy

\* Mounting after a restart or a format leaves a card.
LEMMA CleanedIsCard ==
    ASSUME NEW fs \in [Names -> Entry]
    PROVE  Cleaned(fs) \subseteq [Names -> Entry]
<1>1. {fs[n] : n \in Names} \cup {Absent} \subseteq Entry
  BY DEF Entry
<1>2. QED
  BY <1>1 DEF Cleaned

LEMMA FormatFsKeeps == IInv /\ FormatFs => IInv'
<1> SUFFICES ASSUME IInv, FormatFs PROVE IInv'
  OBVIOUS
<1>1. ASSUME NEW e \in Replies, Answers("FORMAT_FS", e) PROVE IInv'
  BY <1>1, AnswerKeeps
<1>2. EmptyCard \in [Names -> Entry] /\ files \in [Names -> Entry]
  BY DEF EmptyCard, Entry, IInv, TypeOK
<1>3. ASSUME Idle, CardChange("FORMAT_FS", "ACK", EmptyCard) PROVE IInv'
  BY <1>2, <1>3, CardChangeWhenIdle
<1>4. ASSUME Idle, Handles("FORMAT_FS"), Sends("ERR_IO_ERROR"),
             mounted' \in BOOLEAN, NEW fs \in {files, EmptyCard},
             files' \in (IF mounted' THEN Cleaned(fs) ELSE {fs}),
             UNCHANGED <<cleaning, sessionVars, logVars, received>>
      PROVE  IInv'
  <2>1. reply' \in Seq(Replies) /\ handled' \in Events
    BY <1>4, OneFrame DEF Handles
  <2>2. files' \in [Names -> Entry]
    BY <1>2, <1>4, CleanedIsCard
  <2>3. QED
    BY <1>4, <2>1, <2>2, IdleNoStream
       DEF sessionVars, logVars, IInv, TypeOK, SessionConsistent,
           PartialFile
<1>5. QED
  BY <1>1, <1>3, <1>4 DEF FormatFs

LEMMA CardCommandKeeps == IInv /\ CardCommand => IInv'
BY GetFileBeginKeeps, DeleteKeeps, MkdirKeeps, RenameKeeps, CopyKeeps,
   FormatFsKeeps DEF CardCommand

-----------------------------------------------------------------------------
(***************************************************************************)
(* The world around the dispatcher.                                        *)
(***************************************************************************)
LEMMA MountKeeps == IInv /\ MountSd => IInv'
<1> SUFFICES ASSUME IInv, MountSd PROVE IInv'
  OBVIOUS
<1>1. files' \in [Names -> Entry]
  BY CleanedIsCard DEF MountSd, IInv, TypeOK
<1>2. ~transferFile /\ <<>> \in Seq(Replies)
  BY DEF MountSd, IInv, SessionConsistent
<1>3. QED
  BY <1>1, <1>2
     DEF MountSd, sessionVars, logVars, IInv, TypeOK, SessionConsistent,
         PartialFile

\* The late search for partial uploads may remove a running upload's file.
LEMMA CleanPartialsKeeps == IInv /\ CleanPartials => IInv'
<1> SUFFICES ASSUME IInv, CleanPartials PROVE IInv'
  OBVIOUS
<1>1. files' \in [Names -> Entry]
  BY CleanedIsCard DEF CleanPartials, IInv, TypeOK
<1>2. <<>> \in Seq(Replies)
  OBVIOUS
<1>3. TypeOK'
  BY <1>1, <1>2 DEF CleanPartials, sessionVars, logVars, IInv, TypeOK
<1>4. "app_mount" \in Faults
  BY DEF CleanPartials, IInv
<1>5. ASSUME transferFile
      PROVE  files'[transferTempPath] \in {files[transferTempPath], Absent}
  <2>1. transferTempPath \in Names
    BY <1>5 DEF IInv, TypeOK, SessionConsistent
  <2>2. QED
    BY <2>1 DEF CleanPartials, Cleaned
<1>6. QED
  BY <1>3, <1>4, <1>5
     DEF CleanPartials, sessionVars, IInv, SessionConsistent, PartialFile

LEMMA PowerLossKeeps == IInv /\ PowerLoss => IInv'
<1> SUFFICES ASSUME IInv, PowerLoss PROVE IInv'
  OBVIOUS
<1>1. reply' \in Seq(Replies) /\ handled' \in Events
  BY DEF PowerLoss
<1>2. files \in [Names -> Entry]
  BY DEF IInv, TypeOK
<1>3. InCommit \subseteq [Names -> Entry]
  BY <1>2 DEF InCommit, TargetRemoved, Entry
<1>4. InRename \subseteq [Names -> Entry]
  BY <1>2 DEF InRename, UserNames, Entry
<1>5. InCopy \subseteq [Names -> Entry]
  <2>1. ASSUME NEW a \in UserNames, IsFile(files[a]),
               NEW fs \in Unsynced, NEW k \in 0 .. Len(files[a]),
               NEW b \in UserNames
        PROVE  [fs EXCEPT ![b] = SubSeq(files[a], 1, k)] \in [Names -> Entry]
    <3>1. files[a] \in Data
      BY <1>2, <2>1 DEF IsFile, Entry, UserNames
    <3>2. SubSeq(files[a], 1, k) \in Entry
      BY <3>1, PrefixIsData DEF Entry
    <3>3. QED
      BY <3>2, UnsyncedIsCard DEF UserNames
  <2>2. ASSUME NEW g \in InCopy PROVE g \in [Names -> Entry]
    <3>1. PICK a \in UserNames :
             /\ IsFile(files[a])
             /\ \E fs \in Unsynced, k \in 0 .. Len(files[a]), b \in UserNames :
                   g = [fs EXCEPT ![b] = SubSeq(files[a], 1, k)]
      BY DEF InCopy
    <3>2. QED
      BY <2>1, <3>1
  <2>3. QED
    BY <2>2
<1>6. PICK fs \in [Names -> Entry] : Restart(fs)
  BY <1>3, <1>4, <1>5, UnsyncedIsCard DEF PowerLoss
<1>7. QED
  BY <1>1, <1>6, RestartEstablishes DEF IInv

-----------------------------------------------------------------------------
(***************************************************************************)
(* The invariant is inductive.                                             *)
(***************************************************************************)
LEMMA UploadKeeps == IInv /\ Upload => IInv'
BY BeginKeeps, DataKeeps, EndKeeps, AbortKeeps DEF Upload

LEMMA Inductive == IInv /\ [Next]_vars => IInv'
<1> SUFFICES ASSUME IInv, [Next]_vars PROVE IInv'
  OBVIOUS
<1>1. CASE Upload
  BY <1>1, UploadKeeps
<1>2. CASE Session
  BY <1>2, SessionKeeps
<1>3. CASE CardCommand
  BY <1>3, CardCommandKeeps
<1>4. CASE Environment
  BY <1>4, MountKeeps, CleanPartialsKeeps, PowerLossKeeps DEF Environment
<1>5. CASE UNCHANGED vars
  BY <1>5 DEF vars, cardVars, sessionVars, logVars, historyVars, IInv, TypeOK,
              SessionConsistent, PartialFile
<1>6. QED
  BY <1>1, <1>2, <1>3, <1>4, <1>5 DEF Next

LEMMA Invariance == Spec => []IInv
<1>1. Init => IInv
  BY InitEstablishes
<1>2. IInv /\ [Next]_vars => IInv'
  BY Inductive
<1>3. QED
  BY <1>1, <1>2, PTL DEF Spec

\* Every variable keeps its type, whatever the host sends and whatever fails.
THEOREM TypeCorrect == Spec => []TypeOK
<1>1. IInv => TypeOK
  BY DEF IInv
<1>2. QED
  BY <1>1, Invariance, PTL

\* At every command boundary the session's variables agree: a stream is open
\* exactly during an upload to a mounted card, bound to that upload's own
\* temporary name and within its declared size.
THEOREM SessionAgrees == Spec => []SessionConsistent
<1>1. IInv => SessionConsistent
  BY DEF IInv
<1>2. QED
  BY <1>1, Invariance, PTL

\* No command reaches the partial file of a running upload, the unguarded COPY
\* included: unless the card is mounted beside it, the file holds exactly what
\* the host has sent so far.
THEOREM PartialFileIntact ==
    ASSUME "app_mount" \notin Faults
    PROVE  Spec => []UploadUndisturbed
<1>1. IInv => UploadUndisturbed
  BY DEF IInv, PartialFile, UploadUndisturbed
<1>2. QED
  BY <1>1, Invariance, PTL

-----------------------------------------------------------------------------
(***************************************************************************)
(* What the ACK of PUT_FILE_END promises.                                  *)
(***************************************************************************)
LEMMA OneFrameDiffers ==
    ASSUME NEW x, NEW y, <<x>> = <<y>>
    PROVE  x = y
<1>1. <<x>>[1] = x /\ <<y>>[1] = y
  OBVIOUS
<1>2. QED
  BY <1>1

\* Only the handler of PUT_FILE_END answers it.
LEMMA EndIsEnd ==
    ASSUME Next, handled' = "PUT_FILE_END"
    PROVE  PutFileEnd
<1>1. CASE Upload
  BY <1>1 DEF Upload, PutFileBegin, PutFileData, PutFileAbort, Handles
<1>2. ~Session
  BY DEF Session, Hello, DeviceInfo, Reboot, Malformed, Answers, Handles
<1>3. ~CardCommand
  BY DEF CardCommand, GetFileBegin, Delete, Rename, Mkdir, Copy, FormatFs,
         Answers, CardChange, Handles
<1>4. ~Environment
  BY DEF Environment, MountSd, CleanPartials, PowerLoss
<1>5. QED
  BY <1>1, <1>2, <1>3, <1>4 DEF Next

\* An acknowledged upload is on the card under its own name, byte for byte and
\* of the declared size, and its partial file is gone.
THEOREM AckedUploadStored == Spec => AckedEndIsStored
<1>1. ASSUME IInv, Next, handled' = "PUT_FILE_END", reply' = <<"ACK">>,
             transferFile
      PROVE  /\ files' = [files EXCEPT ![transferPath] = received,
                                       ![transferTempPath] = Absent]
             /\ Len(received) = transferTotal
  <2>1. transferActive /\ ~benchmarkMode
    BY <1>1 DEF IInv, SessionConsistent
  <2>2. ASSUME NEW e, Sends(e), e # "ACK" PROVE FALSE
    BY <1>1, <2>2, OneFrameDiffers DEF Sends
  <2>3. UploadComplete /\ CommitUpload
    <3>1. ~EndFails(files) /\ ~CloseFails /\ ~TargetStays /\ ~RenameFails
      BY <2>2 DEF EndFails, CloseFails, TargetStays, RenameFails
    <3>2. QED
      BY <1>1, <2>1, <3>1, EndIsEnd DEF PutFileEnd, CommitBenchmark
  <2>4. transferPath \in Names /\ files[transferTempPath] = received
    BY <1>1, <2>1, <2>3, UploadOnCard DEF CommitUpload
  <2>5. files' = [files EXCEPT ![transferPath] = received,
                               ![transferTempPath] = Absent]
    BY <2>3, <2>4 DEF CommitUpload, TargetRemoved, IInv, TypeOK
  <2>6. QED
    BY <1>1, <2>1, <2>3, <2>5 DEF UploadComplete, IInv, SessionConsistent
<1>2. IInv /\ [Next]_vars => [handled' = "PUT_FILE_END" /\ reply' = <<"ACK">>
         /\ transferFile =>
            /\ files' = [files EXCEPT ![transferPath] = received,
                                      ![transferTempPath] = Absent]
            /\ Len(received) = transferTotal]_vars
  BY <1>1
<1>3. QED
  BY <1>2, Invariance, PTL DEF Spec, AckedEndIsStored
=============================================================================
