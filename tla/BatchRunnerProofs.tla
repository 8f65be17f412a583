-------------------------- MODULE BatchRunnerProofs --------------------------
(***************************************************************************)
(* Theorems about BatchRunner, for any batches, bounds and faults.  The    *)
(* inductive invariant ties the three records of what has been done (the   *)
(* state file, the sets in memory, the results of the run) to each other   *)
(* and to what is on the device.                                           *)
(***************************************************************************)
EXTENDS BatchRunner, SequenceTheorems, TLAPS

AnyFailed == \E i \in DOMAIN batch : results[i] = "failed"

\* Where the runner is, in its task and in save.
Position ==
    /\ part \in Nat
    /\ pc \in {"condition", "execute"} =>
          /\ index \in DOMAIN batch
          /\ Task.enabled
          /\ \A n \in 1 .. part : <<index, n>> \in stored
    /\ pc \in {"save", "dump"} => after \in {"next", "end"}
    /\ pc \in {"load", "connect"} =>
          index = 1 /\ \A i \in DOMAIN batch : results[i] = "none"

\* What the state file and the memory list as completed is done.
Recorded ==
    \A i \in DOMAIN batch :
        batch[i].enabled /\ batch[i].name \in completed \cup file.completed =>
            Effect(i) \subseteq stored

\* A state that is resumed holds all that the runs before it saved, and so does
\* the memory of the run that loaded it.
Resumed ==
    /\ pc \notin {"idle", "load"} => file.completed \cup done \subseteq completed
    /\ file.readable => done \subseteq file.completed

\* The results of the tasks before index.
Passed ==
    /\ \A i \in DOMAIN batch : results[i] = "ok" => batch[i].name \in completed
    /\ \A i \in DOMAIN batch : i < index /\ batch[i].enabled =>
          results[i] # "none" \/ batch[i].name \in completed \/ (failFast /\ AnyFailed)
    /\ failFast /\ AnyFailed => index = Len(batch) + 1

\* How a run ends.
Ended ==
    /\ pc = "end" \/ (pc \in {"save", "dump"} /\ after = "end") =>
          outcome = "stopped" \/ index = Len(batch) + 1
    /\ outcome = "success" =>
          /\ pc = "idle"
          /\ \A i \in DOMAIN batch : batch[i].enabled =>
                results[i] = "skipped" \/ batch[i].name \in completed

IInv == TypeOK /\ Position /\ Recorded /\ Resumed /\ Passed /\ Ended

-----------------------------------------------------------------------------
(***************************************************************************)
(* The batch and the device.                                               *)
(***************************************************************************)

\* The configuration is a sequence of tasks (BatchConfig.tasks).
LEMMA BatchIsSequence ==
    ASSUME TypeOK
    PROVE  /\ Len(batch) \in Nat /\ DOMAIN batch = 1 .. Len(batch)
           /\ \A i \in DOMAIN batch : batch[i] \in Tasks /\ batch[i].name \in Names
           /\ \A i \in DOMAIN batch : batch[i].files \in Nat \ {0}
<1>1. batch \in Seq(Tasks)
  BY BatchAssumption DEF TypeOK
<1>2. Len(batch) \in Nat /\ DOMAIN batch = 1 .. Len(batch)
  BY <1>1
<1>3. \A i \in DOMAIN batch : batch[i] \in Tasks
  BY <1>1, ElementOfSeq, <1>2
<1>4. \A i \in DOMAIN batch : batch[i].files \in Nat /\ batch[i].files > 0
  BY <1>3, BatchAssumption DEF TypeOK, Tasks
<1>5. \A i \in DOMAIN batch : batch[i].name \in Names
  BY DEF Names
<1>6. QED
  BY <1>2, <1>3, <1>4, <1>5

\* A state file that is missing or empty lists nothing.
LEMMA NoFileIsState ==
    NoFile \in [readable : BOOLEAN, completed : SUBSET Names, failed : SUBSET Names]
  BY DEF NoFile

\* At a task, the index is in the batch and the task is not recorded.
LEMMA AtTask ==
    ASSUME TypeOK, Position, pc \in {"condition", "execute"}
    PROVE  /\ index \in DOMAIN batch /\ index + 1 \in 1 .. Len(batch) + 1
           /\ Task \in Tasks /\ Task.name \in Names
           /\ Task.files \in Nat \ {0} /\ part + 1 <= Task.files
           /\ Task.enabled /\ Task.name \notin completed
BY BatchIsSequence DEF TypeOK, Position, Task

\* What is on the device is of the batch's tasks.
LEMMA StoredGrows ==
    ASSUME TypeOK, NEW i \in DOMAIN batch, NEW more \in SUBSET Effect(i)
    PROVE  stored \cup more \subseteq UNION {Effect(j) : j \in DOMAIN batch}
BY DEF TypeOK

-----------------------------------------------------------------------------
(***************************************************************************)
(* How a task ends.  Around says what the callers leave alone.             *)
(***************************************************************************)
Around ==
    /\ UNCHANGED <<batch, failFast, file, history>>
    /\ faults' \in 0 .. MaxFaults
    /\ stored' \subseteq UNION {Effect(j) : j \in DOMAIN batch}

LEMMA SkipsKeeps ==
    ASSUME IInv, pc \in {"condition", "execute"}, Skips, Around, stored' = stored
    PROVE  IInv'
<1> USE BatchIsSequence, AtTask
<1>1. TypeOK'
  BY SMTT(30) DEF IInv, TypeOK, Skips, Around, memory, history, Names, Labels, Effect
<1>2. results' \in [DOMAIN batch -> {"none", "ok", "skipped", "failed"}]
      /\ \A i \in DOMAIN batch : results'[i] = IF i = index THEN "skipped" ELSE results[i]
  BY DEF IInv, TypeOK, Skips
<1>3. Position'
  BY DEF IInv, Position, Skips, Around, memory, history
<1>4. Recorded'
  BY DEF IInv, Recorded, Skips, Around, memory, history, Effect
<1>5. Resumed'
  BY DEF IInv, Resumed, Skips, Around, memory, history
<1>6. AnyFailed' => AnyFailed
  BY <1>2 DEF AnyFailed, Around
<1>7. Passed'
  BY <1>2, <1>6 DEF IInv, TypeOK, Passed, AnyFailed, Skips, Around, memory, history
<1>8. Ended'
  BY <1>2 DEF IInv, Ended, Skips, Around, memory, history
<1>9. QED
  BY <1>1, <1>3, <1>4, <1>5, <1>7, <1>8 DEF IInv

\* A task is marked as completed when all its files are on the device.
LEMMA SucceedsKeeps ==
    ASSUME IInv, pc = "execute", Succeeds, Around,
           stored \subseteq stored', Effect(index) \subseteq stored'
    PROVE  IInv'
<1> USE BatchIsSequence, AtTask
<1>1. TypeOK'
  BY SMTT(30) DEF IInv, TypeOK, Succeeds, Around, history, Names, Labels, Effect
<1>2. \A i \in DOMAIN batch : results'[i] = IF i = index THEN "ok" ELSE results[i]
  BY DEF IInv, TypeOK, Succeeds
<1>3. Position'
  BY DEF IInv, Position, Succeeds, Around, history
<1>4. \A i \in DOMAIN batch : batch[i].enabled /\ batch[i].name = Task.name => i = index
  BY BatchAssumption DEF IInv, TypeOK, Task
<1>5. Recorded'
  BY <1>4 DEF IInv, Recorded, Succeeds, Around, history, Effect
<1>6. Resumed'
  BY DEF IInv, Resumed, Succeeds, Around, history
<1>7. AnyFailed' => AnyFailed
  BY <1>2 DEF AnyFailed, Around
<1>8. Passed'
  BY <1>2, <1>7 DEF IInv, TypeOK, Passed, AnyFailed, Succeeds, Around, history, Task
<1>9. Ended'
  BY <1>2 DEF IInv, Ended, Succeeds, Around, history
<1>10. QED
  BY <1>1, <1>3, <1>5, <1>6, <1>8, <1>9 DEF IInv

\* An attempt that failed may have removed a file of its own task, no other's.
OthersStay ==
    \A i \in DOMAIN batch : i # index => Effect(i) \cap stored \subseteq stored'

LEMMA FailsForGoodKeeps ==
    ASSUME IInv, pc = "execute", FailsForGood, Around, OthersStay
    PROVE  IInv'
<1> USE BatchIsSequence, AtTask
<1>1. TypeOK'
  BY SMTT(30) DEF IInv, TypeOK, FailsForGood, Around, history, Names, Labels, Effect
<1>2. \A i \in DOMAIN batch : results'[i] = IF i = index THEN "failed" ELSE results[i]
  BY DEF IInv, TypeOK, FailsForGood
<1>3. Position'
  BY DEF IInv, Position, FailsForGood, Around, history
<1>4. Recorded'
  BY DEF IInv, Recorded, Resumed, FailsForGood, Around, OthersStay, history, Effect, Task
<1>5. Resumed'
  BY DEF IInv, Resumed, FailsForGood, Around, history
<1>6. AnyFailed'
  BY <1>2 DEF AnyFailed, Around, IInv
<1>7. Passed'
  BY <1>2, <1>6 DEF IInv, TypeOK, Passed, AnyFailed, FailsForGood, Around, history, Task
<1>8. Ended'
  BY <1>2 DEF IInv, Ended, FailsForGood, Around, history
<1>9. QED
  BY <1>1, <1>3, <1>4, <1>5, <1>7, <1>8 DEF IInv

LEMMA AttemptFailsKeeps ==
    ASSUME IInv, pc = "execute", AttemptFails, Around, OthersStay
    PROVE  IInv'
<1> USE BatchIsSequence, AtTask
<1>1. CASE ~MoreAttempts
  BY <1>1, FailsForGoodKeeps DEF AttemptFails
<1>2. CASE MoreAttempts
  <2> USE <1>2
  <2>1. attempt' \in 1 .. MaxAttempts
    BY BoundAssumption DEF IInv, TypeOK, AttemptFails, MoreAttempts
  <2>2. TypeOK'
    BY SMTT(30), <2>1 DEF IInv, TypeOK, AttemptFails, Around, memory, history, Names,
       Labels, Task, Effect
  <2>3. Position'
    BY DEF IInv, Position, AttemptFails, Around, memory, history, Task
  <2>4. Recorded'
    BY DEF IInv, Recorded, Resumed, AttemptFails, Around, OthersStay, memory, history,
           Effect, Task
  <2>5. Resumed'
    BY DEF IInv, Resumed, AttemptFails, Around, memory, history
  <2>6. Passed'
    BY DEF IInv, Passed, AnyFailed, AttemptFails, Around, memory, history
  <2>7. Ended'
    BY DEF IInv, Ended, AttemptFails, Around, memory, history
  <2>8. QED
    BY <2>2, <2>3, <2>4, <2>5, <2>6, <2>7 DEF IInv
<1>3. QED
  BY <1>1, <1>2

\* The next file of the same attempt.
LEMMA AfterFileKeeps ==
    ASSUME IInv, pc = "execute", AfterFile, Around,
           stored' = stored \cup {<<index, part + 1>>}
    PROVE  IInv'
<1> USE BatchIsSequence, AtTask
<1>1. CASE Task.verify
  BY <1>1, AttemptFailsKeeps DEF AfterFile, OthersStay
<1>2. CASE ~Task.verify /\ ~(part + 1 < Task.files)
  <2>1. part + 1 = Task.files /\ part \in Nat
    BY <1>2 DEF IInv, Position, Tasks
  <2>2. \A n \in 1 .. Task.files : n = part + 1 \/ n \in 1 .. part
    BY <2>1
  <2>3. Effect(index) \subseteq stored'
    BY <2>2 DEF IInv, Position, Effect, Task
  <2>4. QED
    BY <1>2, <2>3, SucceedsKeeps DEF AfterFile
<1>3. CASE ~Task.verify /\ part + 1 < Task.files
  <2> USE <1>3
  <2>1. part' = part + 1 /\ part' \in Nat
        /\ \A n \in 1 .. part' : n = part + 1 \/ n \in 1 .. part
    BY DEF AfterFile, IInv, Position
  <2>2. TypeOK'
    BY SMTT(30), <2>1 DEF IInv, TypeOK, AfterFile, Around, memory, history, Names,
       Labels, Task, Effect
  <2>3. Position'
    BY <2>1 DEF IInv, Position, AfterFile, Around, memory, history, Task
  <2>4. Recorded'
    BY DEF IInv, Recorded, AfterFile, Around, memory, history, Effect
  <2>5. Resumed'
    BY DEF IInv, Resumed, AfterFile, Around, memory, history
  <2>6. Passed'
    BY DEF IInv, Passed, AnyFailed, AfterFile, Around, memory, history
  <2>7. Ended'
    BY DEF IInv, Ended, AfterFile, Around, memory, history
  <2>8. QED
    BY <2>2, <2>3, <2>4, <2>5, <2>6, <2>7 DEF IInv
<1>4. QED
  BY <1>1, <1>2, <1>3

-----------------------------------------------------------------------------
(***************************************************************************)
(* The steps of a task.                                                    *)
(***************************************************************************)
LEMMA FaultCounts ==
    ASSUME TypeOK, Sound \/ \E f \in FaultKinds : Fault(f)
    PROVE  faults' \in 0 .. MaxFaults
BY BoundAssumption DEF TypeOK, Sound, Fault

LEMMA CheckConditionKeeps == IInv /\ CheckCondition => IInv'
<1> SUFFICES ASSUME IInv, CheckCondition PROVE IInv'
  OBVIOUS
<1> USE BatchIsSequence, AtTask
<1>1. pc = "condition" /\ Around /\ stored' = stored
  BY FaultCounts DEF CheckCondition, Around, history, IInv, TypeOK, FaultKinds
<1>2. CASE Skips
  BY <1>1, <1>2, SkipsKeeps
<1>3. CASE pc' = "execute" /\ UNCHANGED <<memory, after, position, results, outcome>>
  <2> USE <1>1, <1>3
  <2>1. TypeOK'
    BY SMTT(30) DEF IInv, TypeOK, Around, memory, position, history, Names, Labels,
       Task, Effect
  <2>2. Position'
    BY DEF IInv, Position, Around, memory, position, history, Task
  <2>3. Recorded' /\ Resumed'
    BY DEF IInv, Recorded, Resumed, Around, memory, history, Effect
  <2>4. Passed'
    BY DEF IInv, Passed, AnyFailed, Around, memory, position, history
  <2>5. Ended'
    BY DEF IInv, Ended, Around, memory, position, history
  <2>6. QED
    BY <2>1, <2>2, <2>3, <2>4, <2>5 DEF IInv
<1>4. QED
  BY <1>2, <1>3 DEF CheckCondition

LEMMA UploadKeeps == IInv /\ Upload => IInv'
<1> SUFFICES ASSUME IInv, Upload PROVE IInv'
  OBVIOUS
<1> USE BatchIsSequence, AtTask
<1> DEFINE one == {<<index, part + 1>>}
<1>1. pc = "execute" /\ UNCHANGED <<batch, failFast, file, history>>
  BY DEF Upload
<1>2. faults' \in 0 .. MaxFaults
  BY FaultCounts DEF Upload, FaultKinds, IInv
<1>3. one \in SUBSET Effect(index)
  BY <1>1 DEF IInv, Position, Effect, Task
<1>4. stored' \in {stored, stored \cup one, stored \ one}
  BY DEF Upload
<1>5. Around
  BY <1>1, <1>2, <1>3, <1>4, StoredGrows DEF Around, IInv, TypeOK
<1>6. OthersStay
  BY <1>3, <1>4 DEF OthersStay, Effect
<1>7. CASE stored' = stored \cup one /\ AfterFile
  BY <1>1, <1>5, <1>7, AfterFileKeeps
<1>8. CASE AttemptFails
  BY <1>1, <1>5, <1>6, <1>8, AttemptFailsKeeps
<1>9. QED
  BY <1>7, <1>8 DEF Upload

LEMMA KeepFileKeeps == IInv /\ KeepFile => IInv'
<1> SUFFICES ASSUME IInv, KeepFile PROVE IInv'
  OBVIOUS
<1>1. pc = "execute" /\ Skips /\ Around /\ stored' = stored
  BY FaultCounts DEF KeepFile, Around, history, IInv, TypeOK
<1>2. QED
  BY <1>1, SkipsKeeps

LEMMA CallMethodKeeps == IInv /\ CallMethod => IInv'
<1> SUFFICES ASSUME IInv, CallMethod PROVE IInv'
  OBVIOUS
<1> USE BatchIsSequence, AtTask
<1>1. pc = "execute" /\ stored' \in {stored, stored \cup Effect(index)}
  BY DEF CallMethod
<1>2. Around
  BY <1>1, FaultCounts, StoredGrows DEF CallMethod, Around, IInv, TypeOK, FaultKinds
<1>3. OthersStay
  BY <1>1 DEF OthersStay
<1>4. CASE stored' = stored \cup Effect(index) /\ Succeeds
  BY <1>1, <1>2, <1>4, SucceedsKeeps
<1>5. CASE AttemptFails
  BY <1>1, <1>2, <1>3, <1>5, AttemptFailsKeeps
<1>6. QED
  BY <1>4, <1>5 DEF CallMethod

LEMMA CallMissingMethodKeeps == IInv /\ CallMissingMethod => IInv'
<1> SUFFICES ASSUME IInv, CallMissingMethod PROVE IInv'
  OBVIOUS
<1>1. pc = "execute" /\ AttemptFails /\ Around /\ OthersStay
  BY FaultCounts DEF CallMissingMethod, Around, OthersStay, history, IInv, TypeOK
<1>2. QED
  BY <1>1, AttemptFailsKeeps

-----------------------------------------------------------------------------
(***************************************************************************)
(* The run around the tasks.                                               *)
(***************************************************************************)
LEMMA StartRunKeeps == IInv /\ StartRun => IInv'
<1> SUFFICES ASSUME IInv, StartRun PROVE IInv'
  OBVIOUS
<1> USE BatchIsSequence, FaultCounts
<1>1. TypeOK'
  <2>1. file' \in [readable : BOOLEAN, completed : SUBSET Names, failed : SUBSET Names]
    BY NoFileIsState DEF IInv, TypeOK, StartRun
  <2>2. results' \in [DOMAIN batch -> {"none", "ok", "skipped", "failed"}]
    BY DEF StartRun
  <2>3. QED
    BY <2>1, <2>2, BoundAssumption DEF IInv, TypeOK, StartRun, Names, Labels, Effect
<1>2. Position'
  BY DEF IInv, TypeOK, Position, StartRun, Task
<1>3. Recorded'
  BY DEF IInv, Recorded, StartRun, NoFile, Effect
<1>4. Resumed'
  BY DEF IInv, Resumed, StartRun, NoFile
<1>5. Passed'
  BY DEF IInv, TypeOK, Passed, AnyFailed, StartRun
<1>6. Ended'
  BY DEF IInv, TypeOK, Passed, Ended, StartRun
<1>7. QED
  BY <1>1, <1>2, <1>3, <1>4, <1>5, <1>6 DEF IInv

LEMMA LoadStateKeeps == IInv /\ LoadState => IInv'
<1> SUFFICES ASSUME IInv, LoadState PROVE IInv'
  OBVIOUS
<1> USE BatchIsSequence, FaultCounts
<1>1. TypeOK'
  BY BoundAssumption DEF IInv, TypeOK, LoadState, position, Names, Labels, NoFile, Effect, FaultKinds
<1>2. Position'
  BY DEF IInv, TypeOK, Position, LoadState, position, Task
<1>3. Recorded'
  BY DEF IInv, Recorded, LoadState, position, NoFile, Effect
<1>4. Resumed'
  BY DEF IInv, Resumed, LoadState, position, NoFile
<1>5. Passed'
  BY DEF IInv, TypeOK, Position, Passed, AnyFailed, LoadState, position
<1>6. Ended'
  BY DEF IInv, TypeOK, Passed, Ended, LoadState, position
<1>7. QED
  BY <1>1, <1>2, <1>3, <1>4, <1>5, <1>6 DEF IInv

LEMMA ConnectKeeps == IInv /\ Connect => IInv'
<1> SUFFICES ASSUME IInv, Connect PROVE IInv'
  OBVIOUS
<1> USE BatchIsSequence, FaultCounts
<1>1. TypeOK'
  BY SMTT(30), BoundAssumption DEF IInv, TypeOK, Connect, memory, position, history,
     Names, Labels, NoFile, Effect, FaultKinds
<1>2. Position'
  BY DEF IInv, TypeOK, Position, Connect, memory, position, history, Task
<1>3. Recorded'
  BY DEF IInv, Recorded, Connect, memory, position, history, NoFile, Effect
<1>4. Resumed'
  BY DEF IInv, Resumed, Connect, memory, position, history, NoFile
<1>5. Passed'
  BY DEF IInv, TypeOK, Passed, AnyFailed, Connect, memory, position, history
<1>6. Ended'
  BY DEF IInv, TypeOK, Passed, Ended, Connect, memory, position, history
<1>7. QED
  BY <1>1, <1>2, <1>3, <1>4, <1>5, <1>6 DEF IInv

LEMMA NextTaskKeeps == IInv /\ NextTask => IInv'
<1> SUFFICES ASSUME IInv, NextTask PROVE IInv'
  OBVIOUS
<1> USE BatchIsSequence, FaultCounts
<1>1. TypeOK'
  BY BoundAssumption DEF IInv, TypeOK, NextTask, Finish, PassedOver, Task, memory, history, Names, Labels, NoFile, Effect, FaultKinds
<1>2. Position'
  BY DEF IInv, TypeOK, Position, NextTask, Finish, PassedOver, Task, memory, history
<1>3. Recorded'
  BY DEF IInv, Recorded, NextTask, Finish, PassedOver, Task, memory, history, NoFile, Effect
<1>4. Resumed'
  BY DEF IInv, Resumed, NextTask, Finish, PassedOver, Task, memory, history, NoFile
<1>5. Passed'
  BY DEF IInv, TypeOK, Passed, AnyFailed, NextTask, Finish, PassedOver, Task, memory, history
<1>6. Ended'
  BY DEF IInv, TypeOK, Passed, Ended, NextTask, Finish, PassedOver, Task, memory, history
<1>7. QED
  BY <1>1, <1>2, <1>3, <1>4, <1>5, <1>6 DEF IInv

LEMMA SaveOpensKeeps == IInv /\ SaveOpens => IInv'
<1> SUFFICES ASSUME IInv, SaveOpens PROVE IInv'
  OBVIOUS
<1> USE BatchIsSequence, FaultCounts
<1>1. TypeOK'
  BY BoundAssumption DEF IInv, TypeOK, SaveOpens, memory, position, history, Names, Labels, NoFile, Effect, FaultKinds
<1>2. Position'
  BY DEF IInv, TypeOK, Position, SaveOpens, memory, position, history, Task
<1>3. Recorded'
  BY DEF IInv, Recorded, SaveOpens, memory, position, history, NoFile, Effect
<1>4. Resumed'
  BY DEF IInv, Resumed, SaveOpens, memory, position, history, NoFile
<1>5. Passed'
  BY DEF IInv, TypeOK, Passed, AnyFailed, SaveOpens, memory, position, history
<1>6. Ended'
  BY DEF IInv, TypeOK, Passed, Ended, SaveOpens, memory, position, history
<1>7. QED
  BY <1>1, <1>2, <1>3, <1>4, <1>5, <1>6 DEF IInv

LEMMA SaveDumpsKeeps == IInv /\ SaveDumps => IInv'
<1> SUFFICES ASSUME IInv, SaveDumps PROVE IInv'
  OBVIOUS
<1> USE BatchIsSequence, FaultCounts
<1>1. TypeOK'
  <2>1. file' \in [readable : BOOLEAN, completed : SUBSET Names, failed : SUBSET Names]
    <3>1. [readable |-> TRUE, completed |-> completed, failed |-> failed]
              \in [readable : BOOLEAN, completed : SUBSET Names, failed : SUBSET Names]
      BY DEF IInv, TypeOK
    <3>2. QED
      BY <3>1, NoFileIsState DEF SaveDumps
  <2>2. faults' \in 0 .. MaxFaults
    BY DEF IInv, SaveDumps, FaultKinds
  <2>3. pc' \in Labels
    BY DEF IInv, TypeOK, SaveDumps
  <2>4. pc' \notin {"condition", "execute"}
    BY DEF IInv, Position, SaveDumps
  <2>5. QED
    BY <2>1, <2>2, <2>3, <2>4 DEF IInv, TypeOK, SaveDumps, memory, position, Names, Effect
<1>2. Position'
  BY DEF IInv, TypeOK, Position, SaveDumps, memory, position, Task
<1>3. Recorded'
  BY DEF IInv, Recorded, SaveDumps, memory, position, NoFile, Effect
<1>4. Resumed'
  BY DEF IInv, Resumed, SaveDumps, memory, position, NoFile
<1>5. Passed'
  BY DEF IInv, TypeOK, Passed, AnyFailed, SaveDumps, memory, position
<1>6. Ended'
  BY DEF IInv, TypeOK, Passed, Ended, SaveDumps, memory, position
<1>7. QED
  BY <1>1, <1>2, <1>3, <1>4, <1>5, <1>6 DEF IInv

LEMMA EndRunKeeps == IInv /\ EndRun => IInv'
<1> SUFFICES ASSUME IInv, EndRun PROVE IInv'
  OBVIOUS
<1> USE BatchIsSequence, FaultCounts
<1>1. TypeOK'
  BY BoundAssumption DEF IInv, TypeOK, EndRun, memory, position, history, Names, Labels, NoFile, Effect, FaultKinds
<1>2. Position'
  BY DEF IInv, TypeOK, Position, EndRun, memory, position, history, Task
<1>3. Recorded'
  BY DEF IInv, Recorded, EndRun, memory, position, history, NoFile, Effect
<1>4. Resumed'
  BY DEF IInv, Resumed, EndRun, memory, position, history, NoFile
<1>5. Passed'
  BY DEF IInv, TypeOK, Passed, AnyFailed, EndRun, memory, position, history
<1>6. Ended'
  <2>1. ASSUME outcome' = "success", NEW i \in DOMAIN batch, batch[i].enabled
        PROVE  results[i] = "skipped" \/ batch[i].name \in completed
    <3>1. outcome # "stopped" /\ \A j \in DOMAIN batch : results[j] # "failed"
      BY <2>1 DEF EndRun
    <3>2. i < index
      BY <3>1 DEF IInv, Ended, EndRun
    <3>3. results[i] \in {"none", "ok", "skipped"}
      BY <3>1 DEF IInv, TypeOK
    <3>4. QED
      BY <2>1, <3>1, <3>2, <3>3 DEF IInv, Passed, AnyFailed
  <2>2. QED
    BY <2>1 DEF IInv, Ended, EndRun, memory, position, history
<1>7. QED
  BY <1>1, <1>2, <1>3, <1>4, <1>5, <1>6 DEF IInv

LEMMA KillKeeps == IInv /\ Kill => IInv'
<1> SUFFICES ASSUME IInv, Kill PROVE IInv'
  OBVIOUS
<1> USE BatchIsSequence, FaultCounts
<1>1. TypeOK'
  BY BoundAssumption DEF IInv, TypeOK, Kill, memory, position, history, Names, Labels, NoFile, Effect, FaultKinds
<1>2. Position'
  BY DEF IInv, TypeOK, Position, Kill, memory, position, history, Task
<1>3. Recorded'
  BY DEF IInv, Recorded, Kill, memory, position, history, NoFile, Effect
<1>4. Resumed'
  BY DEF IInv, Resumed, Kill, memory, position, history, NoFile
<1>5. Passed'
  BY DEF IInv, TypeOK, Passed, AnyFailed, Kill, memory, position, history
<1>6. Ended'
  BY DEF IInv, TypeOK, Passed, Ended, Kill, memory, position, history
<1>7. QED
  BY <1>1, <1>2, <1>3, <1>4, <1>5, <1>6 DEF IInv

LEMMA InterruptKeeps == IInv /\ Interrupt => IInv'
<1> SUFFICES ASSUME IInv, Interrupt PROVE IInv'
  OBVIOUS
<1> USE BatchIsSequence, FaultCounts
<1>1. TypeOK'
  BY SMTT(30), BoundAssumption DEF IInv, TypeOK, Interrupt, Finish, memory, position,
     history, Names, Labels, NoFile, Effect, FaultKinds
<1>2. Position'
  BY DEF IInv, TypeOK, Position, Interrupt, Finish, memory, position, history, Task
<1>3. Recorded'
  BY DEF IInv, Recorded, Interrupt, Finish, memory, position, history, NoFile, Effect
<1>4. Resumed'
  BY DEF IInv, Resumed, Interrupt, Finish, memory, position, history, NoFile
<1>5. Passed'
  BY DEF IInv, TypeOK, Passed, AnyFailed, Interrupt, Finish, memory, position, history
<1>6. Ended'
  BY DEF IInv, TypeOK, Passed, Ended, Interrupt, Finish, memory, position, history
<1>7. QED
  BY <1>1, <1>2, <1>3, <1>4, <1>5, <1>6 DEF IInv

-----------------------------------------------------------------------------
(***************************************************************************)
(* The invariant is inductive.                                             *)
(***************************************************************************)
LEMMA InitEstablishes == Init => IInv
<1> SUFFICES ASSUME Init PROVE IInv
  OBVIOUS
<1>1. batch \in Seq(Tasks)
  BY BatchAssumption DEF Init
<1>2. Len(batch) \in Nat /\ DOMAIN batch = 1 .. Len(batch)
  BY <1>1
<1>3. TypeOK
  BY <1>2, BoundAssumption DEF Init, TypeOK, NoFile, Labels
<1>4. Position /\ Recorded /\ Resumed
  BY DEF Init, Position, Recorded, Resumed, NoFile
<1>5. Passed /\ Ended
  BY <1>2 DEF Init, Passed, AnyFailed, Ended
<1>6. QED
  BY <1>3, <1>4, <1>5 DEF IInv

LEMMA Inductive == IInv /\ [Next]_vars => IInv'
<1>1. IInv /\ RunnerStep => IInv'
  BY LoadStateKeeps, ConnectKeeps, NextTaskKeeps, CheckConditionKeeps, UploadKeeps,
     KeepFileKeeps, CallMethodKeeps, CallMissingMethodKeeps, SaveOpensKeeps,
     SaveDumpsKeeps, EndRunKeeps DEF RunnerStep
<1>2. IInv /\ UNCHANGED vars => IInv'
  BY DEF vars, memory, position, history, IInv, TypeOK, Position, Recorded, Resumed,
         Passed, AnyFailed, Ended, Names, Task, Effect
<1>3. QED
  BY <1>1, <1>2, StartRunKeeps, KillKeeps, InterruptKeeps DEF Next

LEMMA Invariance == Spec => []IInv
<1>1. Init => IInv
  BY InitEstablishes
<1>2. IInv /\ [Next]_vars => IInv'
  BY Inductive
<1>3. QED
  BY <1>1, <1>2, PTL DEF Spec

\* Every variable keeps its type: the runner stays within the batch, an attempt
\* within its count, and a task that is recorded is never taken up again.
THEOREM TypeCorrect == Spec => []TypeOK
<1>1. IInv => TypeOK
  BY DEF IInv
<1>2. QED
  BY <1>1, Invariance, PTL

\* What the state file or the memory lists as completed is on the device, and a
\* run that reports success has every task done or skipped by its own condition,
\* whatever failed or was killed before.
THEOREM RecordIsTrue == Spec => []RecordedIsDone
<1>1. IInv => RecordedIsDone
  <2> SUFFICES ASSUME IInv, NEW i \in DOMAIN batch, batch[i].enabled
               PROVE  /\ batch[i].name \in completed \cup file.completed =>
                             Effect(i) \subseteq stored
                      /\ outcome = "success" /\ pc = "idle" /\ results[i] # "skipped" =>
                             Effect(i) \subseteq stored
    BY DEF RecordedIsDone
  <2>1. QED
    BY DEF IInv, Recorded, Ended
<1>2. QED
  BY <1>1, Invariance, PTL

-----------------------------------------------------------------------------
(***************************************************************************)
(* What a step may not do.                                                 *)
(***************************************************************************)

\* Only a task that has passed its condition is executed, or goes on.
LEMMA ExecutesFrom ==
    ASSUME Next, IInv, pc' = "execute"
    PROVE  pc \in {"condition", "execute"}
<1>1. ~StartRun /\ ~Kill /\ ~Interrupt
  BY DEF StartRun, Kill, Interrupt, Finish
<1>2. ~LoadState /\ ~Connect /\ ~NextTask /\ ~SaveOpens /\ ~EndRun
  BY DEF LoadState, Connect, NextTask, Finish, SaveOpens, EndRun
<1>3. ~SaveDumps
  BY DEF SaveDumps, IInv, Position
<1>4. QED
  BY <1>1, <1>2, <1>3
     DEF Next, RunnerStep, CheckCondition, Upload, KeepFile, CallMethod, CallMissingMethod

\* A task that was saved as completed is not executed by the runs that resume it.
THEOREM ResumedRunsSkip == Spec => ResumeSkipsDone
<1>1. IInv /\ [Next]_vars => [pc' = "execute" => Task.name \notin done]_vars
  <2> SUFFICES ASSUME IInv, Next, pc' = "execute" PROVE Task.name \notin done
    OBVIOUS
  <2>1. pc \in {"condition", "execute"}
    BY ExecutesFrom
  <2>2. QED
    BY <2>1, AtTask DEF IInv, Resumed
<1>2. QED
  BY <1>1, Invariance, PTL DEF Spec, ResumeSkipsDone

\* With fail_fast, nothing changes on the device once a task has failed.
THEOREM FailFastStops == Spec => NothingAfterFailure
<1>1. ASSUME IInv, Next, failFast, \E i \in DOMAIN batch : results[i] = "failed"
      PROVE  stored' = stored
  <2>1. pc \notin {"condition", "execute"}
    <3>1. index = Len(batch) + 1
      BY <1>1 DEF IInv, Passed, AnyFailed
    <3>2. QED
      BY <1>1, <3>1, BatchIsSequence DEF IInv, Position
  <2>2. QED
    BY <1>1, <2>1
       DEF Next, RunnerStep, StartRun, LoadState, Connect, NextTask, CheckCondition, Upload,
           KeepFile, CallMethod, CallMissingMethod, SaveOpens, SaveDumps, EndRun, Kill,
           Interrupt
<1>2. IInv /\ [Next]_vars =>
        [failFast /\ (\E i \in DOMAIN batch : results[i] = "failed") /\ runs' = runs =>
            stored' = stored]_vars
  BY <1>1
<1>3. QED
  BY <1>2, Invariance, PTL DEF Spec, NothingAfterFailure
=============================================================================
