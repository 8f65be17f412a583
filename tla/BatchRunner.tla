----------------------------- MODULE BatchRunner -----------------------------
(***************************************************************************)
(* The batch runner of the host tools, batch_runner.py with the state file *)
(* it resumes from: src/tools_py/esp_idf_uart_filebridge.                  *)
(*                                                                         *)
(* A step is one call of the device, or one write to the state file, with  *)
(* what the runner does up to it.  The process may be killed between any   *)
(* two steps, and interrupted by the user, who may then start it again,    *)
(* with --resume or without.  What a call of the device does to a file is  *)
(* in UploadSystem and Backends; here an upload is done or it is not.      *)
(***************************************************************************)
EXTENDS Naturals, Sequences, FiniteSets

CONSTANTS
    Batches,        \* the configurations: sequences of tasks
    MaxAttempts,    \* retry.max_attempts
    MaxRuns,        \* bound: runs of the batch
    MaxFaults,      \* bound: what fails or is killed in all
    Faults          \* what may go wrong around the program

FaultKinds == {"connect", "call", "stat", "source", "save", "kill", "interrupt"}
Types == {"upload", "upload_dir", "other", "missing"}
Conditions == {"none", "absent", "hash"}

\* type "other": one call of a method that exists (download, mkdir, copy, list,
\* verify_size); "missing": of one that ESP32Protocol does not have (delete,
\* rename, check_hash, check_space).  files: how many are uploaded.
Tasks == [name : STRING, type : Types, condition : Conditions, enabled : BOOLEAN,
          verify : BOOLEAN, overwrite : BOOLEAN, files : Nat]

\* validate_tasks: no two enabled tasks have one name.
ASSUME BatchAssumption ==
    \A b \in Batches :
        /\ b \in Seq(Tasks)
        /\ \A i, j \in DOMAIN b : b[i].name = b[j].name /\ b[i].enabled /\ b[j].enabled => i = j
        /\ \A i \in DOMAIN b : b[i].files > 0 /\ (b[i].type # "upload_dir" => b[i].files = 1)
ASSUME BoundAssumption ==
    /\ MaxAttempts \in Nat \ {0} /\ MaxRuns \in Nat /\ MaxFaults \in Nat
    /\ Faults \subseteq FaultKinds

VARIABLES
    batch,          \* the configuration
    failFast,       \* options.fail_fast
    file,           \* the state file: the tasks it lists, or that it cannot be read
    completed,      \* BatchState.completed_tasks
    failed,         \* BatchState.failed_tasks
    pc,             \* where execute is
    after,          \* where it goes on after save
    index,          \* the task
    attempt,        \* and the attempt at it
    part,           \* how many files of an upload_dir this attempt has uploaded
    results,        \* the results of the run, by task: ok, skipped, failed
    outcome,        \* how the last run ended: none, success, failure, stopped
    stored,         \* the effects on the device: pairs of a task and a file
    runs,           \* how many runs there have been
    faults,         \* how many faults
    done            \* history: the tasks saved as completed by the runs since the last
                    \* one that found no state to resume from

memory == <<completed, failed>>
position == <<index, attempt, part>>
history == <<runs, done>>
vars == <<batch, failFast, file, memory, pc, after, position, results, outcome,
          stored, faults, history>>

NoFile == [readable |-> FALSE, completed |-> {}, failed |-> {}]
Labels == {"idle", "load", "connect", "next", "condition", "execute", "save", "dump", "end"}
Names == {batch[i].name : i \in DOMAIN batch}

\* The files of task i are all on the device.
Effect(i) == {i} \X (1 .. batch[i].files)

TypeOK ==
    /\ batch \in Batches /\ failFast \in BOOLEAN
    /\ file \in [readable : BOOLEAN, completed : SUBSET Names, failed : SUBSET Names]
    /\ completed \subseteq Names /\ failed \subseteq Names /\ done \subseteq Names
    /\ pc \in Labels /\ after \in Labels
    /\ index \in 1 .. Len(batch) + 1
    /\ attempt \in 1 .. MaxAttempts
    /\ pc \in {"condition", "execute"} =>
           part < batch[index].files /\ batch[index].name \notin completed
    /\ results \in [DOMAIN batch -> {"none", "ok", "skipped", "failed"}]
    /\ outcome \in {"none", "success", "failure", "stopped"}
    /\ stored \subseteq UNION {Effect(i) : i \in DOMAIN batch}
    /\ runs \in 0 .. MaxRuns /\ faults \in 0 .. MaxFaults

Init ==
    /\ batch \in Batches /\ failFast \in BOOLEAN
    /\ file = NoFile /\ completed = {} /\ failed = {}
    /\ pc = "idle" /\ after = "idle"
    /\ index = 1 /\ attempt = 1 /\ part = 0
    /\ results = [i \in DOMAIN batch |-> "none"] /\ outcome = "none"
    /\ stored = {}
    /\ runs = 0 /\ faults = 0 /\ done = {}

-----------------------------------------------------------------------------
Task == batch[index]

Fault(f) == f \in Faults /\ faults < MaxFaults /\ faults' = faults + 1
Sound == UNCHANGED faults

\* handle_batch_command: without --resume, and with --clear-state, the state
\* file is removed.
StartRun ==
    /\ pc = "idle" /\ runs < MaxRuns
    /\ runs' = runs + 1
    /\ file' \in {file, NoFile}
    /\ pc' = "load"
    /\ completed' = {} /\ failed' = {}
    /\ index' = 1 /\ attempt' = 1 /\ part' = 0
    /\ results' = [i \in DOMAIN batch |-> "none"]
    /\ outcome' = "none"
    /\ UNCHANGED <<batch, failFast, after, stored, faults, done>>

\* A file that cannot be parsed is warned of, and the state is empty.
LoadState ==
    /\ pc = "load"
    /\ pc' = "connect"
    /\ completed' = file.completed /\ failed' = file.failed
    /\ done' = IF file.readable THEN done ELSE {}
    /\ UNCHANGED <<batch, failFast, file, after, position, results, outcome, stored, faults, runs>>

\* A failure returns before the try that saves the state.
Connect ==
    /\ pc = "connect"
    /\ \/ Sound /\ pc' = "next" /\ UNCHANGED outcome
       \/ Fault("connect") /\ pc' = "idle" /\ outcome' = "failure"
    /\ UNCHANGED <<batch, failFast, file, memory, after, position, results, stored, history>>

\* The end of the loop; its finally saves the state.
Finish(ending) ==
    /\ pc' = "save" /\ after' = "end"
    /\ outcome' = ending

\* Mutant of PassedOver: a completed task is run again.
NotEnabled(task) == ~task.enabled

PassedOver(task) == ~task.enabled \/ task.name \in completed

NextTask ==
    /\ pc = "next"
    /\ IF index > Len(batch)
       THEN Finish("none") /\ UNCHANGED index
       ELSE /\ IF PassedOver(Task) THEN pc' = "next" /\ index' = index + 1
                                   ELSE pc' = "condition" /\ UNCHANGED index
            /\ UNCHANGED <<after, outcome>>
    /\ attempt' = 1 /\ part' = 0
    /\ UNCHANGED <<batch, failFast, file, memory, results, stored, faults, history>>

-----------------------------------------------------------------------------
\* A task that was skipped is not marked, and the loop goes on.
Skips ==
    /\ results' = [results EXCEPT ![index] = "skipped"]
    /\ pc' = "next" /\ index' = index + 1
    /\ UNCHANGED <<memory, after, attempt, part, outcome>>

Succeeds ==
    /\ results' = [results EXCEPT ![index] = "ok"]
    /\ completed' = completed \cup {Task.name}
    /\ pc' = "save" /\ after' = "next"
    /\ index' = index + 1
    /\ UNCHANGED <<failed, attempt, part, outcome>>

\* Mutant of FailsForGood: fail_fast does not leave the loop.
FailsAndGoesOn ==
    /\ results' = [results EXCEPT ![index] = "failed"]
    /\ failed' = failed \cup {Task.name}
    /\ pc' = "save" /\ after' = "next"
    /\ index' = index + 1
    /\ UNCHANGED <<completed, attempt, part, outcome>>

\* mark_failed; with fail_fast break leaves the loop.
FailsForGood ==
    /\ results' = [results EXCEPT ![index] = "failed"]
    /\ failed' = failed \cup {Task.name}
    /\ pc' = "save" /\ after' = "next"
    /\ index' = IF failFast THEN Len(batch) + 1 ELSE index + 1
    /\ UNCHANGED <<completed, attempt, part, outcome>>

\* Mutant of MoreAttempts: the count is off by one.
OneAttemptMore == attempt <= MaxAttempts

MoreAttempts == attempt < MaxAttempts

\* Mutant of AttemptFails: the attempts are not counted.
AttemptUncounted ==
    /\ part' = 0 /\ pc' = "condition"
    /\ UNCHANGED <<memory, after, index, attempt, results, outcome>>

\* Another attempt starts from the condition; the last one fails the task.
AttemptFails ==
    \/ /\ MoreAttempts
       /\ attempt' = attempt + 1 /\ part' = 0
       /\ pc' = "condition"
       /\ UNCHANGED <<memory, after, index, results, outcome>>
    \/ ~MoreAttempts /\ FailsForGood

\* file_not_exists holds also when the stat failed for another reason.  The hash
\* and space conditions call methods ESP32Protocol does not have: never true.
CheckCondition ==
    LET there == <<index, 1>> \in stored IN
    /\ pc = "condition"
    /\ \/ /\ Sound
          /\ IF Task.condition = "hash" \/ (Task.condition = "absent" /\ there)
             THEN Skips
             ELSE /\ pc' = "execute"
                  /\ UNCHANGED <<memory, after, position, results, outcome>>
       \/ /\ Task.condition = "absent" /\ there /\ Fault("stat")
          /\ pc' = "execute"
          /\ UNCHANGED <<memory, after, position, results, outcome>>
    /\ UNCHANGED <<batch, failFast, file, stored, history>>

\* What is there is not written again: a file, with overwrite false; a directory.
KeepsFile == Task.type \in {"upload", "other"} /\ ~Task.overwrite /\ <<index, 1>> \in stored

\* What the task does after the file it has just sent: its CRC32 is a method
\* that does not exist, so a verified upload fails.
AfterFile ==
    IF Task.verify THEN AttemptFails
    ELSE IF part + 1 < Task.files
         THEN /\ part' = part + 1 /\ pc' = "execute"
              /\ UNCHANGED <<memory, after, index, attempt, results, outcome>>
         ELSE Succeeds

\* upload_file, for the next file of the task: three attempts of its own, then
\* it raises.  The file may be there all the same, its answer lost, and what it
\* was to replace may be gone.  A failed stat is taken for a file that is not there.
Upload ==
    LET one == {<<index, part + 1>>} IN
    /\ pc = "execute" /\ Task.type \in {"upload", "upload_dir"}
    /\ \/ /\ IF KeepsFile THEN Fault("stat") ELSE Sound
          /\ stored' = stored \cup one /\ AfterFile
       \/ ~KeepsFile /\ Fault("call") /\ stored' \in {stored, stored \cup one, stored \ one} /\ AttemptFails
       \/ Fault("source") /\ UNCHANGED stored /\ AttemptFails
    /\ UNCHANGED <<batch, failFast, file, history>>

KeepFile ==
    /\ pc = "execute" /\ KeepsFile
    /\ Sound /\ Skips
    /\ UNCHANGED <<batch, failFast, file, stored, history>>

\* Mutant of CallMethod: an error of the device is ignored.
CallIgnored ==
    /\ pc = "execute" /\ Task.type = "other" /\ ~KeepsFile
    /\ \/ Sound /\ stored' = stored \cup Effect(index)
       \/ Fault("call") /\ UNCHANGED stored
    /\ Succeeds
    /\ UNCHANGED <<batch, failFast, file, history>>

CallMethod ==
    /\ pc = "execute" /\ Task.type = "other" /\ ~KeepsFile
    /\ \/ Sound /\ stored' = stored \cup Effect(index) /\ Succeeds
       \/ Fault("call") /\ stored' \in {stored, stored \cup Effect(index)} /\ AttemptFails
    /\ UNCHANGED <<batch, failFast, file, history>>

\* An AttributeError, before anything is sent.
CallMissingMethod ==
    /\ pc = "execute" /\ Task.type = "missing"
    /\ Sound /\ AttemptFails
    /\ UNCHANGED <<batch, failFast, file, stored, history>>

-----------------------------------------------------------------------------
\* save: open "w" empties the file, json.dump fills it.
SaveOpens ==
    /\ pc = "save"
    /\ file' = NoFile
    /\ pc' = "dump"
    /\ UNCHANGED <<batch, failFast, memory, after, position, results, outcome, stored, faults, history>>

\* A failure is only warned of.
SaveDumps ==
    /\ pc = "dump"
    /\ \/ /\ Sound
          /\ file' = [readable |-> TRUE, completed |-> completed, failed |-> failed]
          /\ done' = done \cup completed
       \/ Fault("save") /\ file' = NoFile /\ UNCHANGED done
    /\ pc' = after
    /\ UNCHANGED <<batch, failFast, memory, after, position, results, outcome, stored, runs>>

\* execute returns: every result that was not skipped is a success.
EndRun ==
    /\ pc = "end"
    /\ pc' = "idle"
    /\ outcome' = IF outcome = "stopped" THEN "stopped"
                  ELSE IF \E i \in DOMAIN batch : results[i] = "failed" THEN "failure" ELSE "success"
    /\ UNCHANGED <<batch, failFast, file, memory, after, position, results, stored, faults, history>>

\* The process is killed, or the host loses power.
Kill ==
    /\ pc # "idle" /\ Fault("kill")
    /\ pc' = "idle" /\ outcome' = "stopped"
    /\ UNCHANGED <<batch, failFast, file, memory, after, position, results, stored, history>>

\* Ctrl+C: inside the try the finally saves the state, also when it was the
\* interrupted save of a mark; outside of it the process ends.
Interrupt ==
    /\ pc # "idle" /\ Fault("interrupt")
    /\ IF pc \in {"load", "connect"} \/ (pc \in {"save", "dump", "end"} /\ after = "end")
       THEN /\ pc' = "idle" /\ outcome' = "stopped" /\ UNCHANGED after
       ELSE Finish("stopped")
    /\ UNCHANGED <<batch, failFast, file, memory, position, results, stored, history>>

-----------------------------------------------------------------------------
RunnerStep ==
    \/ LoadState \/ Connect \/ NextTask
    \/ CheckCondition \/ Upload \/ KeepFile \/ CallMethod \/ CallMissingMethod
    \/ SaveOpens \/ SaveDumps \/ EndRun

Next == StartRun \/ RunnerStep \/ Kill \/ Interrupt

\* The runner goes on by itself; that it is started again is not assumed.
Spec == Init /\ [][Next]_vars /\ WF_vars(RunnerStep)

-----------------------------------------------------------------------------
(***************************************************************************)
(* Properties.                                                             *)
(***************************************************************************)
\* What is recorded as completed, in memory or on disk, is done, whatever failed
\* or was killed in this run and the ones it resumes; and a run that reports
\* success has every task done or skipped by its own condition.
RecordedIsDone ==
    \A i \in DOMAIN batch : batch[i].enabled =>
        /\ batch[i].name \in completed \cup file.completed => Effect(i) \subseteq stored
        /\ outcome = "success" /\ pc = "idle" /\ results[i] # "skipped" =>
               Effect(i) \subseteq stored

\* --resume "after interruption" (README): a task that was saved as completed is
\* not run again by the runs that resume it, however often they fail or are
\* killed, as long as each of them finds a state to resume from.
ResumeSkipsDone == [][pc' = "execute" => Task.name \notin done]_vars

\* With fail_fast nothing is sent to the device after a task has failed.
NothingAfterFailure ==
    [][failFast /\ (\E i \in DOMAIN batch : results[i] = "failed") /\ runs' = runs =>
          stored' = stored]_vars

\* Every run ends: no task is tried for ever, whatever the device answers.
RunEnds == pc # "idle" ~> pc = "idle"
=============================================================================
