---------------------------- MODULE AtomicUpload ----------------------------
(***************************************************************************)
(* What the upload session promises its host: files are replaced whole, at *)
(* the moment the upload is acknowledged, or not at all.  There is no      *)
(* temporary file, no rename and no session state here: an upload collects *)
(* its data apart from the store, and either becomes the target's content  *)
(* in one step or vanishes.                                                *)
(***************************************************************************)
EXTENDS Naturals, Sequences

CONSTANTS
    Bytes,      \* what a file is a sequence of
    Targets,    \* the names a host sees
    Absent,     \* what a free name holds
    Directory,  \* what the name of a directory holds
    NoUpload    \* no upload runs

VARIABLES
    store,      \* what each name holds
    upload      \* the upload that runs, or NoUpload

avars == <<store, upload>>

Running == upload # NoUpload

Init ==
    /\ store \in [Targets -> Seq(Bytes) \cup {Absent, Directory}]
    /\ upload = NoUpload

Begin ==
    /\ ~Running
    /\ upload' \in [path : Targets, total : Nat, data : {<<>>}]
    /\ UNCHANGED store

\* Data only ever extends the upload, and never past its declared size.
Receive ==
    /\ Running /\ upload' # NoUpload
    /\ Len(upload'.data) > Len(upload.data)
    /\ Len(upload'.data) <= upload.total
    /\ SubSeq(upload'.data, 1, Len(upload.data)) = upload.data
    /\ upload' = [upload EXCEPT !.data = upload'.data]
    /\ UNCHANGED store

Commit ==
    /\ Running
    /\ Len(upload.data) = upload.total
    /\ store' = [store EXCEPT ![upload.path] = upload.data]
    /\ upload' = NoUpload

Cancel ==
    /\ Running
    /\ upload' = NoUpload
    /\ UNCHANGED store

\* A command that changes names: only while no upload runs.
Command ==
    /\ ~Running
    /\ store' \in [Targets -> Seq(Bytes) \cup {Absent, Directory}]
    /\ UNCHANGED upload

\* A copy, which may also run beside an upload, changes one name.
CopyInto(n) ==
    /\ store' \in [Targets -> Seq(Bytes) \cup {Absent, Directory}]
    /\ \A m \in Targets \ {n} : store'[m] = store[m]
    /\ UNCHANGED upload

Next ==
    \/ Begin \/ Receive \/ Commit \/ Cancel
    \/ Command
    \/ \E n \in Targets : CopyInto(n)

Spec == Init /\ [][Next]_avars
=============================================================================
