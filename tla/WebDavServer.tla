---------------------------- MODULE WebDavServer ----------------------------
(***************************************************************************)
(* The WebDAV server: requests on several threads over one ESP32Protocol   *)
(* and one cache of directory listings, webdav/provider.py in              *)
(* src/tools_py/esp_idf_uart_filebridge, down to the device's answers.     *)
(*                                                                         *)
(* One folder.  A step is one call of the protocol object, which its lock  *)
(* makes atomic (with_lock), or one of the cache: between two of them any  *)
(* other request may take a step.  The order in which a request makes its  *)
(* calls is WsgiDAV's, which also gives a PUT that raises no close().      *)
(*                                                                         *)
(* Every frame the device sends and nobody reads stays in front of the     *)
(* answers to come.  The host numbers the frames it receives: after a lost *)
(* one no frame is accepted until HELLO, which this server sends once.     *)
(***************************************************************************)
EXTENDS Naturals, Sequences, FiniteSets, FiniteSetsExt, SequencesExt

CONSTANTS
    Threads,        \* the threads that serve requests
    Names,          \* the names in the folder
    Initially,      \* the ones that are there at first
    Operations,     \* the kinds of request made
    Sizes,          \* sizes of the bodies, in chunks
    MaxRequests,    \* bound: requests a thread serves
    MaxFaults,      \* bound: answers lost or late
    Faults,         \* what may go wrong: the device refuses, an answer is lost or late
    Absent, None    \* no file; nothing

Attempts == 3

ASSUME ServerAssumption ==
    /\ IsFiniteSet(Names) /\ Names # {} /\ Initially \subseteq Names /\ Sizes \subseteq Nat
    /\ Operations \subseteq {"LIST", "PUT", "DELETE", "MOVE"}
    /\ MaxRequests \in Nat /\ MaxFaults \in Nat
    /\ Faults \subseteq {"refuse", "lost", "late"}

VARIABLES
    files,          \* device: the contents, as sequences of the requests the chunks are of
    upload,         \* device: the active transfer, or None
    answers,        \* the frames sent to the host that it has not read
    deaf,           \* the host refuses every frame for its number
    faults,         \* how many answers were lost or late
    cache,          \* the listing of the folder in DirectoryCache, or None
    pc, request,    \* each thread: where it is, and in what request
    count,          \* attempts made, or chunks sent
    listing,        \* the listing it has fetched
    served,         \* how many requests it has accepted
    result,         \* how the last one ended: none, ok, error
    stored,         \* history: the contents of its PUT were, once, the file's
    clean,          \* history: since its BEGIN it had the line to itself, in step
    changed         \* history: it has changed the names, and not invalidated the cache since

device == <<files, upload>>
line == <<answers, deaf, faults>>
threads == <<request, count, listing, served, result>>
history == <<stored, clean, changed>>
vars == <<device, line, cache, pc, threads, history>>

Labels == {"idle", "resolve", "fetch", "keep", "create", "create_end", "create_abort",
           "created", "begin", "data", "end", "abort", "delete", "move", "changed"}
Requests == [op : Operations, name : Names, to : Names, size : Sizes]
Ids == Threads \X (1 .. MaxRequests)
Frames == [kind : {"ack", "nack", "missing", "end"}, name : {None}]
          \cup [kind : {"entry"}, name : Names]

\* What a file holds: the request that each chunk is of.  A transfer never holds
\* more than was declared.
Contents == Seq(Ids) \cup {Absent}
Transfers ==
    {u \in [name : Names, total : Sizes \cup {0}, data : Seq(Ids)] : Len(u.data) <= u.total}
Listings == [names : SUBSET Names, old : BOOLEAN, excused : BOOLEAN]

Present == {n \in Names : files[n] # Absent}

TypeOK ==
    /\ files \in [Names -> Contents]
    /\ upload = None \/ upload \in Transfers
    /\ answers \in Seq(Frames)
    /\ deaf \in BOOLEAN /\ (deaf => answers = <<>>) /\ faults \in 0 .. MaxFaults
    /\ cache = None \/ cache \in Listings
    /\ pc \in [Threads -> Labels] /\ request \in [Threads -> Requests \cup {None}]
    /\ count \in [Threads -> Nat] /\ listing \in [Threads -> SUBSET Names]
    /\ served \in [Threads -> 0 .. MaxRequests]
    /\ \A t \in Threads :
        /\ pc[t] # "idle" => request[t] \in Requests /\ served[t] > 0
        /\ count[t] < Attempts \/ (pc[t] = "data" /\ count[t] < request[t].size)
    /\ result \in [Threads -> {"none", "ok", "error"}]
    /\ \A h \in {stored, clean, changed} : h \in [Threads -> BOOLEAN]

Init ==
    /\ files = [n \in Names |-> IF n \in Initially THEN <<>> ELSE Absent] /\ upload = None
    /\ answers = <<>> /\ deaf = FALSE /\ faults = 0
    /\ cache = None
    /\ pc = [t \in Threads |-> "idle"] /\ request = [t \in Threads |-> None]
    /\ count = [t \in Threads |-> 0] /\ listing = [t \in Threads |-> {}]
    /\ served = [t \in Threads |-> 0] /\ result = [t \in Threads |-> "none"]
    /\ stored = [t \in Threads |-> FALSE] /\ clean = [t \in Threads |-> FALSE]
    /\ changed = [t \in Threads |-> FALSE]

-----------------------------------------------------------------------------
(***************************************************************************)
(* The device: what a command may do to it, and the frame it answers with. *)
(***************************************************************************)
Frame(kind) == [kind |-> kind, name |-> None]
Effect(newFiles, newUpload, kind) == [files |-> newFiles, upload |-> newUpload, kind |-> kind]
Answered(kind) == Effect(files, upload, kind)
Refused == IF "refuse" \in Faults THEN {Answered("nack")} ELSE {}

Id(t) == <<t, served[t]>>
Body(t) == [k \in 1 .. request[t].size |-> Id(t)]

BeginEffects(name, total) ==
    IF upload # None THEN {Answered("nack")}
    ELSE {Effect(files, [name |-> name, total |-> total, data |-> <<>>], "ack")} \cup Refused

\* A chunk is not answered unless it is refused, which ends the transfer.
DataEffects(chunk) ==
    LET cut == {Effect(files, None, "nack")} IN
    IF upload = None \/ Len(upload.data) = upload.total THEN cut
    ELSE {Effect(files, [upload EXCEPT !.data = Append(@, chunk)], "none")}
         \cup (IF "refuse" \in Faults THEN cut ELSE {})

\* The replaced file may be gone when the rename of the new one fails.
EndEffects ==
    IF upload = None \/ Len(upload.data) # upload.total THEN {Effect(files, None, "nack")}
    ELSE {Effect([files EXCEPT ![upload.name] = upload.data], None, "ack")}
         \cup (IF "refuse" \in Faults
               THEN {Effect(f, None, "nack") : f \in {files, [files EXCEPT ![upload.name] = Absent]}}
               ELSE {})

DeleteEffects(name) ==
    IF upload # None THEN {Answered("nack")}
    ELSE IF files[name] = Absent THEN {Answered("missing")}
    ELSE {Effect([files EXCEPT ![name] = Absent], upload, "ack")} \cup Refused

\* LittleFS replaces a file that is there, the others refuse.
RenameEffects(from, to) ==
    LET moved == [files EXCEPT ![from] = Absent, ![to] = files[from]] IN
    IF upload # None \/ files[from] = Absent THEN {Answered("nack")}
    ELSE (IF files[to] # Absent THEN {Answered("nack")} ELSE Refused)
         \cup {Effect(moved, upload, "ack")}

-----------------------------------------------------------------------------
(***************************************************************************)
(* The protocol object.                                                    *)
(***************************************************************************)
Fault(f) == f \in Faults /\ faults < MaxFaults /\ faults' = faults + 1

\* What t's command does to the device, and to what is remembered of it.
Handled(t, effect) ==
    /\ files' = effect.files /\ upload' = effect.upload
    /\ stored' = [u \in Threads |->
                    \/ stored[u]
                    \/ u = t /\ request[u].op = "PUT" /\ files'[request[u].name] = Body(u)]
    /\ changed' = [changed EXCEPT ![t] = @ \/ Present' # Present]

\* Whoever sends a command disturbs the uploads of the others.
Undisturbed(t) ==
    clean' = [u \in Threads |->
                 /\ u = t /\ faults' = faults
                 /\ IF pc[t] = "begin" THEN answers = <<>> /\ ~deaf /\ upload = None ELSE clean[t]]

\* _wait_ack_with_error: the frame it reads is the first one there, whatever it
\* answers.
Reads(kind, got) ==
    LET frames == Append(answers, Frame(kind)) IN
    \/ deaf /\ got = "none" /\ UNCHANGED line
    \/ /\ ~deaf /\ got = Head(frames).kind /\ answers' = Tail(frames)
       /\ UNCHANGED <<deaf, faults>>
    \/ /\ ~deaf /\ answers = <<>> /\ got = "none"
       /\ \/ Fault("late") /\ answers' = frames /\ UNCHANGED deaf
          \/ Fault("lost") /\ deaf' = TRUE /\ UNCHANGED answers

Goto(t, label) == pc' = [pc EXCEPT ![t] = label]
Again(t) == count' = [count EXCEPT ![t] = @ + 1]
Afresh(t) == count' = [count EXCEPT ![t] = 0]

Ends(t, how) ==
    /\ Goto(t, "idle") /\ Afresh(t)
    /\ result' = [result EXCEPT ![t] = how]

\* A command that waits for its answer: Then(got) is what t does next.
Call(t, effects, Then(_)) ==
    /\ \E effect \in effects, got \in {"ack", "nack", "missing", "entry", "end", "none"} :
        /\ Reads(effect.kind, got) /\ Handled(t, effect)
        /\ Then(got)
    /\ Undisturbed(t)
    /\ UNCHANGED <<cache, request, listing, served>>

Goes(t, label) == Goto(t, label) /\ UNCHANGED <<count, result>>

-----------------------------------------------------------------------------
(***************************************************************************)
(* Requests, and the cache of listings.                                    *)
(***************************************************************************)
Accept(t) ==
    /\ pc[t] = "idle" /\ served[t] < MaxRequests
    /\ \E r \in Requests :
        /\ r.op # "PUT" => r.size = Min(Sizes)
        /\ r.op = "LIST" => r.name = CHOOSE n \in Names : TRUE
        /\ (r.op = "MOVE") = (r.to # r.name)
        /\ request' = [request EXCEPT ![t] = r]
    /\ served' = [served EXCEPT ![t] = @ + 1]
    /\ result' = [result EXCEPT ![t] = "none"]
    /\ listing' = [listing EXCEPT ![t] = {}]
    /\ cache' = IF cache # None /\ changed[t] THEN [cache EXCEPT !.excused = TRUE] ELSE cache
    /\ stored' = [stored EXCEPT ![t] = FALSE]
    /\ clean' = [clean EXCEPT ![t] = FALSE]
    /\ changed' = [changed EXCEPT ![t] = FALSE]
    /\ Goto(t, "resolve")
    /\ UNCHANGED <<device, line, count>>

\* The writer opens its stream with the first chunk: an empty body opens none.
Writes(r) == IF r.size = 0 THEN "changed" ELSE "begin"

\* The names the folder is taken to have: get_member_names answers with them,
\* get_resource_inst looks for the request's.
Resolved(t, names) ==
    LET r == request[t]
        there == r.name \in names
    IN  \/ r.op = "LIST" /\ Ends(t, "ok")
        \/ r.op \in {"DELETE", "MOVE"} /\ ~there /\ Ends(t, "error")
        \/ /\ \/ r.op = "PUT" /\ ~there /\ Goto(t, "create")
              \/ r.op = "PUT" /\ there /\ Goto(t, Writes(r))
              \/ r.op = "DELETE" /\ there /\ Goto(t, "delete")
              \/ r.op = "MOVE" /\ there /\ Goto(t, "move")
           /\ Afresh(t) /\ UNCHANGED result

\* DirectoryCache.get: an entry past its time is removed.
CacheGet(t) ==
    /\ pc[t] = "resolve"
    /\ IF cache # None /\ ~cache.old
       THEN Resolved(t, cache.names) /\ UNCHANGED cache
       ELSE cache' = None /\ Goes(t, "fetch")
    /\ UNCHANGED <<device, line, request, listing, served, history>>

\* Mutant of FetchFails: the count is off by one.
FetchFailsOnceMore(t) ==
    /\ UNCHANGED listing
    /\ IF count[t] < Attempts THEN Again(t) /\ UNCHANGED <<pc, result>> ELSE Resolved(t, {})

\* Three attempts; without a listing the folder is taken to be empty.
FetchFails(t) ==
    /\ UNCHANGED listing
    /\ IF count[t] + 1 < Attempts THEN Again(t) /\ UNCHANGED <<pc, result>> ELSE Resolved(t, {})

\* The first frame, for the ACK, is ignored whatever it is; those after it are
\* read up to a LIST_END or a NACK.
ReadsListing(t, frames) ==
    LET last == Min({k \in 2 .. Len(frames) : frames[k].kind \in {"nack", "missing", "end"}})
        read == {frames[k].name : k \in {j \in 2 .. last : frames[j].kind = "entry"}}
    IN  /\ answers' = SubSeq(frames, last + 1, Len(frames))
        /\ IF frames[last].kind # "end" THEN FetchFails(t)
           ELSE /\ listing' = [listing EXCEPT ![t] = read]
                /\ Goes(t, "keep")

Fetch(t) ==
    LET entries == [k \in 1 .. Cardinality(Present) |->
                       [kind |-> "entry", name |-> SetToSeq(Present)[k]]]
        listed == <<Frame("ack")>> \o entries \o <<Frame("end")>>
        refused == <<Frame("ack"), Frame("nack")>>
    IN  /\ pc[t] = "fetch"
        /\ \/ deaf /\ FetchFails(t) /\ UNCHANGED line
           \/ ~deaf /\ ReadsListing(t, answers \o listed) /\ UNCHANGED <<deaf, faults>>
           \/ /\ ~deaf /\ "refuse" \in Faults
              /\ ReadsListing(t, answers \o refused) /\ UNCHANGED <<deaf, faults>>
           \/ ~deaf /\ Fault("lost") /\ deaf' = TRUE /\ answers' = <<>> /\ FetchFails(t)
        /\ Undisturbed(t)
        /\ UNCHANGED <<device, cache, request, served, stored, changed>>

\* DirectoryCache.put, with the listing as it was fetched.
CachePut(t) ==
    /\ pc[t] = "keep"
    /\ cache' = [names |-> listing[t], old |-> FALSE, excused |-> listing[t] # Present]
    /\ Resolved(t, listing[t])
    /\ UNCHANGED <<device, line, request, listing, served, history>>

\* ttl_seconds after put.
CacheExpires ==
    /\ cache # None /\ ~cache.old
    /\ cache' = [cache EXCEPT !.old = TRUE]
    /\ UNCHANGED <<device, line, pc, threads, history>>

\* Mutant of Invalidates: the file's own path, which is no folder, is all that is removed.
ForgetsPath(t) == UNCHANGED <<cache, changed>>

Invalidates(t) ==
    /\ cache' = None
    /\ changed' = [changed EXCEPT ![t] = FALSE]

-----------------------------------------------------------------------------
\* create_empty_resource: an upload of no bytes, aborted if it fails.
CreateBegin(t) ==
    /\ pc[t] = "create"
    /\ Call(t, BeginEffects(request[t].name, 0),
            LAMBDA got : Goes(t, IF got = "ack" THEN "create_end" ELSE "create_abort"))

CreateEnd(t) ==
    /\ pc[t] = "create_end"
    /\ Call(t, EndEffects, LAMBDA got : Goes(t, IF got = "ack" THEN "created" ELSE "create_abort"))

\* _abort_transfer ends the active transfer, whoever began it.
CreateAbort(t) ==
    /\ pc[t] = "create_abort"
    /\ Call(t, {Effect(files, None, "ack")}, LAMBDA got : Ends(t, "error"))

Created(t) ==
    /\ pc[t] = "created"
    /\ Invalidates(t)
    /\ Goto(t, Writes(request[t]))
    /\ UNCHANGED <<device, line, threads, stored, clean>>

\* ESP32FileWriter.write, first chunk.  When a write raises close is not called:
\* what it has begun stays active on the device.
BeginWrite(t) ==
    /\ pc[t] = "begin"
    /\ Call(t, BeginEffects(request[t].name, request[t].size),
            LAMBDA got : IF got = "ack" THEN Goes(t, "data") ELSE Ends(t, "error"))

\* write_stream_data: one frame is read if any is there; the answers to this chunk
\* and to the command before it may be there already, or not yet.
WriteData(t) ==
    /\ pc[t] = "data"
    /\ \E effect \in DataEffects(Id(t)) :
        LET frames == IF effect.kind = "none" \/ deaf THEN answers
                      ELSE Append(answers, Frame(effect.kind))
            Continues == IF count[t] + 1 < request[t].size
                         THEN Again(t) /\ UNCHANGED <<pc, result>>
                         ELSE Afresh(t) /\ Goto(t, "end") /\ UNCHANGED result
        IN  /\ Handled(t, effect)
            /\ \/ Len(answers) <= 1 /\ answers' = frames /\ Continues
               \/ /\ frames # <<>> /\ answers' = Tail(frames)
                  /\ IF Head(frames).kind \in {"nack", "missing"} THEN Ends(t, "error") ELSE Continues
               \/ deaf /\ Ends(t, "error") /\ UNCHANGED answers
    /\ UNCHANGED <<deaf, faults, cache, request, listing, served>>
    /\ Undisturbed(t)

\* Mutant of EndWrite: the exception is logged and not raised.
EndUnchecked(t) ==
    /\ pc[t] = "end"
    /\ Call(t, EndEffects, LAMBDA got : Goes(t, "changed"))

EndWrite(t) ==
    /\ pc[t] = "end"
    /\ Call(t, EndEffects, LAMBDA got : Goes(t, IF got = "ack" THEN "changed" ELSE "abort"))

\* A bare _send_frame: the ACK to come is not waited for.
AbortWrite(t) ==
    /\ pc[t] = "abort"
    /\ Handled(t, Effect(files, None, "ack"))
    /\ answers' = IF deaf THEN answers ELSE Append(answers, Frame("ack"))
    /\ UNCHANGED <<deaf, faults>>
    /\ Ends(t, "error")
    /\ Undisturbed(t)
    /\ UNCHANGED <<cache, request, listing, served>>

\* Mutant of DeleteFile: the attempts are not counted.
DeleteUncounted(t) ==
    /\ pc[t] = "delete"
    /\ Call(t, DeleteEffects(request[t].name),
            LAMBDA got : Goes(t, IF got \in {"ack", "missing"} THEN "changed" ELSE "delete"))

\* ESP32File.delete: three attempts; a file that is not there is deleted.  Every
\* error that mentions a NACK, or 25, is taken for that one too: of a refusal it
\* does, and of a wrong frame number it may.
DeleteFile(t) ==
    /\ pc[t] = "delete"
    /\ Call(t, DeleteEffects(request[t].name),
            LAMBDA got :
                IF got \in {"ack", "missing"} THEN Goes(t, "changed")
                ELSE IF count[t] + 1 < Attempts THEN Again(t) /\ UNCHANGED <<pc, result>>
                ELSE \/ (got # "none" \/ deaf) /\ Ends(t, "ok")
                     \/ got = "none" /\ Ends(t, "error"))

MoveFile(t) ==
    /\ pc[t] = "move"
    /\ Call(t, RenameEffects(request[t].name, request[t].to),
            LAMBDA got : IF got = "ack" THEN Goes(t, "changed")
                                        ELSE Ends(t, "error"))

\* The end of close, delete and copy_move_single.
Changed(t) ==
    /\ pc[t] = "changed"
    /\ Invalidates(t)
    /\ Ends(t, "ok")
    /\ UNCHANGED <<device, line, request, listing, served, stored, clean>>

-----------------------------------------------------------------------------
Step(t) ==
    \/ CacheGet(t) \/ Fetch(t) \/ CachePut(t)
    \/ CreateBegin(t) \/ CreateEnd(t) \/ CreateAbort(t) \/ Created(t)
    \/ BeginWrite(t) \/ WriteData(t) \/ EndWrite(t) \/ AbortWrite(t)
    \/ DeleteFile(t) \/ MoveFile(t) \/ Changed(t)

Next == CacheExpires \/ \E t \in Threads : Accept(t) \/ Step(t)

\* Each thread of the HTTP server goes on with its request, and gets the lock:
\* every call that holds it ends, at the latest by its timeout.
Spec == Init /\ [][Next]_vars /\ \A t \in Threads : WF_vars(Step(t))

-----------------------------------------------------------------------------
(***************************************************************************)
(* Properties.                                                             *)
(***************************************************************************)
\* The listing served to every request is the folder's, except while a request
\* is between its change and its invalidation, after one that changed the folder
\* and failed, or was a DELETE that took a failure for success, and if it was
\* fetched before a change and put after it.
StaleOnlyByFailureOrRace ==
    cache = None \/ cache.names = Present
    \/ cache.excused
    \/ \E t \in Threads :
          /\ changed[t]
          /\ pc[t] # "idle" \/ result[t] = "error" \/ request[t].op = "DELETE"

\* A PUT that streamed its body, with the line in step and to itself from BEGIN to
\* END, has stored it when it is answered with success, whatever the device refused.
CleanPutIsStored ==
    \A t \in Threads :
        pc[t] = "idle" /\ result[t] = "ok" /\ clean[t] => stored[t]

\* Every request is answered, whatever is refused, late or lost.
RequestsEnd == \A t \in Threads : pc[t] # "idle" ~> pc[t] = "idle"

\* "Raises: DAVError: On upload failure" (ESP32FileWriter.close): a PUT answered
\* with success has stored its body.
PutRaisesOnFailure ==
    \A t \in Threads :
        pc[t] = "idle" /\ result[t] = "ok" /\ request[t].op = "PUT" => stored[t]
=============================================================================
