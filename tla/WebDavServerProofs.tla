-------------------------- MODULE WebDavServerProofs --------------------------
(***************************************************************************)
(* Theorems about WebDavServer: the types, that a PUT which had the line   *)
(* to itself and was reported stored is stored, and when a cached listing  *)
(* may differ from the folder.                                             *)
(***************************************************************************)
EXTENDS WebDavServer, FiniteSetTheorems, NaturalsInduction, SequenceTheorems,
        WellFoundedInduction, TLAPS

UploadSteps == {"create", "create_end", "create_abort", "created",
                "begin", "data", "end", "abort"}

\* The step a request is at says what kind it is, what it has counted, and that
\* it has not touched the folder while it still looks for its file.
StepsAt(t) ==
    /\ pc[t] \in UploadSteps => request[t].op = "PUT"
    /\ pc[t] = "delete" => request[t].op = "DELETE"
    /\ pc[t] \in UploadSteps \ {"data"} => count[t] = 0
    /\ pc[t] = "begin" => request[t].size > 0
    /\ pc[t] = "data" => count[t] < request[t].size
    /\ pc[t] \in {"resolve", "fetch", "keep"} => ~changed[t]

Steps == \A t \in Threads : StepsAt(t)

\* n chunks of t's body.
FirstChunks(t, n) == [k \in 1 .. n |-> Id(t)]

OnlyNacks == answers # <<>> /\ \A i \in DOMAIN answers : answers[i] = Frame("nack")

\* The device has the first n chunks of t's body and nothing has been answered
\* that t has not read, or it has refused one and every answer to come says so.
Streams(t, n) ==
    \/ /\ answers = <<>>
       /\ upload = [name |-> request[t].name, total |-> request[t].size,
                    data |-> FirstChunks(t, n)]
    \/ OnlyNacks /\ upload = None

\* What a PUT knows that has had the line to itself since its BEGIN.
CleanAt(t) ==
    \/ pc[t] = "data" /\ ~deaf /\ Streams(t, count[t])
    \/ pc[t] = "end" /\ ~deaf /\ Streams(t, request[t].size)
    \/ pc[t] = "abort"
    \/ pc[t] = "changed" /\ stored[t]
    \/ pc[t] = "idle" /\ (result[t] = "ok" => stored[t])

CleanLine == \A t \in Threads : clean[t] => CleanAt(t)

IInv == TypeOK /\ Steps /\ CleanLine /\ StaleOnlyByFailureOrRace

-----------------------------------------------------------------------------
(***************************************************************************)
(* The device and the line.                                                *)
(***************************************************************************)
Kinds == {"ack", "nack", "missing"}

\* What a command may do: the device's files and its transfer keep their types.
Effects(kinds) ==
    {e \in [files : [Names -> Contents], upload : Transfers \cup {None}, kind : kinds] :
        e.upload = None \/ e.upload \in Transfers}

LEMMA SizesAreNatural == \A n \in Sizes \cup {0} : n \in Nat
BY ServerAssumption

LEMMA IdTyped ==
    ASSUME TypeOK, NEW t \in Threads, pc[t] # "idle"
    PROVE  Id(t) \in Ids
BY ServerAssumption DEF TypeOK, Id, Ids

LEMMA AnsweredTyped ==
    ASSUME TypeOK
    PROVE  /\ \A k \in Kinds : Answered(k) \in Effects(Kinds)
           /\ Refused \subseteq Effects(Kinds)
           /\ \A k \in Kinds, f \in [Names -> Contents] : Effect(f, None, k) \in Effects(Kinds)
           /\ \A k \in Kinds, f \in [Names -> Contents] : Effect(f, upload, k) \in Effects(Kinds)
BY DEF TypeOK, Answered, Effect, Effects, Kinds, Refused

LEMMA BeginTyped ==
    ASSUME TypeOK, NEW name \in Names, NEW total \in Sizes \cup {0}
    PROVE  BeginEffects(name, total) \subseteq Effects(Kinds)
<1>1. [name |-> name, total |-> total, data |-> <<>>] \in Transfers
  <2>1. <<>> \in Seq(Ids) /\ Len(<<>>) <= total
    BY SizesAreNatural
  <2>2. QED
    BY <2>1 DEF Transfers
<1>2. QED
  BY <1>1, AnsweredTyped DEF BeginEffects, TypeOK, Effect, Effects, Kinds

LEMMA EndTyped ==
    ASSUME TypeOK
    PROVE  EndEffects \subseteq Effects(Kinds)
<1>1. CASE upload = None \/ Len(upload.data) # upload.total
  BY <1>1, AnsweredTyped DEF EndEffects, TypeOK, Kinds
<1>2. CASE ~(upload = None \/ Len(upload.data) # upload.total)
  <2>1. upload.name \in Names /\ upload.data \in Contents /\ Absent \in Contents
    BY <1>2 DEF TypeOK, Transfers, Contents
  <2>2. /\ [files EXCEPT ![upload.name] = upload.data] \in [Names -> Contents]
        /\ [files EXCEPT ![upload.name] = Absent] \in [Names -> Contents]
    BY <2>1 DEF TypeOK
  <2>3. QED
    BY ZenonT(60), <2>2, <1>2, AnsweredTyped DEF EndEffects, TypeOK, Kinds
<1>3. QED
  BY <1>1, <1>2

LEMMA DeleteTyped ==
    ASSUME TypeOK, NEW name \in Names
    PROVE  DeleteEffects(name) \subseteq Effects(Kinds)
<1>1. [files EXCEPT ![name] = Absent] \in [Names -> Contents]
  BY DEF TypeOK, Contents
<1>2. QED
  BY <1>1, AnsweredTyped DEF DeleteEffects, Kinds

LEMMA RenameTyped ==
    ASSUME TypeOK, NEW from \in Names, NEW to \in Names
    PROVE  RenameEffects(from, to) \subseteq Effects(Kinds)
<1>1. [files EXCEPT ![from] = Absent, ![to] = files[from]] \in [Names -> Contents]
  BY DEF TypeOK, Contents
<1>2. QED
  BY <1>1, AnsweredTyped DEF RenameEffects, Kinds

LEMMA DataTyped ==
    ASSUME TypeOK, NEW chunk \in Ids
    PROVE  DataEffects(chunk) \subseteq Effects(Kinds \cup {"none"})
<1>1. Effect(files, None, "nack") \in Effects(Kinds \cup {"none"})
  BY DEF TypeOK, Effect, Effects, Kinds
<1>2. CASE ~(upload = None \/ Len(upload.data) = upload.total)
  <2>1. /\ upload \in [name : Names, total : Sizes \cup {0}, data : Seq(Ids)]
        /\ Len(upload.data) <= upload.total /\ upload.data \in Seq(Ids)
    BY <1>2 DEF TypeOK, Transfers
  <2>2. [upload EXCEPT !.data = Append(@, chunk)] \in
            [name : Names, total : Sizes \cup {0}, data : Seq(Ids)]
    BY <2>1
  <2>3. [upload EXCEPT !.data = Append(@, chunk)] \in Transfers
    <3>1. Len(upload.data) + 1 <= upload.total
      BY <1>2, <2>1, SizesAreNatural
    <3>2. Len(Append(upload.data, chunk)) = Len(upload.data) + 1
      BY <2>1
    <3>3. QED
      BY <3>1, <3>2, <2>1, <2>2 DEF Transfers
  <2>4. Effect(files, [upload EXCEPT !.data = Append(@, chunk)], "none")
           \in Effects(Kinds \cup {"none"})
    BY <2>3 DEF TypeOK, Effect, Effects
  <2>5. QED
    BY <1>1, <1>2, <2>4 DEF DataEffects
<1>3. QED
  BY <1>1, <1>2 DEF DataEffects

\* A frame that is read leaves a sequence of frames.
LEMMA ReadsTyped ==
    ASSUME TypeOK, NEW kind \in Kinds, NEW got, Reads(kind, got)
    PROVE  /\ answers' \in Seq(Frames) /\ deaf' \in BOOLEAN
           /\ deaf' => answers' = <<>>
           /\ faults' \in 0 .. MaxFaults
<1>1. Frame(kind) \in Frames /\ answers \in Seq(Frames)
  BY DEF TypeOK, Frame, Frames, Kinds
<1>2. /\ Append(answers, Frame(kind)) \in Seq(Frames)
      /\ Append(answers, Frame(kind)) # <<>>
  BY <1>1, AppendProperties
<1>3. Tail(Append(answers, Frame(kind))) \in Seq(Frames)
  BY <1>2
<1>4. faults' \in 0 .. MaxFaults
  BY ServerAssumption DEF TypeOK, Reads, line, Fault
<1>5. CASE deaf /\ UNCHANGED line
  BY <1>4, <1>5 DEF TypeOK, line
<1>6. CASE ~deaf /\ answers' = Tail(Append(answers, Frame(kind))) /\ UNCHANGED deaf
  BY <1>3, <1>4, <1>6 DEF TypeOK
<1>7. CASE answers = <<>> /\ ~deaf /\ answers' = Append(answers, Frame(kind)) /\ UNCHANGED deaf
  BY <1>2, <1>4, <1>7 DEF TypeOK
<1>8. CASE answers = <<>> /\ deaf' = TRUE /\ UNCHANGED answers
  BY <1>1, <1>4, <1>8
<1>9. QED
  BY <1>5, <1>6, <1>7, <1>8 DEF Reads

-----------------------------------------------------------------------------
(***************************************************************************)
(* Types.                                                                  *)
(***************************************************************************)
DeviceTyped ==
    /\ files \in [Names -> Contents]
    /\ upload = None \/ upload \in Transfers
    /\ answers \in Seq(Frames)
    /\ deaf \in BOOLEAN /\ (deaf => answers = <<>>) /\ faults \in 0 .. MaxFaults

HistoryTyped == \A h \in {stored, clean, changed} : h \in [Threads -> BOOLEAN]

ThreadsTyped ==
    /\ cache = None \/ cache \in Listings
    /\ pc \in [Threads -> Labels] /\ request \in [Threads -> Requests \cup {None}]
    /\ count \in [Threads -> Nat] /\ listing \in [Threads -> SUBSET Names]
    /\ served \in [Threads -> 0 .. MaxRequests]
    /\ \A t \in Threads :
        /\ pc[t] # "idle" => request[t] \in Requests /\ served[t] > 0
        /\ count[t] < Attempts \/ (pc[t] = "data" /\ count[t] < request[t].size)
    /\ result \in [Threads -> {"none", "ok", "error"}]

LEMMA TypeParts ==
    /\ TypeOK <=> DeviceTyped /\ HistoryTyped /\ ThreadsTyped
    /\ TypeOK' <=> DeviceTyped' /\ HistoryTyped' /\ ThreadsTyped'
BY DEF TypeOK, DeviceTyped, HistoryTyped, ThreadsTyped

LEMMA DeviceKept ==
    ASSUME DeviceTyped, UNCHANGED <<device, line>>
    PROVE  DeviceTyped'
BY DEF DeviceTyped, device, line

LEMMA HandledTyped ==
    ASSUME TypeOK, NEW t \in Threads, NEW kinds, NEW effect \in Effects(kinds),
           Handled(t, effect)
    PROVE  /\ files' \in [Names -> Contents]
           /\ upload' = None \/ upload' \in Transfers
           /\ stored' \in [Threads -> BOOLEAN]
           /\ changed' \in [Threads -> BOOLEAN]
BY DEF TypeOK, Effects, Handled

LEMMA UndisturbedTyped ==
    ASSUME TypeOK, NEW t \in Threads, Undisturbed(t)
    PROVE  clean' \in [Threads -> BOOLEAN]
BY DEF TypeOK, Undisturbed

\* A command and its answer.
LEMMA CallTyped ==
    ASSUME TypeOK, NEW t \in Threads, NEW effect \in Effects(Kinds), NEW got,
           Reads(effect.kind, got), Handled(t, effect), Undisturbed(t)
    PROVE  DeviceTyped' /\ HistoryTyped'
<1>1. effect.kind \in Kinds
  BY DEF Effects
<1>2. QED
  BY <1>1, HandledTyped, UndisturbedTyped, ReadsTyped DEF DeviceTyped, HistoryTyped

\* The cache and the listings, and what a thread may do next: go to another step,
\* end its request, or repeat the step.
CacheTyped == (cache = None \/ cache \in Listings) /\ listing \in [Threads -> SUBSET Names]

LEMMA CacheKept ==
    ASSUME TypeOK, UNCHANGED <<cache, listing>>
    PROVE  CacheTyped'
BY DEF TypeOK, CacheTyped

LEMMA ThreadGoes ==
    ASSUME ThreadsTyped, NEW t \in Threads, pc[t] # "idle", NEW label \in Labels,
           Goto(t, label), (count[t] < Attempts /\ UNCHANGED count) \/ Afresh(t),
           UNCHANGED <<request, served, result>>, CacheTyped'
    PROVE  ThreadsTyped'
<1>1. pc' \in [Threads -> Labels] /\ \A u \in Threads : u # t => pc'[u] = pc[u]
  BY DEF ThreadsTyped, Goto
<1>2. count \in [Threads -> Nat]
  BY DEF ThreadsTyped
<1>3. /\ count' \in [Threads -> Nat] /\ count'[t] < Attempts
      /\ \A u \in Threads : u # t => count'[u] = count[u]
  BY <1>2 DEF Afresh, Attempts
<1>4. \A u \in Threads : count'[u] < Attempts \/ (pc'[u] = "data" /\ count'[u] < request'[u].size)
  BY <1>1, <1>3 DEF ThreadsTyped
<1>5. \A u \in Threads : pc'[u] # "idle" => request'[u] \in Requests /\ served'[u] > 0
  BY <1>1 DEF ThreadsTyped
<1>6. QED
  BY <1>1, <1>3, <1>4, <1>5 DEF ThreadsTyped, CacheTyped

LEMMA ThreadEnds ==
    ASSUME ThreadsTyped, NEW t \in Threads, NEW how \in {"ok", "error"},
           Ends(t, how), UNCHANGED <<request, served>>, CacheTyped'
    PROVE  ThreadsTyped'
<1>1. /\ pc' \in [Threads -> Labels]
      /\ \A u \in Threads : IF u = t THEN pc'[u] = "idle" ELSE pc'[u] = pc[u]
  BY DEF ThreadsTyped, Ends, Goto, Labels
<1>2. /\ count' \in [Threads -> Nat]
      /\ \A u \in Threads : IF u = t THEN count'[u] = 0 ELSE count'[u] = count[u]
  BY DEF ThreadsTyped, Ends, Afresh
<1>3. \A u \in Threads : count'[u] < Attempts \/ (pc'[u] = "data" /\ count'[u] < request'[u].size)
  BY <1>1, <1>2 DEF ThreadsTyped, Attempts
<1>4. \A u \in Threads : pc'[u] # "idle" => request'[u] \in Requests /\ served'[u] > 0
  BY <1>1 DEF ThreadsTyped
<1>5. result' \in [Threads -> {"none", "ok", "error"}]
  BY DEF ThreadsTyped, Ends
<1>6. QED
  BY <1>1, <1>2, <1>3, <1>4, <1>5 DEF ThreadsTyped, CacheTyped

LEMMA ThreadRepeats ==
    ASSUME ThreadsTyped, NEW t \in Threads, Again(t),
           count[t] + 1 < Attempts \/ (pc[t] = "data" /\ count[t] + 1 < request[t].size),
           UNCHANGED <<pc, result, request, served>>, CacheTyped'
    PROVE  ThreadsTyped'
<1>1. /\ count' \in [Threads -> Nat] /\ count'[t] = count[t] + 1
      /\ \A u \in Threads : u # t => count'[u] = count[u]
  BY DEF ThreadsTyped, Again
<1>2. \A u \in Threads : count'[u] < Attempts \/ (pc'[u] = "data" /\ count'[u] < request'[u].size)
  BY <1>1 DEF ThreadsTyped
<1>3. QED
  BY <1>1, <1>2 DEF ThreadsTyped, CacheTyped

LEMMA RequestTyped ==
    ASSUME TypeOK, NEW t \in Threads, pc[t] # "idle"
    PROVE  /\ request[t].name \in Names /\ request[t].to \in Names
           /\ request[t].size \in Sizes /\ request[t].size \in Nat
           /\ request[t].op \in Operations
           /\ pc[t] # "data" => count[t] < Attempts
BY SizesAreNatural DEF TypeOK, Requests

-----------------------------------------------------------------------------
LEMMA AcceptTyped ==
    ASSUME TypeOK, NEW t \in Threads, Accept(t)
    PROVE  TypeOK'
<1>1. DeviceTyped' /\ HistoryTyped'
  BY TypeParts, DeviceKept DEF Accept, HistoryTyped
<1>2. CacheTyped'
  <2>1. cache \in Listings => [cache EXCEPT !.excused = TRUE] \in Listings
    BY DEF Listings
  <2>2. QED
    BY <2>1 DEF CacheTyped, Accept, TypeOK
<1>3. /\ pc' \in [Threads -> Labels]
      /\ \A u \in Threads : u # t => pc'[u] = pc[u]
  BY DEF Accept, Goto, TypeOK, Labels
<1>4. /\ request' \in [Threads -> Requests \cup {None}] /\ request'[t] \in Requests
      /\ \A u \in Threads : u # t => request'[u] = request[u]
  BY DEF Accept, TypeOK
<1>5. /\ served' \in [Threads -> 0 .. MaxRequests] /\ served'[t] > 0
      /\ \A u \in Threads : u # t => served'[u] = served[u]
  BY ServerAssumption DEF Accept, TypeOK
<1>6. pc[t] = "idle" /\ UNCHANGED count /\ result' \in [Threads -> {"none", "ok", "error"}]
  BY DEF Accept, TypeOK
<1>7. \A u \in Threads : count'[u] < Attempts \/ (pc'[u] = "data" /\ count'[u] < request'[u].size)
  BY <1>3, <1>4, <1>6 DEF TypeOK
<1>8. \A u \in Threads : pc'[u] # "idle" => request'[u] \in Requests /\ served'[u] > 0
  BY <1>3, <1>4, <1>5 DEF TypeOK
<1>9. count' \in [Threads -> Nat]
  BY <1>6 DEF TypeOK
<1>10. ThreadsTyped'
  BY <1>2, <1>3, <1>4, <1>5, <1>6, <1>7, <1>8, <1>9 DEF ThreadsTyped, CacheTyped
<1>11. QED
  BY <1>1, <1>10, TypeParts

LEMMA ResolvedTyped ==
    ASSUME TypeOK, NEW t \in Threads, pc[t] \in Labels \ {"idle", "data"},
           NEW names, Resolved(t, names),
           UNCHANGED <<request, served>>, CacheTyped'
    PROVE  ThreadsTyped'
<1>1. CASE Ends(t, "ok") \/ Ends(t, "error")
  BY <1>1, ThreadEnds, TypeParts
<1>2. CASE \E label \in {"create", "delete", "move", Writes(request[t])} :
              Goto(t, label) /\ Afresh(t) /\ UNCHANGED result
  <2>1. {"create", "delete", "move", Writes(request[t])} \subseteq Labels
    BY DEF Writes, Labels
  <2>2. QED
    BY <1>2, <2>1, ThreadGoes, RequestTyped, TypeParts
<1>3. QED
  BY <1>1, <1>2 DEF Resolved

LEMMA CacheGetTyped ==
    ASSUME TypeOK, NEW t \in Threads, CacheGet(t)
    PROVE  TypeOK'
<1>1. CacheTyped' /\ DeviceTyped' /\ HistoryTyped'
  BY TypeParts, DeviceKept DEF CacheGet, HistoryTyped, history, TypeOK, CacheTyped
<1>2. CASE Resolved(t, cache.names)
  <2>1. pc[t] \in Labels \ {"idle", "data"} /\ UNCHANGED <<request, served>>
    BY DEF CacheGet, Labels
  <2>2. QED
    BY <1>1, <1>2, <2>1, ResolvedTyped, TypeParts
<1>3. CASE Goes(t, "fetch")
  <2>1. pc[t] = "resolve" /\ "fetch" \in Labels /\ Goto(t, "fetch") /\ UNCHANGED <<count, result>>
        /\ UNCHANGED <<request, served>>
    BY <1>3 DEF CacheGet, Labels, Goes
  <2>2. QED
    BY <1>1, <2>1, ThreadGoes, RequestTyped, TypeParts
<1>4. QED
  BY <1>2, <1>3 DEF CacheGet

LEMMA CachePutTyped ==
    ASSUME TypeOK, NEW t \in Threads, CachePut(t)
    PROVE  TypeOK'
<1>1. CacheTyped' /\ DeviceTyped' /\ HistoryTyped'
  BY TypeParts, DeviceKept DEF CachePut, HistoryTyped, history, TypeOK, CacheTyped, Listings
<1>2. pc[t] \in Labels \ {"idle", "data"} /\ UNCHANGED <<request, served>>
      /\ Resolved(t, listing[t])
  BY DEF CachePut, Labels
<1>3. QED
  BY <1>1, <1>2, ResolvedTyped, TypeParts

LEMMA CacheExpiresTyped ==
    ASSUME TypeOK, CacheExpires
    PROVE  TypeOK'
<1>1. CacheTyped' /\ DeviceTyped' /\ HistoryTyped'
  BY TypeParts, DeviceKept DEF CacheExpires, HistoryTyped, history, TypeOK, CacheTyped,
                                Listings, threads
<1>2. ThreadsTyped'
  BY <1>1, TypeParts DEF CacheExpires, threads, CacheTyped, ThreadsTyped
<1>3. QED
  BY <1>1, <1>2, TypeParts

-----------------------------------------------------------------------------
(***************************************************************************)
(* The listing of the folder.                                              *)
(***************************************************************************)
LEMMA MinIsLeast ==
    ASSUME NEW S \in SUBSET Nat, S # {}
    PROVE  Min(S) \in S /\ \A y \in S : Min(S) <= y
<1>1. \E x \in S : \A y \in S : ~(<<y, x>> \in OpToRel(<, Nat))
  BY NatLessThanWellFounded, WFMin
<1>2. \E x \in S : \A y \in S : x <= y
  <2>1. PICK x \in S : \A y \in S : ~(<<y, x>> \in OpToRel(<, Nat))
    BY <1>1
  <2>2. \A y \in S : ~(y < x)
    BY <2>1 DEF OpToRel
  <2>3. QED
    BY <2>2
<1>3. QED
  BY <1>2 DEF Min

LEMMA NamesListed ==
    ASSUME NEW S, IsFiniteSet(S)
    PROVE  /\ Cardinality(S) \in Nat
           /\ SetToSeq(S) \in [1 .. Cardinality(S) -> S]
<1>1. Cardinality(S) \in Nat /\ ExistsBijection(1 .. Cardinality(S), S)
  BY FS_CardinalityType
<1>2. \E f \in [1 .. Cardinality(S) -> S] : IsInjective(f)
  BY <1>1 DEF ExistsBijection, Bijection, Injection
<1>3. QED
  BY <1>1, <1>2 DEF SetToSeq

\* What Fetch reads: the frames that nobody has read and an answer that ends.
LEMMA ListingTyped ==
    ASSUME TypeOK, NEW t \in Threads, NEW frames \in Seq(Frames), Len(frames) >= 2,
           frames[Len(frames)].kind \in {"nack", "missing", "end"}, ReadsListing(t, frames)
    PROVE  /\ answers' \in Seq(Frames)
           /\ \/ FetchFails(t)
              \/ Goes(t, "keep") /\ listing' \in [Threads -> SUBSET Names]
<1> DEFINE Ending == {k \in 2 .. Len(frames) : frames[k].kind \in {"nack", "missing", "end"}}
           last == Min(Ending)
           read == {frames[k].name : k \in {j \in 2 .. last : frames[j].kind = "entry"}}
<1>1. last \in 2 .. Len(frames)
  <2>1. Len(frames) \in Ending /\ Ending \subseteq Nat
    BY LenProperties
  <2>2. last \in Ending
    BY <2>1, MinIsLeast
  <2>3. QED
    BY <2>2
<1>2. SubSeq(frames, last + 1, Len(frames)) \in Seq(Frames)
  <2>1. Len(frames) \in Nat /\ last + 1 \in Int
        /\ \A k \in last + 1 .. Len(frames) : frames[k] \in Frames
    <3> HIDE DEF last
    <3>1. QED
      BY <1>1, LenProperties
  <2>2. QED
    BY ONLY <2>1, SubSeqProperties
<1>3. read \subseteq Names
  BY <1>1 DEF Frames
<1>4. QED
  BY ZenonT(60), <1>2, <1>3 DEF ReadsListing, TypeOK

LEMMA Enclosed ==
    ASSUME NEW S, NEW a \in S, NEW b \in S, NEW s \in Seq(S)
    PROVE  /\ <<a>> \o s \o <<b>> \in Seq(S)
           /\ Len(<<a>> \o s \o <<b>>) >= 2
           /\ (<<a>> \o s \o <<b>>)[Len(<<a>> \o s \o <<b>>)] = b
<1>1. <<a>> \in Seq(S) /\ <<b>> \in Seq(S) /\ Len(<<a>>) = 1 /\ Len(<<b>>) = 1
  OBVIOUS
<1>2. <<a>> \o s \in Seq(S) /\ Len(<<a>> \o s) = 1 + Len(s) /\ Len(s) \in Nat
  BY <1>1, ConcatProperties, LenProperties
<1>3. QED
  BY <1>1, <1>2, ConcatProperties

\* An answer comes after the frames that nobody has read.
LEMMA Unread ==
    ASSUME NEW S, NEW before \in Seq(S), NEW answer \in Seq(S), Len(answer) >= 2
    PROVE  /\ before \o answer \in Seq(S) /\ Len(before \o answer) >= 2
           /\ (before \o answer)[Len(before \o answer)] = answer[Len(answer)]
<1>1. Len(before) \in Nat /\ Len(answer) \in Nat
  BY LenProperties
<1>2. QED
  BY <1>1, ConcatProperties

\* What Fetch reads: nothing while the host is deaf or when the answer is lost,
\* and otherwise an answer that ends.
LEMMA FetchReads ==
    ASSUME TypeOK, NEW t \in Threads, Fetch(t)
    PROVE  \/ deaf /\ FetchFails(t) /\ UNCHANGED line
           \/ /\ ~deaf /\ UNCHANGED <<deaf, faults>>
              /\ \E answer \in Seq(Frames) :
                    /\ Len(answer) >= 2 /\ answer[Len(answer)].kind \in {"nack", "end"}
                    /\ ReadsListing(t, answers \o answer)
           \/ ~deaf /\ Fault("lost") /\ deaf' = TRUE /\ answers' = <<>> /\ FetchFails(t)
<1> DEFINE entries == [k \in 1 .. Cardinality(Present) |->
                          [kind |-> "entry", name |-> SetToSeq(Present)[k]]]
           listed == <<Frame("ack")>> \o entries \o <<Frame("end")>>
           refused == <<Frame("ack"), Frame("nack")>>
<1>1. entries \in Seq(Frames)
  <2>1. IsFiniteSet(Present) /\ Present \subseteq Names
    BY ServerAssumption, FS_Subset DEF Present
  <2>2. QED
    BY SMTT(30), <2>1, NamesListed DEF Frames
<1>2. \A k \in {"ack", "nack", "end"} : Frame(k) \in Frames /\ Frame(k).kind = k
  BY DEF Frame, Frames
<1>3. /\ listed \in Seq(Frames) /\ Len(listed) >= 2
      /\ listed[Len(listed)] = Frame("end")
  <2> HIDE DEF entries
  <2>1. QED
    BY <1>1, <1>2, Enclosed
<1>4. /\ refused \in Seq(Frames) /\ Len(refused) = 2 /\ refused[Len(refused)] = Frame("nack")
  BY <1>2
<1>5. \/ deaf /\ FetchFails(t) /\ UNCHANGED line
      \/ /\ ~deaf /\ UNCHANGED <<deaf, faults>>
         /\ ReadsListing(t, answers \o listed) \/ ReadsListing(t, answers \o refused)
      \/ ~deaf /\ Fault("lost") /\ deaf' = TRUE /\ answers' = <<>> /\ FetchFails(t)
  BY DEF Fetch
<1> HIDE DEF entries, listed, refused
<1>6. CASE ~deaf /\ UNCHANGED <<deaf, faults>> /\ ReadsListing(t, answers \o listed)
  BY <1>2, <1>3, <1>6
<1>7. CASE ~deaf /\ UNCHANGED <<deaf, faults>> /\ ReadsListing(t, answers \o refused)
  <2>1. Len(refused) >= 2
    BY <1>4
  <2>2. QED
    BY <1>2, <1>4, <1>7, <2>1
<1>8. QED
  BY <1>5, <1>6, <1>7

LEMMA FetchLine ==
    ASSUME TypeOK, NEW t \in Threads, Fetch(t)
    PROVE  \/ deaf /\ deaf' = deaf /\ answers' = answers /\ faults' = faults
           \/ ~deaf /\ deaf' = deaf /\ faults' = faults
           \/ ~deaf /\ deaf' = TRUE /\ answers' = <<>> /\ Fault("lost")
<1>1. CASE deaf /\ FetchFails(t) /\ UNCHANGED line
  BY <1>1 DEF line
<1>2. CASE ~deaf /\ UNCHANGED <<deaf, faults>>
  BY <1>2
<1>3. CASE ~deaf /\ Fault("lost") /\ deaf' = TRUE /\ answers' = <<>> /\ FetchFails(t)
  BY <1>3
<1>4. QED
  BY <1>1, <1>2, <1>3, FetchReads

LEMMA FetchTyped ==
    ASSUME TypeOK, NEW t \in Threads, Fetch(t)
    PROVE  TypeOK'
<1>1. answers \in Seq(Frames) /\ <<>> \in Seq(Frames)
  BY DEF TypeOK
<1>2. ASSUME NEW answer \in Seq(Frames), Len(answer) >= 2,
             answer[Len(answer)].kind \in {"nack", "end"}, ReadsListing(t, answers \o answer)
      PROVE  /\ answers' \in Seq(Frames)
             /\ \/ FetchFails(t)
                \/ Goes(t, "keep") /\ listing' \in [Threads -> SUBSET Names]
  <2>1. answers \o answer \in Seq(Frames) /\ Len(answers \o answer) >= 2
        /\ (answers \o answer)[Len(answers \o answer)] = answer[Len(answer)]
    BY <1>1, <1>2, Unread
  <2>2. QED
    BY <1>2, <2>1, ListingTyped
<1>3. /\ answers' \in Seq(Frames)
      /\ \/ FetchFails(t)
         \/ Goes(t, "keep") /\ listing' \in [Threads -> SUBSET Names]
  BY <1>1, <1>2, FetchReads DEF line
<1>4. DeviceTyped'
  <2>1. faults' \in 0 .. MaxFaults
    <3>1. faults \in 0 .. MaxFaults /\ MaxFaults \in Nat
      BY ServerAssumption DEF TypeOK
    <3>2. faults' = faults \/ (faults < MaxFaults /\ faults' = faults + 1)
      BY FetchLine DEF Fault
    <3>3. QED
      BY <3>1, <3>2
  <2>2. deaf' \in BOOLEAN /\ (deaf' => answers' = <<>>)
    <3>1. deaf \in BOOLEAN /\ (deaf => answers = <<>>)
      BY DEF TypeOK
    <3>2. QED
      BY <3>1, FetchLine
  <2>3. QED
    BY <1>3, <2>1, <2>2 DEF Fetch, TypeOK, DeviceTyped, device
<1>5. HistoryTyped'
  BY UndisturbedTyped DEF Fetch, TypeOK, HistoryTyped
<1>6. CacheTyped'
  BY <1>3 DEF Fetch, TypeOK, CacheTyped, FetchFails
<1>7. pc[t] = "fetch" /\ UNCHANGED <<request, served>> /\ "keep" \in Labels
  BY DEF Fetch, Labels
<1>8. ThreadsTyped'
  <2>1. CASE Goes(t, "keep")
    BY <1>6, <1>7, <2>1, ThreadGoes, RequestTyped, TypeParts DEF Goes
  <2>2. CASE FetchFails(t) /\ count[t] + 1 < Attempts
    BY <1>6, <1>7, <2>2, ThreadRepeats, TypeParts DEF FetchFails
  <2>3. CASE Resolved(t, {})
    BY <1>6, <1>7, <2>3, ResolvedTyped, TypeParts DEF Labels
  <2>4. QED
    BY <1>3, <2>1, <2>2, <2>3 DEF FetchFails
<1>9. QED
  BY <1>4, <1>5, <1>8, TypeParts

-----------------------------------------------------------------------------
(***************************************************************************)
(* The commands.                                                           *)
(***************************************************************************)
\* A command that waits: what it does to the device, and then to its thread.
LEMMA CommandTyped ==
    ASSUME TypeOK, NEW t \in Threads, pc[t] \notin {"idle", "data"},
           NEW effect \in Effects(Kinds), NEW got,
           Reads(effect.kind, got), Handled(t, effect), Undisturbed(t),
           UNCHANGED <<cache, request, listing, served>>,
           \/ \E label \in Labels : Goes(t, label)
           \/ Ends(t, "ok") \/ Ends(t, "error")
           \/ count[t] + 1 < Attempts /\ Again(t) /\ UNCHANGED <<pc, result>>
    PROVE  TypeOK'
<1>1. DeviceTyped' /\ HistoryTyped'
  BY CallTyped
<1>2. ThreadsTyped /\ CacheTyped' /\ pc[t] # "idle" /\ count[t] < Attempts
  BY CacheKept, TypeParts, RequestTyped
<1>3. ThreadsTyped'
  <2>1. ASSUME NEW label \in Labels, Goes(t, label) PROVE ThreadsTyped'
    BY <1>2, <2>1, ThreadGoes DEF Goes
  <2>2. CASE Ends(t, "ok") \/ Ends(t, "error")
    BY <1>2, <2>2, ThreadEnds
  <2>3. CASE count[t] + 1 < Attempts /\ Again(t) /\ UNCHANGED <<pc, result>>
    BY <1>2, <2>3, ThreadRepeats
  <2>4. QED
    BY <2>1, <2>2, <2>3
<1>4. QED
  BY <1>1, <1>3, TypeParts

LEMMA CreateBeginTyped ==
    ASSUME TypeOK, NEW t \in Threads, CreateBegin(t)
    PROVE  TypeOK'
<1>1. pc[t] = "create" /\ BeginEffects(request[t].name, 0) \subseteq Effects(Kinds)
  BY RequestTyped, BeginTyped DEF CreateBegin
<1>2. {"create_end", "create_abort"} \subseteq Labels
  BY DEF Labels
<1>3. QED
  BY <1>1, <1>2, CommandTyped DEF CreateBegin, Call

LEMMA CreateEndTyped ==
    ASSUME TypeOK, NEW t \in Threads, CreateEnd(t)
    PROVE  TypeOK'
<1>1. pc[t] = "create_end" /\ EndEffects \subseteq Effects(Kinds)
  BY EndTyped DEF CreateEnd
<1>2. {"created", "create_abort"} \subseteq Labels
  BY DEF Labels
<1>3. QED
  BY <1>1, <1>2, CommandTyped DEF CreateEnd, Call

LEMMA CreateAbortTyped ==
    ASSUME TypeOK, NEW t \in Threads, CreateAbort(t)
    PROVE  TypeOK'
<1>1. pc[t] = "create_abort" /\ Effect(files, None, "ack") \in Effects(Kinds)
  BY AnsweredTyped DEF CreateAbort, TypeOK, Kinds
<1>2. QED
  BY <1>1, CommandTyped DEF CreateAbort, Call

LEMMA BeginWriteTyped ==
    ASSUME TypeOK, NEW t \in Threads, BeginWrite(t)
    PROVE  TypeOK'
<1>1. pc[t] = "begin" /\ BeginEffects(request[t].name, request[t].size) \subseteq Effects(Kinds)
  BY RequestTyped, BeginTyped DEF BeginWrite
<1>2. "data" \in Labels
  BY DEF Labels
<1>3. QED
  BY <1>1, <1>2, CommandTyped DEF BeginWrite, Call

LEMMA EndWriteTyped ==
    ASSUME TypeOK, NEW t \in Threads, EndWrite(t)
    PROVE  TypeOK'
<1>1. pc[t] = "end" /\ EndEffects \subseteq Effects(Kinds)
  BY EndTyped DEF EndWrite
<1>2. {"changed", "abort"} \subseteq Labels
  BY DEF Labels
<1>3. QED
  BY <1>1, <1>2, CommandTyped DEF EndWrite, Call

LEMMA DeleteFileTyped ==
    ASSUME TypeOK, NEW t \in Threads, DeleteFile(t)
    PROVE  TypeOK'
<1>1. pc[t] = "delete" /\ DeleteEffects(request[t].name) \subseteq Effects(Kinds)
  BY RequestTyped, DeleteTyped DEF DeleteFile
<1>2. "changed" \in Labels
  BY DEF Labels
<1>3. QED
  BY <1>1, <1>2, CommandTyped DEF DeleteFile, Call

LEMMA MoveFileTyped ==
    ASSUME TypeOK, NEW t \in Threads, MoveFile(t)
    PROVE  TypeOK'
<1>1. pc[t] = "move" /\ RenameEffects(request[t].name, request[t].to) \subseteq Effects(Kinds)
  BY RequestTyped, RenameTyped DEF MoveFile
<1>2. "changed" \in Labels
  BY DEF Labels
<1>3. QED
  BY <1>1, <1>2, CommandTyped DEF MoveFile, Call

LEMMA CreatedTyped ==
    ASSUME TypeOK, NEW t \in Threads, Created(t) \/ Changed(t)
    PROVE  TypeOK'
<1>1. DeviceTyped'
  BY TypeParts, DeviceKept DEF Created, Changed
<1>2. HistoryTyped'
  BY DEF TypeOK, HistoryTyped, Created, Changed, Invalidates
<1>3. CacheTyped'
  BY DEF TypeOK, CacheTyped, Created, Changed, Invalidates, threads
<1>4. ThreadsTyped'
  <2>1. CASE Created(t)
    <3>1. /\ pc[t] = "created" /\ UNCHANGED <<count, request, served, result>>
          /\ Writes(request[t]) \in Labels /\ Goto(t, Writes(request[t]))
      BY <2>1 DEF Created, threads, Writes, Labels
    <3>2. QED
      BY <1>3, <3>1, ThreadGoes, TypeParts, RequestTyped
  <2>2. CASE Changed(t)
    BY <1>3, <2>2, ThreadEnds, TypeParts DEF Changed
  <2>3. QED
    BY <2>1, <2>2
<1>5. QED
  BY <1>1, <1>2, <1>4, TypeParts

LEMMA AbortWriteTyped ==
    ASSUME TypeOK, NEW t \in Threads, AbortWrite(t)
    PROVE  TypeOK'
<1>1. Effect(files, None, "ack") \in Effects(Kinds)
  BY AnsweredTyped DEF TypeOK, Kinds
<1>2. Append(answers, Frame("ack")) \in Seq(Frames)
  BY DEF TypeOK, Frame, Frames
<1>3. DeviceTyped' /\ HistoryTyped'
  BY <1>1, <1>2, HandledTyped, UndisturbedTyped
     DEF AbortWrite, TypeOK, DeviceTyped, HistoryTyped
<1>4. ThreadsTyped'
  BY CacheKept, TypeParts, ThreadEnds DEF AbortWrite
<1>5. QED
  BY <1>3, <1>4, TypeParts

LEMMA WriteDataTyped ==
    ASSUME TypeOK, NEW t \in Threads, WriteData(t)
    PROVE  TypeOK'
<1> DEFINE frames(effect) == IF effect.kind = "none" \/ deaf THEN answers
                             ELSE Append(answers, Frame(effect.kind))
           Continues == IF count[t] + 1 < request[t].size
                        THEN Again(t) /\ UNCHANGED <<pc, result>>
                        ELSE Afresh(t) /\ Goto(t, "end") /\ UNCHANGED result
<1>1. /\ pc[t] = "data" /\ Undisturbed(t)
      /\ UNCHANGED <<deaf, faults, cache, request, listing, served>>
  BY DEF WriteData
<1>2. PICK effect \in DataEffects(Id(t)) :
         /\ Handled(t, effect)
         /\ \/ Len(answers) <= 1 /\ answers' = frames(effect) /\ Continues
            \/ /\ frames(effect) # <<>> /\ answers' = Tail(frames(effect))
               /\ IF Head(frames(effect)).kind \in {"nack", "missing"}
                  THEN Ends(t, "error") ELSE Continues
            \/ deaf /\ Ends(t, "error") /\ UNCHANGED answers
  BY DEF WriteData
<1>3. effect \in Effects(Kinds \cup {"none"})
  BY <1>1, <1>2, IdTyped, DataTyped
<1>4. frames(effect) \in Seq(Frames) /\ (deaf => frames(effect) = <<>>)
  <2>1. effect.kind # "none" => Frame(effect.kind) \in Frames
    BY <1>3 DEF Effects, Kinds, Frame, Frames
  <2>2. answers \in Seq(Frames) /\ (deaf => answers = <<>>)
    BY DEF TypeOK
  <2>3. QED
    BY <2>1, <2>2
<1> HIDE DEF frames
<1>5. answers' \in Seq(Frames) /\ (deaf => answers' = <<>>)
  <2>1. answers \in Seq(Frames) /\ (deaf => answers = <<>>)
    BY DEF TypeOK
  <2>2. CASE answers' = frames(effect) \/ UNCHANGED answers
    BY <1>4, <2>1, <2>2
  <2>3. CASE frames(effect) # <<>> /\ answers' = Tail(frames(effect))
    <3>1. Tail(frames(effect)) \in Seq(Frames) /\ ~deaf
      BY <1>4, <2>3, HeadTailProperties
    <3>2. QED
      BY <2>3, <3>1
  <2>4. QED
    BY <1>2, <2>2, <2>3
<1>6. DeviceTyped'
  BY <1>1, <1>2, <1>3, <1>5, HandledTyped DEF TypeOK, DeviceTyped
<1>7. HistoryTyped'
  BY <1>1, <1>2, <1>3, HandledTyped, UndisturbedTyped DEF HistoryTyped
<1>8. ThreadsTyped'
  <2>1. ThreadsTyped /\ CacheTyped' /\ "end" \in Labels
    BY <1>1, CacheKept, TypeParts DEF Labels
  <2>2. CASE Ends(t, "error")
    BY <1>1, <2>1, <2>2, ThreadEnds
  <2>3. CASE Continues
    <3>1. CASE count[t] + 1 < request[t].size
      BY <1>1, <2>1, <2>3, <3>1, ThreadRepeats
    <3>2. CASE ~(count[t] + 1 < request[t].size)
      BY <1>1, <2>1, <2>3, <3>2, ThreadGoes
    <3>3. QED
      BY <3>1, <3>2
  <2>4. QED
    BY <1>2, <2>2, <2>3
<1>9. QED
  BY <1>6, <1>7, <1>8, TypeParts

LEMMA InitTyped == Init => TypeOK
<1> SUFFICES ASSUME Init PROVE TypeOK
  OBVIOUS
<1>1. files \in [Names -> Contents]
  BY DEF Init, Contents
<1>2. answers \in Seq(Frames) /\ upload = None /\ faults \in 0 .. MaxFaults /\ deaf = FALSE
  BY ServerAssumption DEF Init
<1> HIDE DEF Init
<1>6. DeviceTyped
  BY <1>1, <1>2 DEF DeviceTyped
<1>3. HistoryTyped
  BY DEF Init, HistoryTyped
<1>4. ThreadsTyped
  BY ServerAssumption DEF Init, ThreadsTyped, Labels, Attempts
<1>5. QED
  BY <1>3, <1>4, <1>6, TypeParts

LEMMA NextTyped == TypeOK /\ [Next]_vars => TypeOK'
<1>1. CASE UNCHANGED vars
  BY <1>1 DEF TypeOK, vars, device, line, threads, history
<1>2. CASE Next
  BY <1>2, CacheExpiresTyped, AcceptTyped, CacheGetTyped, FetchTyped, CachePutTyped,
     CreateBeginTyped, CreateEndTyped, CreateAbortTyped, CreatedTyped, BeginWriteTyped,
     WriteDataTyped, EndWriteTyped, AbortWriteTyped, DeleteFileTyped, MoveFileTyped
     DEF Next, Step
<1>3. QED
  BY <1>1, <1>2

-----------------------------------------------------------------------------
(***************************************************************************)
(* Steps.                                                                  *)
(***************************************************************************)
\* A thread's own variables are its own.
Kept(u) ==
    /\ pc'[u] = pc[u] /\ request'[u] = request[u] /\ count'[u] = count[u]
    /\ served'[u] = served[u] /\ result'[u] = result[u] /\ changed'[u] = changed[u]
    /\ stored[u] => stored'[u]

LEMMA OthersStay ==
    ASSUME TypeOK, NEW t \in Threads, Accept(t) \/ Step(t), NEW u \in Threads, u # t
    PROVE  Kept(u)
<1> DEFINE Moves == \/ \E label \in Labels : Goto(t, label) /\ UNCHANGED result
                   \/ \E how \in {"ok", "error"} : Ends(t, how)
                   \/ UNCHANGED <<pc, result>>
           Counts == UNCHANGED count \/ Again(t) \/ Afresh(t)
<1>1. ASSUME Moves, Counts, UNCHANGED <<request, served>>,
             changed'[u] = changed[u], stored[u] => stored'[u]
      PROVE  Kept(u)
  <2>1. pc'[u] = pc[u] /\ result'[u] = result[u]
    BY <1>1 DEF Goto, Ends, TypeOK
  <2>2. count'[u] = count[u]
    BY <1>1 DEF Again, Afresh, TypeOK
  <2>3. QED
    BY <1>1, <2>1, <2>2 DEF Kept
<1>2. ASSUME NEW effect, Handled(t, effect)
      PROVE  changed'[u] = changed[u] /\ (stored[u] => stored'[u])
  BY <1>2 DEF Handled, TypeOK
<1>3. ASSUME NEW names, Resolved(t, names) PROVE Moves /\ Counts
  BY <1>3 DEF Resolved, Ends, Writes, Labels
<1>4. ASSUME FetchFails(t) PROVE Moves /\ Counts
  BY <1>3, <1>4 DEF FetchFails
<1>5. CASE Accept(t)
  BY <1>5 DEF Accept, Goto, Kept, TypeOK
<1>6. CASE CacheGet(t) \/ CachePut(t)
  BY <1>1, <1>3, <1>6 DEF CacheGet, CachePut, Goes, Labels, history
<1>7. CASE Fetch(t)
  BY <1>1, <1>4, <1>7, FetchReads DEF Fetch, Goes, Labels, ReadsListing
<1>8. /\ \A label \in Labels : Goes(t, label) => Moves /\ Counts
      /\ \A how \in {"ok", "error"} : Ends(t, how) => Moves /\ Counts
      /\ Again(t) /\ UNCHANGED <<pc, result>> => Moves /\ Counts
      /\ Afresh(t) /\ Goto(t, "end") /\ UNCHANGED result => Moves /\ Counts
  BY DEF Goes, Ends, Labels
<1> HIDE DEF Moves, Counts
<1>9. ASSUME NEW effect, Handled(t, effect), UNCHANGED <<request, served>>, Moves, Counts
      PROVE  Kept(u)
  <2>1. changed'[u] = changed[u] /\ (stored[u] => stored'[u])
    BY <1>2, <1>9
  <2>2. QED
    BY <1>1, <1>9, <2>1
<1>10. {"create_end", "create_abort", "created", "data", "abort", "changed"} \subseteq Labels
  BY DEF Labels
<1>11. CASE CreateBegin(t) \/ CreateEnd(t) \/ CreateAbort(t)
  BY <1>8, <1>9, <1>10, <1>11 DEF CreateBegin, CreateEnd, CreateAbort, Call
<1>12. CASE BeginWrite(t) \/ EndWrite(t) \/ MoveFile(t)
  BY <1>8, <1>9, <1>10, <1>12 DEF BeginWrite, EndWrite, MoveFile, Call
<1>14. CASE DeleteFile(t)
  BY <1>8, <1>9, <1>10, <1>14 DEF DeleteFile, Call
<1>15. CASE WriteData(t)
  BY <1>8, <1>9, <1>15 DEF WriteData
<1>16. CASE AbortWrite(t)
  BY <1>8, <1>9, <1>16 DEF AbortWrite
<1>13. CASE Created(t) \/ Changed(t)
  BY <1>1, <1>13 DEF Created, Changed, Invalidates, threads, Labels, Ends, TypeOK, Writes,
     Moves, Counts
<1>17. QED
  BY <1>5, <1>6, <1>7, <1>11, <1>12, <1>13, <1>14, <1>15, <1>16 DEF Step

\* Where a thread goes keeps what its steps say.
LEMMA ResolvedSteps ==
    ASSUME TypeOK, NEW t \in Threads, pc[t] \in {"resolve", "fetch", "keep"}, NEW names,
           Resolved(t, names), UNCHANGED request
    PROVE  StepsAt(t)'
<1>1. request[t].size \in Nat /\ pc \in [Threads -> Labels] /\ count \in [Threads -> Nat]
  BY RequestTyped DEF TypeOK
<1>2. QED
  BY <1>1 DEF Resolved, Ends, Goto, Afresh, Writes, StepsAt, UploadSteps

LEMMA StepsKept ==
    ASSUME TypeOK, Steps, NEW t \in Threads, Accept(t) \/ Step(t)
    PROVE  StepsAt(t)'
<1> USE DEF Goto, Goes, Ends, Again, Afresh, UploadSteps
<1>1. /\ pc \in [Threads -> Labels] /\ count \in [Threads -> Nat]
      /\ changed \in [Threads -> BOOLEAN]
      /\ result \in [Threads -> {"none", "ok", "error"}]
      /\ StepsAt(t)
  BY DEF TypeOK, Steps
<1>2. CASE Accept(t)
  BY <1>1, <1>2 DEF Accept, StepsAt
<1>3. CASE CacheGet(t)
  BY <1>1, <1>3, ResolvedSteps DEF CacheGet, StepsAt, history
<1>4. CASE CachePut(t)
  BY <1>4, ResolvedSteps DEF CachePut
<1>5. CASE Fetch(t)
  <2>1. pc[t] = "fetch" /\ UNCHANGED <<request, changed>>
    BY <1>5 DEF Fetch
  <2>2. FetchFails(t) \/ Goes(t, "keep")
    BY <1>5, FetchReads DEF ReadsListing
  <2>3. QED
    BY <1>1, <2>1, <2>2, ResolvedSteps DEF FetchFails, StepsAt
<1>6. CASE CreateBegin(t)
  BY <1>1, <1>6 DEF CreateBegin, Call, StepsAt
<1>7. CASE CreateEnd(t)
  BY <1>1, <1>7 DEF CreateEnd, Call, StepsAt
<1>8. CASE CreateAbort(t)
  BY <1>1, <1>8 DEF CreateAbort, Call, StepsAt
<1>9. CASE Created(t)
  <2>1. request[t].size \in Nat
    BY <1>9, RequestTyped DEF Created
  <2>2. QED
    BY <1>1, <1>9, <2>1 DEF Created, threads, Writes, StepsAt
<1>10. CASE BeginWrite(t)
  BY <1>1, <1>10 DEF BeginWrite, Call, StepsAt
<1>11. CASE WriteData(t)
  <2>1. pc[t] = "data" /\ UNCHANGED request
    BY <1>11 DEF WriteData
  <2>2. \/ Ends(t, "error")
        \/ IF count[t] + 1 < request[t].size
           THEN Again(t) /\ UNCHANGED <<pc, result>>
           ELSE Afresh(t) /\ Goto(t, "end") /\ UNCHANGED result
    BY <1>11 DEF WriteData
  <2>3. QED
    BY <1>1, <2>1, <2>2 DEF StepsAt
<1>12. CASE EndWrite(t)
  BY <1>1, <1>12 DEF EndWrite, Call, StepsAt
<1>13. CASE AbortWrite(t)
  BY <1>1, <1>13 DEF AbortWrite, StepsAt
<1>14. CASE DeleteFile(t)
  BY <1>1, <1>14 DEF DeleteFile, Call, StepsAt
<1>15. CASE MoveFile(t)
  BY <1>1, <1>15 DEF MoveFile, Call, StepsAt
<1>16. CASE Changed(t)
  BY <1>1, <1>16 DEF Changed, StepsAt
<1>17. QED
  BY <1>2, <1>3, <1>4, <1>5, <1>6, <1>7, <1>8, <1>9, <1>10, <1>11, <1>12, <1>13, <1>14,
     <1>15, <1>16 DEF Step

-----------------------------------------------------------------------------
(***************************************************************************)
(* A PUT that has the line to itself.                                      *)
(***************************************************************************)
\* It stays so only while nothing is late or lost, and its BEGIN is where it starts.
LEMMA CleanSteps ==
    ASSUME TypeOK, NEW t \in Threads, Undisturbed(t)
    PROVE  /\ \A u \in Threads : clean'[u] => u = t
           /\ clean'[t] => faults' = faults
           /\ clean'[t] /\ pc[t] # "begin" => clean[t]
           /\ clean'[t] /\ pc[t] = "begin" => answers = <<>> /\ ~deaf /\ upload = None
BY DEF Undisturbed

\* In step, a command reads its own answer, or the refusal of an earlier one.
LEMMA CleanReads ==
    ASSUME TypeOK, NEW kind, NEW got, Reads(kind, got), faults' = faults, ~deaf
    PROVE  /\ answers = <<>> => got = kind /\ answers' = <<>> /\ ~deaf'
           /\ OnlyNacks => got = "nack"
<1>1. got = Head(Append(answers, Frame(kind))).kind /\ answers' = Tail(Append(answers, Frame(kind)))
      /\ ~deaf'
  <2>1. faults \in Nat
    BY DEF TypeOK
  <2>2. ~Fault("late") /\ ~Fault("lost")
    BY <2>1 DEF Fault
  <2>3. QED
    BY <2>2 DEF Reads
<1>2. CASE answers = <<>>
  BY <1>1, <1>2 DEF Frame, OnlyNacks
<1>3. CASE OnlyNacks
  <2>1. answers \in Seq(Frames) /\ answers # <<>>
    BY <1>3 DEF OnlyNacks, TypeOK
  <2>2. Head(Append(answers, Frame(kind))) = Head(answers)
    BY <2>1, HeadTailAppend
  <2>3. Head(answers) = answers[1] /\ 1 \in DOMAIN answers
    BY <2>1
  <2>4. QED
    BY <1>1, <1>3, <2>1, <2>2, <2>3 DEF OnlyNacks, Frame
<1>4. QED
  BY <1>2, <1>3

LEMMA BeginStaysClean ==
    ASSUME TypeOK, Steps, NEW t \in Threads, BeginWrite(t), clean'[t]
    PROVE  CleanAt(t)'
<1>1. pc[t] = "begin" /\ Undisturbed(t) /\ UNCHANGED <<request, served>>
  BY DEF BeginWrite, Call
<1>2. faults' = faults /\ answers = <<>> /\ ~deaf /\ upload = None /\ count[t] = 0
  BY <1>1, CleanSteps DEF Steps, StepsAt, UploadSteps
<1>3. PICK effect \in BeginEffects(request[t].name, request[t].size) : \E got :
         /\ Reads(effect.kind, got) /\ Handled(t, effect)
         /\ IF got = "ack" THEN Goes(t, "data") ELSE Ends(t, "error")
  BY DEF BeginWrite, Call
<1>4. PICK got :
         /\ Reads(effect.kind, got) /\ Handled(t, effect)
         /\ IF got = "ack" THEN Goes(t, "data") ELSE Ends(t, "error")
  BY <1>3
<1>5. got = effect.kind /\ answers' = <<>> /\ ~deaf'
  BY <1>2, <1>4, CleanReads
<1>6. CASE got = "ack"
  <2>1. upload' = [name |-> request[t].name, total |-> request[t].size, data |-> <<>>]
    <3>1. \A e \in Refused : e.kind = "nack"
      BY DEF Refused, Answered, Effect
    <3>2. effect = Effect(files, [name |-> request[t].name, total |-> request[t].size,
                                  data |-> <<>>], "ack")
      BY <1>2, <1>4, <1>5, <1>6, <3>1 DEF BeginEffects
    <3>3. QED
      BY <1>4, <3>2 DEF Effect, Handled
  <2>2. pc'[t] = "data" /\ count'[t] = 0
    BY <1>2, <1>4, <1>6 DEF Goes, Goto, TypeOK
  <2>3. FirstChunks(t, 0)' = <<>>
    BY DEF FirstChunks
  <2>4. QED
    BY <1>1, <1>5, <2>1, <2>2, <2>3 DEF CleanAt, Streams
<1>7. CASE got # "ack"
  <2>1. pc'[t] = "idle" /\ result'[t] = "error"
    BY <1>4, <1>7 DEF Ends, Goto, TypeOK
  <2>2. QED
    BY <2>1 DEF CleanAt
<1>8. QED
  BY <1>6, <1>7

LEMMA EndStaysClean ==
    ASSUME IInv, NEW t \in Threads, EndWrite(t), clean'[t]
    PROVE  CleanAt(t)'
<1>1. pc[t] = "end" /\ Undisturbed(t) /\ UNCHANGED <<request, served>> /\ TypeOK
  BY DEF EndWrite, Call, IInv
<1>2. faults' = faults /\ ~deaf /\ Streams(t, request[t].size) /\ request[t].op = "PUT"
  BY <1>1, CleanSteps DEF IInv, CleanLine, CleanAt, Steps, StepsAt, UploadSteps
<1>3. PICK effect \in EndEffects : \E got :
         /\ Reads(effect.kind, got) /\ Handled(t, effect)
         /\ Goes(t, IF got = "ack" THEN "changed" ELSE "abort")
  BY DEF EndWrite, Call
<1>4. PICK got :
         /\ Reads(effect.kind, got) /\ Handled(t, effect)
         /\ Goes(t, IF got = "ack" THEN "changed" ELSE "abort")
  BY <1>3
<1>5. pc'[t] = IF got = "ack" THEN "changed" ELSE "abort"
  BY <1>1, <1>4 DEF Goes, Goto, TypeOK
<1>6. ASSUME got = "ack" PROVE stored'[t]
  <2>1. answers = <<>> /\ effect.kind = "ack"
    BY <1>1, <1>2, <1>4, <1>6, CleanReads DEF Streams
  <2>2. upload = [name |-> request[t].name, total |-> request[t].size,
                  data |-> FirstChunks(t, request[t].size)]
    BY <1>2, <2>1 DEF Streams, OnlyNacks
  <2>3. files' = [files EXCEPT ![upload.name] = upload.data]
    BY <1>4, <2>1 DEF EndEffects, Effect, Handled
  <2>4. files'[request[t].name] = Body(t)
    BY <1>1, <2>2, <2>3, RequestTyped DEF TypeOK, FirstChunks, Body
  <2>5. QED
    BY <1>1, <1>2, <1>4, <2>4 DEF Handled, Body, Id
<1>7. QED
  BY <1>5, <1>6 DEF CleanAt

\* A chunk that is taken is the next one of the body; one that is refused leaves
\* the refusal in the line.
LEMMA DataStaysClean ==
    ASSUME IInv, NEW t \in Threads, WriteData(t), clean'[t]
    PROVE  CleanAt(t)'
<1>1. pc[t] = "data" /\ Undisturbed(t) /\ UNCHANGED <<request, served, deaf>> /\ TypeOK
  BY DEF WriteData, IInv
<1>2. ~deaf /\ Streams(t, count[t]) /\ count[t] < request[t].size
  BY <1>1, CleanSteps DEF IInv, CleanLine, CleanAt, Steps, StepsAt
<1>3. /\ count \in [Threads -> Nat] /\ pc \in [Threads -> Labels] /\ answers \in Seq(Frames)
      /\ result \in [Threads -> {"none", "ok", "error"}] /\ request[t].size \in Nat
  BY <1>1, RequestTyped DEF TypeOK
<1>11. PICK n \in Nat : n = count[t]
  BY <1>3
<1> DEFINE frames(effect) == IF effect.kind = "none" THEN answers
                             ELSE Append(answers, Frame(effect.kind))
           Continues == IF n + 1 < request[t].size
                        THEN Again(t) /\ UNCHANGED <<pc, result>>
                        ELSE Afresh(t) /\ Goto(t, "end") /\ UNCHANGED result
<1>4. PICK effect \in DataEffects(Id(t)) :
         /\ Handled(t, effect)
         /\ \/ answers' = frames(effect) /\ Continues
            \/ /\ frames(effect) # <<>> /\ answers' = Tail(frames(effect))
               /\ IF Head(frames(effect)).kind \in {"nack", "missing"}
                  THEN Ends(t, "error") ELSE Continues
  BY <1>2, <1>11 DEF WriteData
<1>5. CASE Ends(t, "error")
  BY <1>3, <1>5 DEF Ends, Goto, CleanAt
<1>6. ASSUME Continues, Streams(t, n + 1)' PROVE CleanAt(t)'
  <2>1. CASE n + 1 < request[t].size
    <3>1. count'[t] = n + 1 /\ pc'[t] = "data"
      BY <1>1, <1>3, <1>6, <1>11, <2>1 DEF Again
    <3>2. QED
      BY <1>1, <1>2, <1>6, <3>1 DEF CleanAt
  <2>2. CASE ~(n + 1 < request[t].size)
    <3>1. n + 1 = request[t].size
      BY <1>2, <1>3, <1>11, <2>2
    <3>2. pc'[t] = "end" /\ request'[t].size = n + 1
      BY <1>1, <1>3, <1>6, <2>2, <3>1 DEF Goto
    <3>3. QED
      BY <1>1, <1>2, <1>6, <3>2 DEF CleanAt
  <2>3. QED
    BY <2>1, <2>2
<1>7. CASE effect.kind = "nack" /\ upload' = None
  <2>1. frames(effect) = Append(answers, Frame("nack"))
    BY <1>7
  <2>2. \A i \in DOMAIN answers : answers[i] = Frame("nack")
    BY <1>2 DEF Streams, OnlyNacks
  <2>3. Frame("nack") \in Frames
    BY DEF Frame, Frames
  <2>4. /\ Append(answers, Frame("nack")) # <<>>
        /\ \A i \in DOMAIN Append(answers, Frame("nack")) :
              Append(answers, Frame("nack"))[i] = Frame("nack")
        /\ Head(Append(answers, Frame("nack"))) = Frame("nack")
    <3>1. Len(answers) \in Nat /\ DOMAIN answers = 1 .. Len(answers)
      BY <1>3, LenProperties
    <3>2. Append(answers, Frame("nack")) \in Seq(Frames)
          /\ Len(Append(answers, Frame("nack"))) = Len(answers) + 1
          /\ Append(answers, Frame("nack")) # <<>>
          /\ \A i \in 1 .. Len(answers) + 1 : Append(answers, Frame("nack"))[i] = Frame("nack")
      BY <1>3, <2>2, <2>3, <3>1, AppendProperties
    <3>3. QED
      BY <3>1, <3>2
  <2>5. Frame("nack").kind = "nack"
    BY DEF Frame
  <2>6. CASE answers' = frames(effect) /\ Continues
    <3>1. Streams(t, n + 1)'
      BY <1>7, <2>1, <2>4, <2>6 DEF Streams, OnlyNacks
    <3>2. QED
      BY <1>6, <2>6, <3>1
  <2>7. QED
    BY <1>4, <1>5, <2>1, <2>4, <2>5, <2>6
<1>8. CASE effect.kind = "none" /\ ~(upload = None \/ Len(upload.data) = upload.total)
  <2>1. answers = <<>> /\ frames(effect) = <<>>
    BY <1>2, <1>8 DEF Streams
  <2>2. answers' = <<>> /\ Continues
    BY <1>4, <2>1
  <2>3. upload = [name |-> request[t].name, total |-> request[t].size, data |-> FirstChunks(t, n)]
    BY <1>2, <1>8, <1>11 DEF Streams
  <2>4. upload' = [upload EXCEPT !.data = Append(@, Id(t))]
    BY <1>4, <1>8 DEF DataEffects, Effect, Handled
  <2>5. Append(FirstChunks(t, n), Id(t)) = FirstChunks(t, n + 1)
    BY <1>3 DEF FirstChunks
  <2>6. FirstChunks(t, n + 1)' = FirstChunks(t, n + 1) /\ UNCHANGED request
    BY <1>1 DEF FirstChunks, Id
  <2>7. upload' = [name |-> request[t].name, total |-> request[t].size,
                   data |-> FirstChunks(t, n + 1)]
    BY <2>3, <2>4, <2>5
  <2>8. Streams(t, n + 1)'
    BY <2>2, <2>6, <2>7 DEF Streams
  <2>9. QED
    BY <1>6, <2>2, <2>8
<1>9. (effect.kind = "nack" /\ upload' = None)
      \/ (effect.kind = "none" /\ ~(upload = None \/ Len(upload.data) = upload.total))
  BY <1>4 DEF DataEffects, Effect, Handled
<1>10. QED
  BY <1>7, <1>8, <1>9

LEMMA CleanKept == IInv /\ Next => CleanLine'
<1> SUFFICES ASSUME IInv, Next, NEW u \in Threads, clean'[u] PROVE CleanAt(u)'
  BY DEF CleanLine
<1> TypeOK /\ Steps /\ (clean[u] => CleanAt(u))
  BY DEF IInv, CleanLine
<1>1. ASSUME clean[u], UNCHANGED <<device, line>>, Kept(u) PROVE CleanAt(u)'
  <2>1. CleanAt(u) /\ request'[u] = request[u] /\ Id(u)' = Id(u)
    BY <1>1 DEF Kept, Id
  <2>2. ASSUME NEW n, Streams(u, n) PROVE Streams(u, n)'
    BY <1>1, <2>1, <2>2 DEF Streams, OnlyNacks, FirstChunks, device, line
  <2>3. PICK n : n = count[u]
    OBVIOUS
  <2>4. PICK m : m = request[u].size
    OBVIOUS
  <2>5. count'[u] = n /\ request'[u].size = m
    BY <1>1, <2>3, <2>4 DEF Kept
  <2>6. pc'[u] = pc[u] /\ (stored[u] => stored'[u]) /\ result'[u] = result[u]
    BY <1>1 DEF Kept
  <2>7. QED
    BY <1>1, <2>1, <2>2, <2>3, <2>4, <2>5, <2>6 DEF CleanAt, OnlyNacks, device, line
<1>2. CASE CacheExpires
  <2>1. UNCHANGED <<device, line, clean, stored>> /\ Kept(u)
    BY <1>2 DEF CacheExpires, threads, history, Kept
  <2>2. QED
    BY <1>1, <2>1
<1>3. ASSUME NEW t \in Threads, Accept(t) PROVE CleanAt(u)'
  <2>1. u # t /\ clean[u] /\ UNCHANGED <<device, line>>
    BY <1>3 DEF Accept, TypeOK
  <2>2. QED
    BY <1>1, <1>3, <2>1, OthersStay
<1>4. ASSUME NEW t \in Threads, CacheGet(t) \/ CachePut(t) \/ Created(t) PROVE CleanAt(u)'
  <2>1. clean[u] /\ UNCHANGED <<device, line>> /\ pc[t] \in {"resolve", "keep", "created"}
    BY <1>4 DEF CacheGet, CachePut, Created, history
  <2>2. u # t
    BY <2>1 DEF CleanAt
  <2>3. QED
    BY <1>1, <1>4, <2>1, <2>2, OthersStay DEF Step
<1>5. ASSUME NEW t \in Threads, Changed(t) PROVE CleanAt(u)'
  <2>1. clean[u] /\ UNCHANGED <<device, line, stored>> /\ pc[t] = "changed"
    BY <1>5 DEF Changed
  <2>2. CASE u = t
    <3>1. stored[u] /\ pc'[u] = "idle"
      BY <1>5, <2>1, <2>2 DEF CleanAt, Changed, Ends, Goto, TypeOK
    <3>2. QED
      BY <2>1, <3>1 DEF CleanAt
  <2>3. CASE u # t
    BY <1>1, <1>5, <2>1, <2>3, OthersStay DEF Step
  <2>4. QED
    BY <2>2, <2>3
<1>6. ASSUME NEW t \in Threads, Undisturbed(t), pc[t] \notin {"begin", "data", "end", "abort"},
             pc[t] \notin {"changed", "idle"}
      PROVE  CleanAt(u)'
  BY <1>6, CleanSteps DEF CleanAt
<1>7. ASSUME NEW t \in Threads, AbortWrite(t) PROVE CleanAt(u)'
  <2>1. u = t /\ pc'[t] = "idle" /\ result'[t] = "error"
    BY <1>7, CleanSteps DEF AbortWrite, Ends, Goto, TypeOK
  <2>2. QED
    BY <2>1 DEF CleanAt
<1>8. ASSUME NEW t \in Threads, BeginWrite(t) \/ WriteData(t) \/ EndWrite(t) PROVE CleanAt(u)'
  <2>1. u = t
    BY <1>8, CleanSteps DEF BeginWrite, WriteData, EndWrite, Call
  <2>2. QED
    BY <1>8, <2>1, BeginStaysClean, DataStaysClean, EndStaysClean
<1>9. ASSUME NEW t \in Threads,
             \/ Fetch(t) \/ CreateBegin(t) \/ CreateEnd(t) \/ CreateAbort(t)
             \/ DeleteFile(t) \/ MoveFile(t)
      PROVE  CleanAt(u)'
  BY <1>6, <1>9 DEF Fetch, CreateBegin, CreateEnd, CreateAbort, DeleteFile, MoveFile, Call
<1>10. QED
  BY <1>2, <1>3, <1>4, <1>5, <1>7, <1>8, <1>9 DEF Next, Step

-----------------------------------------------------------------------------
(***************************************************************************)
(* The cached listing.                                                     *)
(***************************************************************************)
\* The request that a cached listing may differ from the folder for.
Blamed(t) ==
    /\ changed[t]
    /\ pc[t] # "idle" \/ result[t] = "error" \/ request[t].op = "DELETE"

LEMMA BlamedKept ==
    ASSUME NEW u, Kept(u), Blamed(u)
    PROVE  Blamed(u)'
BY DEF Kept, Blamed

\* A command that changes the folder leaves its own request to blame.
LEMMA CommandBlamed ==
    ASSUME TypeOK, StaleOnlyByFailureOrRace, NEW t \in Threads, NEW effect, Handled(t, effect),
           UNCHANGED cache, \A u \in Threads : u # t => Kept(u),
           pc'[t] # "idle" \/ result'[t] = "error" \/ request'[t].op = "DELETE"
    PROVE  StaleOnlyByFailureOrRace'
<1>1. changed'[t] = (changed[t] \/ Present' # Present)
  BY DEF Handled, TypeOK
<1>2. CASE changed'[t]
  BY <1>2 DEF StaleOnlyByFailureOrRace
<1>3. CASE ~changed'[t]
  <2>1. ~changed[t] /\ Present' = Present
    BY <1>1, <1>3
  <2>2. CASE \E u \in Threads : Blamed(u)
    <3>1. PICK u \in Threads : Blamed(u)
      BY <2>2
    <3>2. u # t
      BY <2>1, <3>1 DEF Blamed
    <3>3. QED
      BY <3>1, <3>2, BlamedKept DEF StaleOnlyByFailureOrRace, Blamed
  <2>3. CASE cache = None \/ cache.names = Present \/ cache.excused
    BY <2>1, <2>3 DEF StaleOnlyByFailureOrRace
  <2>4. QED
    BY <2>2, <2>3 DEF StaleOnlyByFailureOrRace, Blamed
<1>4. QED
  BY <1>2, <1>3

LEMMA StaleKept == IInv /\ Next => StaleOnlyByFailureOrRace'
<1> SUFFICES ASSUME IInv, Next PROVE StaleOnlyByFailureOrRace'
  OBVIOUS
<1> TypeOK /\ Steps /\ StaleOnlyByFailureOrRace
  BY DEF IInv
<1>1. ASSUME NEW t \in Threads, Step(t), NEW effect, Handled(t, effect), UNCHANGED cache,
             pc'[t] # "idle" \/ result'[t] = "error" \/ request'[t].op = "DELETE"
      PROVE  StaleOnlyByFailureOrRace'
  BY <1>1, OthersStay, CommandBlamed
<1>2. ASSUME NEW t \in Threads, Accept(t) \/ Step(t), UNCHANGED files, ~changed[t],
             cache' \in {cache, None}
      PROVE  StaleOnlyByFailureOrRace'
  <2>1. Present' = Present
    BY <1>2 DEF Present
  <2>2. CASE \E u \in Threads : Blamed(u)
    <3>1. PICK u \in Threads : Blamed(u)
      BY <2>2
    <3>2. u # t
      BY <1>2, <3>1 DEF Blamed
    <3>3. QED
      BY <1>2, <3>1, <3>2, OthersStay, BlamedKept DEF StaleOnlyByFailureOrRace, Blamed
  <2>3. CASE cache = None \/ cache.names = Present \/ cache.excused
    BY <1>2, <2>1, <2>3 DEF StaleOnlyByFailureOrRace
  <2>4. QED
    BY <2>2, <2>3 DEF StaleOnlyByFailureOrRace, Blamed
<1>3. CASE CacheExpires
  <2>1. /\ cache \in Listings /\ cache' = [cache EXCEPT !.old = TRUE]
        /\ UNCHANGED <<files, pc, result, request, changed>>
    BY <1>3 DEF CacheExpires, TypeOK, device, threads, history
  <2>2. cache'.names = cache.names /\ cache'.excused = cache.excused
        /\ Present' = Present /\ cache # None
    BY <1>3, <2>1 DEF Listings, Present, CacheExpires
  <2>3. QED
    BY <2>1, <2>2 DEF StaleOnlyByFailureOrRace
<1>4. ASSUME NEW t \in Threads, Accept(t) PROVE StaleOnlyByFailureOrRace'
  <2>1. CASE cache # None /\ changed[t]
    <3>1. cache \in Listings /\ cache' = [cache EXCEPT !.excused = TRUE]
      BY <1>4, <2>1 DEF Accept, TypeOK
    <3>2. cache'.excused
      BY <3>1 DEF Listings
    <3>3. QED
      BY <3>2 DEF StaleOnlyByFailureOrRace
  <2>2. CASE cache = None
    BY <1>4, <2>2 DEF Accept, StaleOnlyByFailureOrRace
  <2>3. CASE ~changed[t]
    BY <1>2, <1>4, <2>3 DEF Accept, device
  <2>4. QED
    BY <2>1, <2>2, <2>3
<1>5. ASSUME NEW t \in Threads, CacheGet(t) \/ Fetch(t) PROVE StaleOnlyByFailureOrRace'
  <2>1. ~changed[t] /\ UNCHANGED files /\ cache' \in {cache, None}
    BY <1>5 DEF CacheGet, Fetch, device, Steps, StepsAt
  <2>2. QED
    BY <1>2, <1>5, <2>1 DEF Step
<1>6. ASSUME NEW t \in Threads, CachePut(t) PROVE StaleOnlyByFailureOrRace'
  BY <1>6 DEF CachePut, StaleOnlyByFailureOrRace, Present, device
<1>7. ASSUME NEW t \in Threads, Created(t) \/ Changed(t) PROVE StaleOnlyByFailureOrRace'
  BY <1>7 DEF Created, Changed, Invalidates, StaleOnlyByFailureOrRace
<1>8. pc \in [Threads -> Labels] /\ result \in [Threads -> {"none", "ok", "error"}]
  BY DEF TypeOK
<1> USE DEF Goes, Goto, Ends
<1>9. ASSUME NEW t \in Threads, CreateBegin(t) \/ CreateEnd(t) \/ CreateAbort(t)
      PROVE  StaleOnlyByFailureOrRace'
  BY <1>1, <1>8, <1>9 DEF CreateBegin, CreateEnd, CreateAbort, Call, Step
<1>10. ASSUME NEW t \in Threads, BeginWrite(t) \/ EndWrite(t) \/ MoveFile(t)
       PROVE  StaleOnlyByFailureOrRace'
  BY <1>1, <1>8, <1>10 DEF BeginWrite, EndWrite, MoveFile, Call, Step
<1>11. ASSUME NEW t \in Threads, WriteData(t) PROVE StaleOnlyByFailureOrRace'
  BY <1>1, <1>8, <1>11 DEF WriteData, Step
<1>12. ASSUME NEW t \in Threads, AbortWrite(t) PROVE StaleOnlyByFailureOrRace'
  BY <1>1, <1>8, <1>12 DEF AbortWrite, Step
<1>13. ASSUME NEW t \in Threads, DeleteFile(t) PROVE StaleOnlyByFailureOrRace'
  BY <1>1, <1>13 DEF DeleteFile, Call, Step, Steps, StepsAt
<1>14. QED
  BY <1>3, <1>4, <1>5, <1>6, <1>7, <1>9, <1>10, <1>11, <1>12, <1>13 DEF Next, Step

-----------------------------------------------------------------------------
LEMMA Inductive == IInv /\ [Next]_vars => IInv'
<1>1. CASE UNCHANGED vars
  <2>1. UNCHANGED <<device, line, cache, pc, threads, history>>
    BY <1>1 DEF vars
  <2>2. QED
    BY <2>1, NextTyped, <1>1
       DEF IInv, Steps, StepsAt, CleanLine, CleanAt, Streams, OnlyNacks, FirstChunks, Id,
           StaleOnlyByFailureOrRace, Present, device, line, threads, history
<1>2. ASSUME IInv, Next PROVE IInv'
  <2>1. TypeOK'
    BY <1>2, NextTyped DEF IInv
  <2>2. Steps'
    <3> SUFFICES ASSUME NEW u \in Threads PROVE StepsAt(u)'
      BY DEF Steps
    <3>1. CASE Kept(u)
      BY <1>2, <3>1 DEF Kept, IInv, Steps, StepsAt
    <3>2. CASE CacheExpires
      BY <3>1, <3>2 DEF CacheExpires, threads, history, Kept
    <3>3. ASSUME NEW t \in Threads, Accept(t) \/ Step(t) PROVE StepsAt(u)'
      BY <1>2, <3>1, <3>3, StepsKept, OthersStay DEF IInv
    <3>4. QED
      BY <1>2, <3>2, <3>3 DEF Next
  <2>3. QED
    BY <1>2, <2>1, <2>2, CleanKept, StaleKept DEF IInv
<1>3. QED
  BY <1>1, <1>2

LEMMA Invariance == Spec => []IInv
<1>1. Init => IInv
  BY InitTyped DEF Init, IInv, Steps, StepsAt, UploadSteps, CleanLine, StaleOnlyByFailureOrRace
<1>2. QED
  BY <1>1, Inductive, PTL DEF Spec

\* Every variable keeps its type, whatever requests are served beside each other:
\* a transfer holds no more than was declared, the line holds frames of the
\* protocol, and no attempt is made too often.
THEOREM TypeCorrect == Spec => []TypeOK
<1>1. IInv => TypeOK
  BY DEF IInv
<1>2. QED
  BY <1>1, Invariance, PTL

\* A PUT that streamed its body with the line in step and to itself is stored
\* when it is answered with success, for any number of threads, any sizes, and
\* whatever the device refuses.
THEOREM CleanUploadStored == Spec => []CleanPutIsStored
<1>1. IInv => CleanPutIsStored
  BY DEF IInv, CleanLine, CleanAt, CleanPutIsStored
<1>2. QED
  BY <1>1, Invariance, PTL

\* The cached listing is the folder's, but for a request that has changed the
\* folder and not yet invalidated it, or failed, or took a refused DELETE for
\* success, and for one that was fetched before a change and put after it.
THEOREM CacheIsFresh == Spec => []StaleOnlyByFailureOrRace
<1>1. IInv => StaleOnlyByFailureOrRace
  BY DEF IInv
<1>2. QED
  BY <1>1, Invariance, PTL
=============================================================================
