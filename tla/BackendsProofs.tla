---------------------------- MODULE BackendsProofs ----------------------------
(***************************************************************************)
(* Theorems about Backends: the types, with the tree that the volume stays *)
(* whatever call fails at whatever step; that the mount flag tells the     *)
(* truth; and that each of the four backends implements BackendContract.   *)
(***************************************************************************)
EXTENDS Backends, SequenceTheorems, WellFoundedInduction, TLAPS

CopySteps == {"copy", "copy_open", "copy_chunk", "copy_cleanup"}

\* Who may be where: past its entry a task of a flash backend has the mutex, but
\* for a call that SPIFFS refuses; on the card only the RX task does more than
\* to mount.
PlacedAt(t) ==
    /\ pc[t] # "idle" => call[t] \in Calls /\ MayCall(t, call[t].op)
    /\ pc[t] # "idle" /\ Unsupported(call[t].op) => pc[t] \in {"enter", "leave"}
    /\ Flash /\ pc[t] \notin {"idle", "enter"} /\ ~Unsupported(call[t].op) => lock = t
    /\ ~Flash /\ t # Rx => pc[t] \in {"idle", "enter", "mount", "clean_up", "leave"}
    /\ pc[t] \in CopySteps => call[t].op = "copy"

\* What a task has seen of the volume and goes on with.
FoundAt(t) ==
    /\ pc[t] \in {"copy_open", "copy_chunk"} => IsFile(Path(t))
    /\ pc[t] \in {"copy_chunk", "copy_cleanup"} => IsFile(Target(t))
    /\ pc[t] = "remove_next" => work[t].dirs # <<>>

Steps == \A t \in Tasks : PlacedAt(t) /\ FoundAt(t)

Agrees == mounted = vfs

IInv == TypeOK /\ Steps /\ Agrees

\* A mount of the card by another task deletes the partial uploads.
OthersMount == Apps # {} /\ \E c \in Calls : c.op = "mount"

\* No copy reads or writes one of them then: what FatFs does to the streams that
\* are open on a deleted file the model does not say.
CopiesNoPartial ==
    OthersMount => \A c \in Calls : c.op = "copy" => {c.path, c.to} \cap Partials = {}

-----------------------------------------------------------------------------
(***************************************************************************)
(* Paths.                                                                  *)
(***************************************************************************)
LEMMA StartIs ==
    ASSUME NEW S, NEW s \in Seq(S), NEW n \in 0 .. Len(s)
    PROVE  /\ SubSeq(s, 1, n) \in Seq(S)
           /\ Len(SubSeq(s, 1, n)) = n
           /\ \A i \in 1 .. n : SubSeq(s, 1, n)[i] = s[i]
<1>1. Len(s) \in Nat
  BY LenProperties
<1>2. \A i \in 1 .. n : s[i] \in S
  BY <1>1, ElementOfSeq
<1>3. QED
  BY <1>1, <1>2, SubSeqProperties

LEMMA FrontIs ==
    ASSUME NEW S, NEW s \in Seq(S), s # <<>>
    PROVE  /\ Front(s) \in Seq(S)
           /\ Len(Front(s)) = Len(s) - 1
           /\ \A i \in 1 .. Len(s) - 1 : Front(s)[i] = s[i]
<1>1. Len(s) \in Nat \ {0}
  BY EmptySeq
<1>2. Len(s) - 1 \in 0 .. Len(s)
  BY <1>1
<1>3. QED
  BY <1>2, StartIs DEF Front

LEMMA PrefixIs ==
    ASSUME NEW S, NEW s \in Seq(S), NEW u \in Seq(S)
    PROVE  IsPrefix(s, u) <=> Len(s) <= Len(u) /\ \A i \in 1 .. Len(s) : s[i] = u[i]
<1>1. Len(s) \in Nat /\ Len(u) \in Nat
  BY LenProperties
<1>2. SUFFICES ASSUME Len(s) <= Len(u)
               PROVE  SubSeq(s, 1, Len(s)) = SubSeq(u, 1, Len(s))
                        <=> \A i \in 1 .. Len(s) : s[i] = u[i]
  BY <1>1 DEF IsPrefix
<1>3. SubSeq(s, 1, Len(s)) = s
  BY SubSeqFull
<1>4. /\ SubSeq(u, 1, Len(s)) \in Seq(S) /\ Len(SubSeq(u, 1, Len(s))) = Len(s)
      /\ \A i \in 1 .. Len(s) : SubSeq(u, 1, Len(s))[i] = u[i]
  BY <1>1, <1>2, StartIs
<1>5. QED
  BY <1>3, <1>4, SeqEqual

\* What is below the directory that a path is in, and what is below the path.
LEMMA PrefixOfFront ==
    ASSUME NEW S, NEW s \in Seq(S), NEW u \in Seq(S), u # <<>>
    PROVE  IsPrefix(s, Front(u)) <=> IsPrefix(s, u) /\ s # u
<1>1. Len(s) \in Nat /\ Len(u) \in Nat \ {0}
  BY LenProperties, EmptySeq
<1>2. /\ Front(u) \in Seq(S) /\ Len(Front(u)) = Len(u) - 1
      /\ \A i \in 1 .. Len(u) - 1 : Front(u)[i] = u[i]
  BY FrontIs
<1>3. IsPrefix(s, Front(u)) <=> Len(s) <= Len(u) - 1 /\ \A i \in 1 .. Len(s) : s[i] = Front(u)[i]
  BY <1>2, PrefixIs
<1>4. IsPrefix(s, u) <=> Len(s) <= Len(u) /\ \A i \in 1 .. Len(s) : s[i] = u[i]
  BY PrefixIs
<1>5. CASE Len(s) <= Len(u) - 1
  <2>1. \A i \in 1 .. Len(s) : Front(u)[i] = u[i]
    BY <1>1, <1>2, <1>5
  <2>2. s # u
    BY <1>1, <1>5
  <2>3. QED
    BY <1>1, <1>3, <1>4, <1>5, <2>1, <2>2
<1>6. CASE Len(s) > Len(u) - 1
  <2>1. IsPrefix(s, u) => s = u
    BY <1>1, <1>4, <1>6, SeqEqual
  <2>2. QED
    BY <1>1, <1>3, <1>6, <2>1
<1>7. QED
  BY <1>1, <1>5, <1>6

LEMMA PlaceTyped ==
    ASSUME NEW p \in Places
    PROVE  /\ p \in Seq(Components) /\ p # <<>> /\ Len(p) \in Nat \ {0}
           /\ Front(p) \in Seq(Components)
           /\ Len(p) > 1 => Front(p) \in Places /\ Front(p) # <<>> /\ Front(p) # p
           /\ Len(p) = 1 => Front(p) = <<>>
<1>1. p \in Seq(Components) /\ p # <<>>
  BY PlaceAssumption
<1>2. Len(p) \in Nat \ {0} /\ Front(p) \in Seq(Components) /\ Len(Front(p)) = Len(p) - 1
  BY <1>1, EmptySeq, FrontIs
<1>3. Len(p) > 1 => Front(p) \in Places
  BY PlaceAssumption
<1>4. Len(p) > 1 => Front(p) # <<>>
  BY <1>2, EmptySeq
<1>5. Front(p) # p
  BY <1>2
<1>6. Len(Front(p)) = 0 => Front(p) = <<>>
  BY <1>2, EmptySeq
<1>7. QED
  BY <1>1, <1>2, <1>3, <1>4, <1>5, <1>6

-----------------------------------------------------------------------------
(***************************************************************************)
(* Volumes.                                                                *)
(***************************************************************************)
GoodVolume(v) == v \in [Places -> Contents] /\ (kind # "spiffs" => IsTree(v))

LEMMA ContentsDiffer ==
    /\ Absent \in Contents /\ Directory \in Contents /\ Absent # Directory
    /\ \A c \in Contents : c \in Seq(Chunks) <=> c # Absent /\ c # Directory
BY VolumeAssumption DEF Contents

LEMMA VolumeIsGood == TypeOK => GoodVolume(volume)
BY DEF TypeOK, GoodVolume

LEMMA EmptyIsGood == GoodVolume(Empty)
BY ContentsDiffer, PlaceTyped DEF GoodVolume, Empty, IsTree

LEMMA HoldsTyped ==
    ASSUME TypeOK, NEW p
    PROVE  /\ Holds(p) \in Contents
           /\ IsFile(p) => p \in Places /\ volume[p] \in Seq(Chunks)
           /\ p \in Places => Holds(p) = volume[p]
           /\ Holds(p) # Absent => p = <<>> \/ p \in Places
BY ContentsDiffer, PlaceTyped DEF TypeOK, Holds, IsFile, Exists

\* A path with a parent is not in a file, and its parent is there.
LEMMA ParentIs ==
    ASSUME TypeOK, NEW p, HasParent(p)
    PROVE  p \in Places /\ (kind # "spiffs" /\ Len(p) > 1 => volume[Front(p)] = Directory)
BY PlaceTyped DEF HasParent, Holds

\* Nothing is in what is no directory.
LEMMA WithIsGood ==
    ASSUME TypeOK, NEW p \in Places, NEW content \in Contents, Holds(p) # Directory,
           HasParent(p) \/ content = Absent \/ IsFile(p)
    PROVE  GoodVolume(With(p, content))
<1>1. With(p, content) \in [Places -> Contents]
  BY DEF With, TypeOK
<1>2. ASSUME kind # "spiffs", NEW q \in Places, Len(q) > 1, With(p, content)[q] # Absent
      PROVE  With(p, content)[Front(q)] = Directory
  <2>1. Front(q) \in Places /\ Front(q) # q
    BY <1>2, PlaceTyped
  <2>2. volume[q] # Absent => volume[Front(q)] = Directory
    BY <1>2 DEF TypeOK, IsTree
  <2>3. volume[Front(q)] = Directory
    <3>1. CASE q # p
      BY <1>2, <2>2, <3>1 DEF With, TypeOK
    <3>2. CASE q = p /\ HasParent(p)
      BY <1>2, <3>2, ParentIs
    <3>3. CASE q = p /\ IsFile(p)
      BY <2>2, <3>3, HoldsTyped DEF IsFile, Exists
    <3>4. QED
      BY <1>2, <3>1, <3>2, <3>3 DEF With, TypeOK
  <2>4. Front(q) # p
    BY <2>1, <2>3, HoldsTyped
  <2>5. QED
    BY <2>1, <2>3, <2>4 DEF With, TypeOK
<1>3. QED
  BY <1>1, <1>2 DEF GoodVolume, IsTree

\* Files, and directories that nothing is in, may go.
LEMMA WithoutIsGood ==
    ASSUME TypeOK, NEW gone \in SUBSET Places,
           \A p \in gone : IsFile(p) \/ ~Exists(p) \/ IsEmptyDirectory(p)
    PROVE  GoodVolume(Without(gone))
<1>1. Without(gone) \in [Places -> Contents]
  BY ContentsDiffer DEF Without, TypeOK
<1>2. ASSUME kind # "spiffs", NEW q \in Places, Len(q) > 1, Without(gone)[q] # Absent
      PROVE  Without(gone)[Front(q)] = Directory
  <2>1. Front(q) \in Places /\ Front(q) # q /\ q # <<>> /\ q \in Seq(Components)
        /\ Front(q) \in Seq(Components)
    BY <1>2, PlaceTyped
  <2>2. volume[q] # Absent
    BY <1>2 DEF Without
  <2>3. volume[Front(q)] = Directory
    BY <1>2, <2>2 DEF TypeOK, IsTree
  <2>4. q \in Entries(Front(q))
    <3>1. IsPrefix(Front(q), q)
      BY <2>1, PrefixOfFront, PrefixIs, LenProperties
    <3>2. Len(q) = Len(Front(q)) + 1
      BY <2>1, FrontIs, LenProperties
    <3>3. QED
      BY <2>2, <3>1, <3>2, HoldsTyped DEF Entries, Exists
  <2>5. Front(q) \notin gone
    BY <2>1, <2>3, <2>4, HoldsTyped, ContentsDiffer DEF IsFile, Exists, IsEmptyDirectory
  <2>6. QED
    BY <2>1, <2>3, <2>5 DEF Without
<1>3. QED
  BY <1>1, <1>2 DEF GoodVolume, IsTree
\* What is below new, under the name it has below p.
Under(q, new, p) == p \o SubSeq(q, Len(new) + 1, Len(q))

LEMMA UnderIs ==
    ASSUME NEW S, NEW p \in Seq(S), NEW new \in Seq(S), NEW q \in Seq(S), IsPrefix(new, q)
    PROVE  /\ Under(q, new, p) \in Seq(S)
           /\ Len(Under(q, new, p)) = Len(p) + (Len(q) - Len(new))
           /\ Len(q) \in Nat /\ Len(q) >= Len(new)
           /\ \A i \in 1 .. Len(Under(q, new, p)) :
                 Under(q, new, p)[i] = IF i <= Len(p) THEN p[i] ELSE q[Len(new) + (i - Len(p))]
<1>1. Len(q) \in Nat /\ Len(q) >= Len(new) /\ Len(new) \in Nat /\ Len(p) \in Nat
  BY PrefixIs, LenProperties
<1>2. \A i \in Len(new) + 1 .. Len(q) : q[i] \in S
  BY <1>1, ElementOfSeq
<1> DEFINE rest == SubSeq(q, Len(new) + 1, Len(q))
<1>3. /\ rest \in Seq(S) /\ Len(rest) = Len(q) - Len(new)
      /\ \A i \in 1 .. Len(q) - Len(new) : rest[i] = q[Len(new) + i]
  <2>1. PICK m \in Int : m = Len(new) + 1
    BY <1>1
  <2>2. \A i \in m .. Len(q) : q[i] \in S
    BY <1>2, <2>1
  <2>3. /\ SubSeq(q, m, Len(q)) \in Seq(S)
        /\ Len(SubSeq(q, m, Len(q))) = IF m <= Len(q) THEN Len(q) - m + 1 ELSE 0
        /\ \A i \in 1 .. Len(q) - m + 1 : SubSeq(q, m, Len(q))[i] = q[m + i - 1]
    BY <1>1, <2>2, SubSeqProperties
  <2>4. QED
    BY <1>1, <2>1, <2>3
<1> HIDE DEF rest
<1>4. /\ p \o rest \in Seq(S) /\ Len(p \o rest) = Len(p) + Len(rest)
      /\ \A i \in 1 .. Len(p) + Len(rest) :
            (p \o rest)[i] = IF i <= Len(p) THEN p[i] ELSE rest[i - Len(p)]
  BY <1>1, <1>3, ConcatProperties
<1>5. ASSUME NEW i \in 1 .. Len(p) + Len(rest), ~(i <= Len(p))
      PROVE  rest[i - Len(p)] = q[Len(new) + (i - Len(p))]
  <2>1. i - Len(p) \in 1 .. Len(q) - Len(new)
    BY <1>1, <1>3, <1>5
  <2>2. QED
    BY <1>3, <2>1
<1>6. QED
  BY <1>1, <1>3, <1>4, <1>5 DEF rest, Under

\* There and back.
LEMMA UnderBack ==
    ASSUME NEW S, NEW p \in Seq(S), NEW new \in Seq(S), NEW q \in Seq(S), IsPrefix(new, q)
    PROVE  IsPrefix(p, Under(q, new, p)) /\ Under(Under(q, new, p), p, new) = q
<1> DEFINE there == Under(q, new, p)
           back == Under(there, p, new)
<1>1. /\ there \in Seq(S) /\ Len(there) = Len(p) + (Len(q) - Len(new))
      /\ Len(q) \in Nat /\ Len(q) >= Len(new) /\ Len(p) \in Nat /\ Len(new) \in Nat
      /\ \A i \in 1 .. Len(there) :
            there[i] = IF i <= Len(p) THEN p[i] ELSE q[Len(new) + (i - Len(p))]
  BY UnderIs, LenProperties
<1> HIDE DEF there
<1>2. IsPrefix(p, there)
  <2>1. Len(p) <= Len(there) /\ \A i \in 1 .. Len(p) : i \in 1 .. Len(there) /\ i <= Len(p)
    BY <1>1
  <2>2. \A i \in 1 .. Len(p) : there[i] = p[i]
    BY <1>1, <2>1
  <2>3. QED
    BY <1>1, <2>1, <2>2, PrefixIs
<1>3. /\ back \in Seq(S) /\ Len(back) = Len(new) + (Len(there) - Len(p))
      /\ \A i \in 1 .. Len(back) :
            back[i] = IF i <= Len(new) THEN new[i] ELSE there[Len(p) + (i - Len(new))]
  <2>1. there \in Seq(S) /\ IsPrefix(p, there)
    BY <1>1, <1>2
  <2>2. QED
    BY <2>1, UnderIs
<1> HIDE DEF back
<1>4. Len(back) = Len(q)
  BY <1>1, <1>3
<1>5. ASSUME NEW i \in 1 .. Len(q) PROVE back[i] = q[i]
  <2>1. CASE i <= Len(new)
    <3>1. new[i] = q[i]
      BY <1>1, <2>1, PrefixIs
    <3>2. QED
      BY <1>3, <1>4, <2>1, <3>1
  <2>2. CASE ~(i <= Len(new))
    <3>1. PICK j \in Int : j = Len(p) + (i - Len(new))
      <4>1. \A l, m, n \in Nat : l + (m - n) \in Int
        OBVIOUS
      <4>2. i \in Nat
        BY <1>1
      <4>3. QED
        BY <1>1, <4>1, <4>2, Zenon
    <3>2. j \in 1 .. Len(there) /\ ~(j <= Len(p)) /\ Len(new) + (j - Len(p)) = i
      BY <1>1, <2>2, <3>1
    <3>3. back[i] = there[j] /\ there[j] = q[i]
      BY <1>1, <1>3, <1>4, <2>2, <3>1, <3>2
    <3>4. QED
      BY <3>3
  <2>3. QED
    BY <2>1, <2>2
<1>6. QED
  BY <1>2, <1>3, <1>4, <1>5, SeqEqual DEF back, there

\* A tree that is renamed is where its new name is, and nothing is where it was.
LEMMA MovedIsGood ==
    ASSUME TypeOK, NEW p \in Places, NEW new \in Places,
           HasParent(new), IsPrefix(p, new) => p = new
    PROVE  GoodVolume(Moved(p, new))
<1> DEFINE there(q) == Under(q, new, p)
<1>1. /\ p \in Seq(Components) /\ Len(p) \in Nat \ {0}
      /\ new \in Seq(Components) /\ Len(new) \in Nat \ {0}
  BY PlaceTyped
<1>2. ASSUME NEW q \in Seq(Components), IsPrefix(new, q)
      PROVE  /\ there(q) \in Seq(Components) /\ Len(there(q)) = Len(p) + (Len(q) - Len(new))
             /\ Len(q) \in Nat /\ Len(q) >= Len(new)
             /\ \A i \in 1 .. Len(there(q)) :
                   there(q)[i] = IF i <= Len(p) THEN p[i] ELSE q[Len(new) + (i - Len(p))]
  BY <1>1, <1>2, UnderIs
<1> HIDE DEF there
<1>3. ASSUME NEW q \in Seq(Components), IsPrefix(new, q), p = new
      PROVE  there(q) = q
  <2>1. \A i \in 1 .. Len(new) : new[i] = q[i]
    BY <1>1, <1>3, PrefixIs
  <2>2. Len(there(q)) = Len(q) /\ Len(q) \in Nat
    BY <1>1, <1>2, <1>3
  <2>3. \A i \in 1 .. Len(q) : there(q)[i] = q[i]
    BY <1>1, <1>2, <1>3, <2>1, <2>2
  <2>4. QED
    BY <1>2, <1>3, <2>2, <2>3, SeqEqual
<1>4. ASSUME NEW q \in Seq(Components), q # <<>>, IsPrefix(new, Front(q))
      PROVE  there(Front(q)) = Front(there(q)) /\ there(q) # <<>> /\ Len(there(q)) > 1
  <2>1. IsPrefix(new, q) /\ new # q
    BY <1>1, <1>4, PrefixOfFront
  <2>2. /\ Front(q) \in Seq(Components) /\ Len(Front(q)) = Len(q) - 1 /\ Len(q) \in Nat \ {0}
        /\ \A i \in 1 .. Len(q) - 1 : Front(q)[i] = q[i]
    BY <1>4, FrontIs, EmptySeq
  <2>3. /\ there(q) \in Seq(Components) /\ Len(there(q)) = Len(p) + (Len(q) - Len(new))
        /\ there(Front(q)) \in Seq(Components)
        /\ Len(there(Front(q))) = Len(p) + ((Len(q) - 1) - Len(new))
        /\ Len(q) - 1 >= Len(new)
    BY <1>2, <1>4, <2>1, <2>2
  <2>4. there(q) # <<>> /\ Len(there(q)) > 1
    BY <1>1, <2>2, <2>3, EmptySeq
  <2>5. /\ Front(there(q)) \in Seq(Components) /\ Len(Front(there(q))) = Len(there(q)) - 1
        /\ \A i \in 1 .. Len(there(q)) - 1 : Front(there(q))[i] = there(q)[i]
    BY <2>3, <2>4, FrontIs
  <2>6. Len(there(Front(q))) = Len(Front(there(q)))
    BY <1>1, <2>2, <2>3, <2>5
  <2>7. ASSUME NEW i \in 1 .. Len(there(Front(q)))
        PROVE  there(Front(q))[i] = Front(there(q))[i]
    <3>1. i \in 1 .. Len(there(q)) - 1 /\ i \in 1 .. Len(there(q))
      BY <1>1, <2>2, <2>3
    <3>2. there(q)[i] = IF i <= Len(p) THEN p[i] ELSE q[Len(new) + (i - Len(p))]
      BY <1>2, <2>1, <3>1
    <3>3. there(Front(q))[i] = IF i <= Len(p) THEN p[i] ELSE Front(q)[Len(new) + (i - Len(p))]
      BY <1>2, <1>4, <2>2
    <3>4. ~(i <= Len(p)) => Len(new) + (i - Len(p)) \in 1 .. Len(q) - 1
      BY <1>1, <2>2, <2>3, <3>1
    <3>5. QED
      BY <2>2, <2>5, <3>1, <3>2, <3>3, <3>4
  <2>8. QED
    BY <2>3, <2>4, <2>5, <2>6, <2>7, SeqEqual
<1> SUFFICES ASSUME kind # "spiffs" PROVE GoodVolume(Moved(p, new))
  BY ContentsDiffer DEF GoodVolume, Moved, TypeOK
<1>5. \A q \in Places : Moved(p, new)[q] =
           IF IsPrefix(new, q) THEN Holds(there(q))
           ELSE IF IsPrefix(p, q) THEN Absent ELSE volume[q]
  BY DEF Moved, there, Under
<1>6. Moved(p, new) \in [Places -> Contents]
  BY <1>5, HoldsTyped, ContentsDiffer DEF Moved, TypeOK
<1>7. CASE p = new
  <2>1. ASSUME NEW q \in Places
        PROVE  Moved(p, new)[q] = volume[q]
    <3>1. q \in Seq(Components)
      BY PlaceTyped
    <3>2. QED
      BY <1>3, <1>5, <1>7, <3>1, HoldsTyped
  <2>2. Moved(p, new) = volume
    BY <1>6, <2>1 DEF TypeOK
  <2>3. QED
    BY <2>2, VolumeIsGood
<1>8. CASE p # new
  <2> SUFFICES ASSUME NEW q \in Places, Len(q) > 1, Moved(p, new)[q] # Absent
               PROVE  Moved(p, new)[Front(q)] = Directory
    BY <1>6 DEF GoodVolume, IsTree
  <2>1. /\ q \in Seq(Components) /\ q # <<>>
        /\ Front(q) \in Seq(Components) /\ Front(q) \in Places
    BY PlaceTyped
  <2>2. /\ IsPrefix(p, Front(q)) <=> IsPrefix(p, q) /\ p # q
        /\ IsPrefix(new, Front(q)) <=> IsPrefix(new, q) /\ new # q
    BY <1>1, <2>1, PrefixOfFront
  <2>3. CASE q = new
    BY <1>5, <1>8, <2>1, <2>2, <2>3, ParentIs
  <2>4. CASE IsPrefix(new, q) /\ q # new
    <3>1. there(Front(q)) = Front(there(q)) /\ there(q) # <<>> /\ Len(there(q)) > 1
      BY <1>4, <2>1, <2>2, <2>4
    <3>2. Holds(there(q)) # Absent
      BY <1>5, <2>4
    <3>3. there(q) \in Places /\ volume[there(q)] # Absent
      BY <3>1, <3>2, HoldsTyped
    <3>4. volume[Front(there(q))] = Directory /\ Front(there(q)) \in Places
      BY <3>1, <3>3, PlaceTyped DEF TypeOK, IsTree
    <3>5. QED
      BY <1>5, <2>1, <2>2, <2>4, <3>1, <3>4, HoldsTyped
  <2>5. CASE ~IsPrefix(new, q)
    <3>1. ~IsPrefix(p, q) /\ volume[q] # Absent
      BY <1>5, <2>5
    <3>2. volume[Front(q)] = Directory
      BY <3>1 DEF TypeOK, IsTree
    <3>3. QED
      BY <1>5, <2>1, <2>2, <2>5, <3>1, <3>2
  <2>6. QED
    BY <2>3, <2>4, <2>5
<1>9. QED
  BY <1>7, <1>8
-----------------------------------------------------------------------------
(***************************************************************************)
(* Steps.                                                                  *)
(***************************************************************************)
LEMMA FaultsTyped ==
    TypeOK => /\ \A f : Fault(f) => faults' \in 0 .. MaxFaults
              /\ Sound => faults' \in 0 .. MaxFaults
BY BoundAssumption DEF TypeOK, Fault, Sound

\* Where a step of a call leaves the task and the volume.
Reaches(t, label, v, w) ==
    /\ label \in Labels \ {"idle", "enter"} /\ GoodVolume(v) /\ w \in Works
    /\ Goto(t, label, v, w)
    /\ lock' \in Tasks \cup {Nobody} /\ (Flash => lock' = lock)
    /\ vfs' \in BOOLEAN /\ mounted' = vfs' /\ lost' \in BOOLEAN /\ faults' \in 0 .. MaxFaults
    /\ label \in CopySteps => call[t].op = "copy"
    /\ label = "remove_next" => w.dirs # <<>>

Serves(t) == pc[t] \notin {"idle", "enter", "leave"}

LEMMA ServesWith ==
    ASSUME IInv, NEW t \in Tasks, Serves(t)
    PROVE  /\ call[t] \in Calls /\ ~Unsupported(call[t].op)
           /\ Flash => lock = t
           /\ ~Flash /\ t # Rx => pc[t] \in {"mount", "clean_up"}
BY DEF IInv, Steps, PlacedAt, Serves

LEMMA ReachesTyped ==
    ASSUME IInv, NEW t \in Tasks, NEW label, NEW v, NEW w, Reaches(t, label, v, w)
    PROVE  TypeOK' /\ Agrees'
BY DEF IInv, Reaches, Goto, TypeOK, GoodVolume, Agrees, IsTree

LEMMA ReachesPlaced ==
    ASSUME IInv, NEW t \in Tasks, NEW label, NEW v, NEW w, Reaches(t, label, v, w), Serves(t),
           ~Flash /\ t # Rx => label \in {"clean_up", "leave"}
    PROVE  PlacedAt(t)'
<1>1. pc'[t] = label /\ call' = call /\ kind' = kind
  BY DEF Reaches, Goto, IInv, TypeOK
<1>2. PlacedAt(t) /\ ~Unsupported(call[t].op)
  BY ServesWith DEF IInv, Steps
<1>3. QED
  BY <1>1, <1>2, ServesWith
     DEF PlacedAt, Reaches, Serves, MayCall, Unsupported, Flash

\* The other tasks stay where they are.
Kept(u) ==
    /\ pc'[u] = pc[u] /\ call'[u] = call[u] /\ work'[u] = work[u]
    /\ result'[u] = result[u] /\ seen'[u] = seen[u]

LEMMA OthersStay ==
    ASSUME TypeOK, NEW t \in Tasks, Begin(t) \/ Step(t), NEW u \in Tasks, u # t
    PROVE  Kept(u) /\ kind' = kind /\ formats' = formats
<1> USE DEF TypeOK, Kept
<1>1. ASSUME NEW label, NEW v, NEW w, Goto(t, label, v, w)
      PROVE  Kept(u) /\ kind' = kind /\ formats' = formats
  BY <1>1 DEF Goto
<1>2. CASE Begin(t)
  BY <1>2 DEF Begin
<1>3. CASE Enter(t)
  BY <1>3 DEF Enter
<1>4. CASE Leave(t)
  BY <1>4 DEF Leave, Returns
<1>5. CASE CopyOpenSource(t) \/ CopyOpenDestination(t) \/ CopyChunk(t)
  BY <1>1, <1>5 DEF CopyOpenSource, CopyOpenDestination, CopyChunk, Ends
<1>6. CASE CopyReadFails(t) \/ CopyEnd(t) \/ CopyCleanup(t)
  BY <1>1, <1>6 DEF CopyReadFails, CopyEnd, CopyCleanup, Ends
<1>7. CASE RenameClears(t) \/ RenameMoves(t) \/ DeleteFile(t)
  BY <1>1, <1>7 DEF RenameClears, RenameMoves, DeleteFile, Decides, Ends
<1>8. CASE CreateDirectory(t) \/ HashFile(t)
  BY <1>1, <1>8 DEF CreateDirectory, HashFile, Decides, Ends
<1>9. CASE RecursiveOpens(t) \/ RemoveEntry(t) \/ DirectoryDone(t)
  BY <1>1, <1>9 DEF RecursiveOpens, RemoveEntry, DirectoryDone, Ends
<1>10. CASE MountFlash(t) \/ MountCard(t) \/ CleanUp(t) \/ Unmount(t)
  BY <1>1, <1>10 DEF MountFlash, MountCard, CleanUp, Unmount, Registers, Ends
<1>11. CASE FormatUnregisters(t) \/ FormatErases(t) \/ FormatRemounts(t)
  BY <1>1, <1>11 DEF FormatUnregisters, FormatErases, FormatRemounts, Registers, Ends
<1>12. CASE FormatCard(t) \/ FormatUnmounts(t)
  BY <1>1, <1>12 DEF FormatCard, FormatUnmounts, Ends
<1>13. QED
  BY <1>2, <1>3, <1>4, <1>5, <1>6, <1>7, <1>8, <1>9, <1>10, <1>11, <1>12 DEF Step

\* Each method's step, where it leaves the task.
Served(t) ==
    /\ \E label, v, w :
          /\ Reaches(t, label, v, w)
          /\ ~Flash /\ t # Rx => label \in {"clean_up", "leave"}
    /\ FoundAt(t)'

LEMMA EndServed ==
    ASSUME IInv, NEW t \in Tasks, NEW ok \in BOOLEAN, NEW v, GoodVolume(v), Ends(t, ok, v),
           UNCHANGED <<vfs, mounted, lock>>, lost' \in BOOLEAN, faults' \in 0 .. MaxFaults
    PROVE  Served(t)
<1>1. [work[t] EXCEPT !.ok = ok] \in Works
  BY DEF IInv, TypeOK, Works
<1>2. Reaches(t, "leave", v, [work[t] EXCEPT !.ok = ok])
  BY <1>1 DEF Reaches, Ends, IInv, TypeOK, Labels, Agrees, CopySteps
<1>3. pc'[t] = "leave"
  BY DEF Ends, Goto, IInv, TypeOK
<1>4. QED
  BY <1>2, <1>3 DEF Served, FoundAt

LEMMA DecideServed ==
    ASSUME IInv, NEW t \in Tasks, NEW can, NEW f, NEW v, can => GoodVolume(v), Decides(t, can, f, v)
    PROVE  Served(t)
<1>1. GoodVolume(volume) /\ UNCHANGED <<vfs, mounted, lock>> /\ lost' \in BOOLEAN
      /\ faults' \in 0 .. MaxFaults
  BY VolumeIsGood, FaultsTyped DEF IInv, Decides, Same, TypeOK
<1>2. QED
  BY <1>1, EndServed DEF Decides
\* A step that goes on, at another label of the same method.
LEMMA GoesServed ==
    ASSUME IInv, NEW t \in Tasks, NEW label \in Labels \ {"idle", "enter"},
           NEW v, GoodVolume(v), NEW w \in Works, Goto(t, label, v, w),
           UNCHANGED <<vfs, mounted, lock>>, lost' \in BOOLEAN, faults' \in 0 .. MaxFaults,
           label \in CopySteps => call[t].op = "copy",
           label = "remove_next" => w.dirs # <<>>,
           ~Flash /\ t # Rx => label \in {"clean_up", "leave"}, FoundAt(t)'
    PROVE  Served(t)
BY DEF Reaches, Served, IInv, TypeOK, Agrees

LEMMA CopyStep ==
    ASSUME IInv, NEW t \in Tasks, pc[t] \in CopySteps
    PROVE  /\ Serves(t) /\ call[t].op = "copy" /\ (Flash \/ t = Rx)
           /\ work[t] \in Works /\ FoundAt(t) /\ vfs \in BOOLEAN /\ mounted \in BOOLEAN
           /\ lock \in Tasks \cup {Nobody} /\ lost \in BOOLEAN
<1>1. Serves(t)
  BY DEF Serves, CopySteps
<1>2. call[t].op = "copy"
  BY DEF IInv, Steps, PlacedAt
<1>3. QED
  BY <1>1, <1>2, ServesWith DEF CopySteps, IInv, TypeOK, Steps

LEMMA CopyServed ==
    ASSUME IInv, NEW t \in Tasks,
           \/ CopyOpenSource(t) \/ CopyOpenDestination(t) \/ CopyChunk(t)
           \/ CopyReadFails(t) \/ CopyEnd(t) \/ CopyCleanup(t)
    PROVE  Served(t)
<1>1. /\ pc[t] \in CopySteps /\ GoodVolume(volume) /\ TypeOK
      /\ Path(t)' = Path(t) /\ Target(t)' = Target(t)
  BY VolumeIsGood
     DEF IInv, CopyOpenSource, CopyOpenDestination, CopyChunk, CopyReadFails, CopyEnd, CopyCleanup,
         At, CopySteps, Ends, Goto, Path, Target, Resolve, Flash
<1>2. /\ call[t].op = "copy" /\ (Flash \/ t = Rx) /\ work[t] \in Works /\ FoundAt(t)
      /\ lost \in BOOLEAN
  BY <1>1, CopyStep
<1>3. CASE CopyOpenSource(t)
  <2>1. CASE IsFile(Path(t)) /\ Sound /\ Goto(t, "copy_open", volume, work[t])
    <3>1. pc'[t] = "copy_open" /\ IsFile(Path(t))'
      BY <1>1, <2>1 DEF Goto, IsFile, Exists, Holds, TypeOK
    <3>2. FoundAt(t)'
      BY <3>1 DEF FoundAt
    <3>3. QED
      BY <1>1, <1>2, <1>3, <2>1, <3>2, FaultsTyped, GoesServed
         DEF CopyOpenSource, Same, Labels, CopySteps
  <2>2. QED
    BY <1>1, <1>2, <1>3, <2>1, FaultsTyped, EndServed DEF CopyOpenSource, Same
<1>4. CASE CopyOpenDestination(t)
  <2>1. CASE /\ Target(t) # <<>> /\ HasParent(Target(t)) /\ Holds(Target(t)) # Directory
             /\ Sound /\ Goto(t, "copy_chunk", With(Target(t), <<>>), work[t])
    <3>1. Target(t) \in Places /\ <<>> \in Contents /\ <<>> \in Seq(Chunks)
      BY <2>1 DEF HasParent, Contents
    <3>2. GoodVolume(With(Target(t), <<>>))
      BY <1>1, <2>1, <3>1, WithIsGood
    <3>3. IsFile(Path(t)) /\ Path(t) \in Places /\ volume[Path(t)] \in Seq(Chunks)
      BY <1>1, <1>2, <1>4, HoldsTyped DEF CopyOpenDestination, At, FoundAt
    <3>4. /\ volume'[Target(t)] \in Seq(Chunks) /\ volume'[Path(t)] \in Seq(Chunks)
          /\ pc'[t] = "copy_chunk"
      BY <1>1, <2>1, <3>1, <3>3 DEF Goto, With, TypeOK
    <3>5. IsFile(Path(t))' /\ IsFile(Target(t))'
      BY <1>1, <3>1, <3>3, <3>4, ContentsDiffer, PlaceTyped DEF IsFile, Exists, Holds
    <3>6. FoundAt(t)'
      BY <3>4, <3>5 DEF FoundAt
    <3>7. QED
      BY <1>1, <1>2, <1>4, <2>1, <3>2, <3>6, FaultsTyped, GoesServed
         DEF CopyOpenDestination, Same, Labels, CopySteps
  <2>2. QED
    BY <1>1, <1>2, <1>4, <2>1, FaultsTyped, EndServed DEF CopyOpenDestination, Same
<1>5. CASE CopyChunk(t)
  <2> DEFINE from == volume[Path(t)]
             done == volume[Target(t)]
             more == Append(done, from[Len(done) + 1])
  <2>1. /\ IsFile(Path(t)) /\ Path(t) \in Places /\ from \in Seq(Chunks)
        /\ IsFile(Target(t)) /\ Target(t) \in Places /\ done \in Seq(Chunks)
    BY <1>1, <1>2, <1>5, HoldsTyped DEF CopyChunk, At, FoundAt
  <2>2. more \in Seq(Chunks) /\ more \in Contents
    <3>1. Len(from) - Len(done) > 0
      BY <1>5 DEF CopyChunk, Remaining
    <3>2. Len(done) + 1 \in 1 .. Len(from)
      <4>1. Len(from) \in Nat /\ Len(done) \in Nat
        BY <2>1, LenProperties
      <4>2. \A i, j \in Nat : i - j > 0 => j + 1 \in 1 .. i
        OBVIOUS
      <4>3. QED
        BY <3>1, <4>1, <4>2
    <3>3. from[Len(done) + 1] \in Chunks
      BY <2>1, <3>2, ElementOfSeq
    <3>4. QED
      BY <2>1, <3>3, AppendProperties DEF Contents
  <2>3. CASE Sound /\ Goto(t, "copy_chunk", With(Target(t), more), work[t])
    <3>1. GoodVolume(With(Target(t), more))
      BY <1>1, <2>1, <2>2, WithIsGood DEF IsFile
    <3>2. /\ volume'[Target(t)] \in Seq(Chunks) /\ volume'[Path(t)] \in Seq(Chunks)
          /\ pc'[t] = "copy_chunk"
      BY <1>1, <2>1, <2>2, <2>3 DEF Goto, With, TypeOK
    <3>3. IsFile(Path(t))' /\ IsFile(Target(t))'
      BY <1>1, <2>1, <3>2, ContentsDiffer, PlaceTyped DEF IsFile, Exists, Holds
    <3>4. FoundAt(t)'
      BY <3>2, <3>3 DEF FoundAt
    <3>5. QED
      BY <1>1, <1>2, <1>5, <2>3, <3>1, <3>4, FaultsTyped, GoesServed
         DEF CopyChunk, Same, Labels, CopySteps
  <2>4. CASE Fault("write") /\ Goto(t, "copy_cleanup", volume, work[t])
    <3>1. pc'[t] = "copy_cleanup" /\ IsFile(Target(t))'
      BY <1>1, <2>1, <2>4 DEF Goto, IsFile, Exists, Holds, TypeOK
    <3>2. FoundAt(t)'
      BY <3>1 DEF FoundAt
    <3>3. QED
      BY <1>1, <1>2, <1>5, <2>4, <3>2, FaultsTyped, GoesServed
         DEF CopyChunk, Same, Labels, CopySteps
  <2>5. QED
    BY <1>5, <2>3, <2>4 DEF CopyChunk
<1>6. CASE CopyReadFails(t)
  <2>1. CASE Flash
    <3>1. IsFile(Target(t))
      BY <1>2, <1>6 DEF CopyReadFails, At, FoundAt
    <3>2. pc'[t] = "copy_cleanup" /\ IsFile(Target(t))'
      BY <1>1, <1>6, <2>1, <3>1 DEF CopyReadFails, Goto, IsFile, Exists, Holds, TypeOK
    <3>3. FoundAt(t)'
      BY <3>2 DEF FoundAt
    <3>4. QED
      BY <1>1, <1>2, <1>6, <2>1, <3>3, FaultsTyped, GoesServed
         DEF CopyReadFails, Labels, CopySteps
  <2>2. CASE ~Flash
    BY <1>1, <1>2, <1>6, <2>2, FaultsTyped, EndServed DEF CopyReadFails
  <2>3. QED
    BY <2>1, <2>2
<1>7. CASE CopyEnd(t)
  <2>1. /\ IsFile(Target(t)) /\ Target(t) \in Places /\ volume[Target(t)] \in Seq(Chunks)
    BY <1>1, <1>2, <1>7, HoldsTyped DEF CopyEnd, At, FoundAt
  <2>2. volume[Target(t)] # <<>> => GoodVolume(With(Target(t), Front(volume[Target(t)])))
    <3>1. volume[Target(t)] # <<>> => Front(volume[Target(t)]) \in Contents
      BY <2>1, FrontIs DEF Contents
    <3>2. QED
      BY <1>1, <2>1, <3>1, WithIsGood DEF IsFile
  <2>3. QED
    BY <1>1, <1>2, <1>7, <2>2, FaultsTyped, EndServed DEF CopyEnd
<1>8. CASE CopyCleanup(t)
  <2>1. IsFile(Target(t)) /\ Target(t) \in Places
    BY <1>1, <1>2, <1>8, HoldsTyped DEF CopyCleanup, At, FoundAt
  <2>2. GoodVolume(With(Target(t), Absent))
    BY <1>1, <2>1, WithIsGood, ContentsDiffer DEF IsFile
  <2>3. QED
    BY <1>1, <1>2, <1>8, <2>2, FaultsTyped, EndServed DEF CopyCleanup
<1>9. QED
  BY <1>3, <1>4, <1>5, <1>6, <1>7, <1>8
LEMMA ServingStep ==
    ASSUME IInv, NEW t \in Tasks, Serves(t)
    PROVE  /\ work[t] \in Works /\ FoundAt(t) /\ lost \in BOOLEAN /\ TypeOK /\ GoodVolume(volume)
           /\ ~Flash /\ t # Rx => pc[t] \in {"mount", "clean_up"}
           /\ vfs \in BOOLEAN /\ mounted = vfs /\ lock \in Tasks \cup {Nobody}
BY ServesWith, VolumeIsGood DEF IInv, TypeOK, Steps, Agrees

LEMMA RenameServed ==
    ASSUME IInv, NEW t \in Tasks, RenameClears(t) \/ RenameMoves(t)
    PROVE  Served(t)
<1>1. CASE RenameClears(t)
  <2> DEFINE new == Target(t)
             v == IF Unlinkable(new) THEN Without({new}) ELSE volume
  <2>1. pc[t] = "rename" /\ Serves(t) /\ ~Flash
    BY <1>1 DEF RenameClears, At, Serves
  <2>2. GoodVolume(v)
    <3>1. CASE Unlinkable(new)
      <4>1. new \in Places
        BY <2>1, <3>1, ServingStep, HoldsTyped, ContentsDiffer
             DEF Unlinkable, IsEmptyDirectory
      <4>2. QED
        BY <2>1, <3>1, <4>1, ServingStep, WithoutIsGood DEF Unlinkable
    <3>2. QED
      BY <2>1, <3>1, ServingStep
  <2>3. \E u : GoodVolume(u) /\ Goto(t, "rename_move", u, work[t]) /\ Same
                /\ faults' \in 0 .. MaxFaults
    BY <1>1, <2>1, <2>2, ServingStep, FaultsTyped DEF RenameClears
  <2>4. FoundAt(t)'
    BY <2>1, <2>3, ServingStep DEF Goto, FoundAt, TypeOK
  <2>5. QED
    BY <2>1, <2>3, <2>4, ServingStep, GoesServed DEF Same, Labels, CopySteps
<1>2. CASE RenameMoves(t)
  <2> DEFINE p == Path(t)
             new == Target(t)
             can == /\ p # <<>> /\ Exists(p)
                    /\ HasParent(new) /\ Replaceable(p, new)
                    /\ IsPrefix(p, new) => p = new
  <2>1. Serves(t)
    BY <1>2 DEF RenameMoves, At, Serves, Flash
  <2>2. can => p \in Places /\ new \in Places
    BY <2>1, ServingStep, HoldsTyped, ParentIs DEF Exists
  <2>3. can => GoodVolume(Moved(p, new))
    BY <2>1, <2>2, ServingStep, MovedIsGood
  <2>4. QED
    BY <1>2, <2>3, DecideServed DEF RenameMoves
<1>3. QED
  BY <1>1, <1>2

LEMMA FileServed ==
    ASSUME IInv, NEW t \in Tasks, DeleteFile(t) \/ CreateDirectory(t) \/ HashFile(t)
    PROVE  Served(t)
<1>1. Serves(t)
  BY DEF DeleteFile, CreateDirectory, HashFile, At, Serves
<1>2. TypeOK /\ GoodVolume(volume) /\ lost \in BOOLEAN
  BY <1>1, ServingStep
<1>3. CASE DeleteFile(t)
  <2> DEFINE can == \/ IsFile(Path(t))
                    \/ IsEmptyDirectory(Path(t)) /\ kind \in {"littlefs", "flashfat"}
  <2>1. can => Path(t) \in Places
    BY <1>2, HoldsTyped, ContentsDiffer DEF IsEmptyDirectory
  <2>2. can => GoodVolume(Without({Path(t)}))
    BY <1>2, <2>1, WithoutIsGood
  <2>3. Decides(t, can, "unlink", Without({Path(t)}))
    BY <1>3 DEF DeleteFile
  <2>4. QED
    BY <2>2, <2>3, DecideServed
<1>4. CASE CreateDirectory(t)
  <2>1. CASE Exists(Path(t))
    <3>1. (Flash \/ ~IsFile(Path(t))) \in BOOLEAN
      BY DEF Flash, IsFile, Exists
    <3>2. Ends(t, Flash \/ ~IsFile(Path(t)), volume) /\ Sound /\ Same
      BY <1>4, <2>1 DEF CreateDirectory
    <3>3. QED
      BY <1>2, <3>1, <3>2, FaultsTyped, EndServed DEF Same
  <2>2. CASE ~Exists(Path(t))
    <3>1. HasParent(Path(t)) => GoodVolume(With(Path(t), Directory))
      BY <1>2, <2>2, ParentIs, WithIsGood, ContentsDiffer DEF Exists
    <3>2. QED
      BY <1>4, <2>2, <3>1, DecideServed DEF CreateDirectory
  <2>3. QED
    BY <2>1, <2>2
<1>5. CASE HashFile(t)
  <2>1. /\ IsFile(Path(t)) \in BOOLEAN /\ (~Flash) \in BOOLEAN /\ FALSE \in BOOLEAN
        /\ (lost \/ ~Flash) \in BOOLEAN
    BY <1>2 DEF Flash, IsFile, Exists
  <2>2. /\ \E ok \in BOOLEAN : Ends(t, ok, volume)
        /\ lost' \in BOOLEAN /\ faults' \in 0 .. MaxFaults /\ UNCHANGED <<vfs, mounted, lock>>
    BY <1>2, <1>5, <2>1, FaultsTyped DEF HashFile
  <2>3. QED
    BY <1>2, <2>2, EndServed
<1>6. QED
  BY <1>3, <1>4, <1>5
LEMMA RecursionServed ==
    ASSUME IInv, NEW t \in Tasks, RecursiveOpens(t) \/ RemoveEntry(t) \/ DirectoryDone(t)
    PROVE  Served(t)
<1>1. Serves(t) /\ pc[t] \notin {"mount", "clean_up"}
  BY DEF RecursiveOpens, RemoveEntry, DirectoryDone, At, Serves
<1>2. /\ TypeOK /\ GoodVolume(volume) /\ lost \in BOOLEAN /\ work[t] \in Works /\ FoundAt(t)
      /\ Flash \/ t = Rx
  BY <1>1, ServingStep
<1>3. ASSUME NEW label \in {"leave", "remove_next"}, NEW v, GoodVolume(v), NEW w \in Works,
             Goto(t, label, v, w), Same, faults' \in 0 .. MaxFaults,
             label = "remove_next" => w.dirs # <<>>
      PROVE  Served(t)
  <2>1. pc'[t] = label /\ work'[t] = w
    BY <1>2, <1>3 DEF Goto, TypeOK
  <2>2. FoundAt(t)'
    BY <1>3, <2>1 DEF FoundAt
  <2>3. QED
    BY <1>2, <1>3, <2>2, GoesServed DEF Same, Labels, CopySteps
<1>4. CASE RecursiveOpens(t)
  <2> DEFINE p == Path(t)
             w == [work[t] EXCEPT !.dirs = <<p>>]
  <2>1. CASE Holds(p) = Directory /\ Sound /\ Goto(t, "remove_next", volume, w)
    <3>1. p \in Places \cup {<<>>}
      BY <1>2, <2>1, HoldsTyped, ContentsDiffer
    <3>2. <<p>> \in Seq(Places \cup {<<>>}) /\ <<p>> # <<>>
      BY <3>1
    <3>3. w \in Works /\ w.dirs # <<>>
      BY <1>2, <3>2 DEF Works
    <3>4. QED
      BY <1>2, <1>3, <1>4, <2>1, <3>3, FaultsTyped DEF RecursiveOpens
  <2>2. QED
    BY <1>2, <1>4, <2>1, FaultsTyped, EndServed DEF RecursiveOpens, Same
<1>5. work[t].dirs # <<>> => /\ Head(work[t].dirs) \in Places \cup {<<>>}
                             /\ Tail(work[t].dirs) \in Seq(Places \cup {<<>>})
  BY <1>2, HeadTailProperties DEF Works
<1>6. CASE RemoveEntry(t)
  <2>1. work[t].dirs # <<>>
    BY <1>2, <1>6 DEF RemoveEntry, At, FoundAt
  <2>2. PICK q \in Left(t) :
          \/ IsFile(q) /\ Sound /\ Goto(t, "remove_next", Without({q}), Passes(t, q))
          \/ /\ Fault(IF IsFile(q) THEN "unlink" ELSE "open")
             /\ Goto(t, "remove_next", volume, [Passes(t, q) EXCEPT !.ok = FALSE])
          \/ /\ ~IsFile(q) /\ Sound
             /\ Goto(t, "remove_next", volume, [Passes(t, q) EXCEPT !.dirs = <<q>> \o @])
    BY <1>6 DEF RemoveEntry
  <2>3. q \in Places
    BY <2>2 DEF Left, Entries
  <2>4. Passes(t, q) \in Works /\ Passes(t, q).dirs = work[t].dirs
    BY <1>2, <2>3 DEF Passes, Works
  <2>5. CASE IsFile(q) /\ Sound /\ Goto(t, "remove_next", Without({q}), Passes(t, q))
    <3>1. GoodVolume(Without({q}))
      BY <1>2, <2>3, <2>5, WithoutIsGood
    <3>2. QED
      BY <1>2, <1>3, <1>6, <2>1, <2>4, <2>5, <3>1, FaultsTyped DEF RemoveEntry
  <2>6. CASE /\ Fault(IF IsFile(q) THEN "unlink" ELSE "open")
             /\ Goto(t, "remove_next", volume, [Passes(t, q) EXCEPT !.ok = FALSE])
    <3>1. /\ [Passes(t, q) EXCEPT !.ok = FALSE] \in Works
          /\ [Passes(t, q) EXCEPT !.ok = FALSE].dirs = work[t].dirs
      BY <2>4 DEF Works
    <3>2. faults' \in 0 .. MaxFaults
      BY <1>2, <2>6, FaultsTyped
    <3>3. QED
      BY <1>2, <1>3, <1>6, <2>1, <2>6, <3>1, <3>2 DEF RemoveEntry
  <2>7. CASE /\ ~IsFile(q) /\ Sound
             /\ Goto(t, "remove_next", volume, [Passes(t, q) EXCEPT !.dirs = <<q>> \o @])
    <3>1. /\ <<q>> \o work[t].dirs \in Seq(Places \cup {<<>>})
          /\ <<q>> \o work[t].dirs # <<>>
      <4>1. <<q>> \in Seq(Places \cup {<<>>}) /\ <<q>> # <<>>
            /\ work[t].dirs \in Seq(Places \cup {<<>>})
        BY <1>2, <2>3 DEF Works
      <4>2. QED
        BY <4>1, ConcatProperties, ConcatEqualIffEmpty
    <3>2. /\ [Passes(t, q) EXCEPT !.dirs = <<q>> \o @] \in Works
          /\ [Passes(t, q) EXCEPT !.dirs = <<q>> \o @].dirs # <<>>
      BY <2>4, <3>1 DEF Works
    <3>3. QED
      BY <1>2, <1>3, <1>6, <2>7, <3>2, FaultsTyped DEF RemoveEntry
  <2>8. QED
    BY <2>2, <2>5, <2>6, <2>7
<1>7. CASE DirectoryDone(t)
  <2> DEFINE p == Head(work[t].dirs)
             outer == Tail(work[t].dirs)
             label == IF outer = <<>> THEN "leave" ELSE "remove_next"
             w(ok) == [work[t] EXCEPT !.dirs = outer, !.ok = ok]
  <2>1. work[t].dirs # <<>>
    BY <1>2, <1>7 DEF DirectoryDone, At, FoundAt
  <2>2. \A ok \in BOOLEAN : w(ok) \in Works /\ w(ok).dirs = outer
    BY <1>2, <1>5, <2>1 DEF Works
  <2>3. IsEmptyDirectory(p) => GoodVolume(Without({p}))
    BY <1>2, <1>5, <2>1, WithoutIsGood DEF IsEmptyDirectory
  <2>4. /\ \E ok \in BOOLEAN : \E v : GoodVolume(v) /\ Goto(t, label, v, w(ok))
        /\ Same /\ faults' \in 0 .. MaxFaults
    <3>1. work[t].ok \in BOOLEAN
      BY <1>2 DEF Works
    <3>2. QED
      BY <1>2, <1>7, <2>3, <3>1, FaultsTyped DEF DirectoryDone
  <2>5. label \in {"leave", "remove_next"} /\ (label = "remove_next" => outer # <<>>)
    OBVIOUS
  <2> HIDE DEF label, w, outer
  <2>6. QED
    BY <1>3, <2>2, <2>4, <2>5
<1>8. QED
  BY <1>4, <1>6, <1>7

\* A step that mounts: the volume, and both flags.
LEMMA MountsServed ==
    ASSUME IInv, NEW t \in Tasks, Serves(t), NEW label \in {"leave", "clean_up", "format_erase"},
           NEW v, GoodVolume(v), NEW w \in Works, Goto(t, label, v, w),
           vfs' \in BOOLEAN, mounted' = vfs', UNCHANGED lost, faults' \in 0 .. MaxFaults,
           lock' \in Tasks \cup {Nobody}, Flash => lock' = lock,
           ~Flash /\ t # Rx => label # "format_erase"
    PROVE  Served(t)
<1>1. pc'[t] = label
  BY DEF Goto, IInv, TypeOK
<1>2. FoundAt(t)'
  BY <1>1 DEF FoundAt
<1>3. QED
  BY <1>2, ServingStep DEF Served, Reaches, Labels, CopySteps

LEMMA MountServed ==
    ASSUME IInv, NEW t \in Tasks, MountFlash(t) \/ MountCard(t) \/ CleanUp(t) \/ Unmount(t)
    PROVE  Served(t)
<1>1. Serves(t)
  BY DEF MountFlash, MountCard, CleanUp, Unmount, At, Serves
<1>2. /\ TypeOK /\ GoodVolume(volume) /\ lost \in BOOLEAN /\ work[t] \in Works
      /\ vfs \in BOOLEAN /\ mounted = vfs /\ lock \in Tasks \cup {Nobody}
      /\ \A ok \in BOOLEAN : [work[t] EXCEPT !.ok = ok] \in Works
  BY <1>1, ServingStep DEF Works
<1>3. CASE MountFlash(t)
  <2>1. \E ok \in BOOLEAN : \E v : GoodVolume(v) /\ Goto(t, "leave", v, [work[t] EXCEPT !.ok = ok])
    BY <1>2, <1>3, EmptyIsGood DEF MountFlash, Ends, Registers
  <2>2. /\ vfs' \in BOOLEAN /\ mounted' = vfs' /\ UNCHANGED <<lost, lock>>
        /\ faults' \in 0 .. MaxFaults
    BY <1>2, <1>3, FaultsTyped DEF MountFlash, Registers
  <2>3. QED
    BY <1>1, <1>2, <2>1, <2>2, MountsServed
<1>4. CASE MountCard(t)
  <2>1. \E ok \in BOOLEAN, label \in {"leave", "clean_up"} :
            Goto(t, label, volume, [work[t] EXCEPT !.ok = ok])
    BY <1>2, <1>4 DEF MountCard, Ends, Registers
  <2>2. /\ vfs' \in BOOLEAN /\ mounted' = vfs' /\ UNCHANGED lost /\ faults' \in 0 .. MaxFaults
        /\ lock' = Nobody /\ ~Flash
    BY <1>2, <1>4, FaultsTyped DEF MountCard, Registers
  <2>3. QED
    BY <1>1, <1>2, <2>1, <2>2, MountsServed
<1>5. CASE CleanUp(t)
  <2>1. GoodVolume(Without({q \in Partials : IsFile(q)}))
    BY <1>2, WithoutIsGood, PlaceAssumption
  <2>2. \E v : GoodVolume(v) /\ Goto(t, "leave", v, work[t])
    BY <1>2, <1>5, <2>1 DEF CleanUp
  <2>3. QED
    BY <1>1, <1>2, <1>5, <2>2, FaultsTyped, MountsServed DEF CleanUp, Same
<1>6. CASE Unmount(t)
  <2>1. \E ok \in BOOLEAN : Goto(t, "leave", volume, [work[t] EXCEPT !.ok = ok])
    BY <1>6 DEF Unmount, Ends
  <2>2. /\ vfs' \in BOOLEAN /\ mounted' = vfs' /\ UNCHANGED <<lost, lock>>
        /\ faults' \in 0 .. MaxFaults
    BY <1>2, <1>6, FaultsTyped DEF Unmount
  <2>3. QED
    BY <1>1, <1>2, <2>1, <2>2, MountsServed
<1>7. QED
  BY <1>3, <1>4, <1>5, <1>6

LEMMA FormatServed ==
    ASSUME IInv, NEW t \in Tasks,
           \/ FormatUnregisters(t) \/ FormatErases(t) \/ FormatRemounts(t)
           \/ FormatCard(t) \/ FormatUnmounts(t)
    PROVE  Served(t)
<1>1. Serves(t) /\ pc[t] \notin {"mount", "clean_up"}
  BY DEF FormatUnregisters, FormatErases, FormatRemounts, FormatCard, FormatUnmounts, At, Serves
<1>2. /\ TypeOK /\ GoodVolume(volume) /\ lost \in BOOLEAN /\ work[t] \in Works
      /\ Flash \/ t = Rx
      /\ vfs \in BOOLEAN /\ mounted = vfs /\ lock \in Tasks \cup {Nobody}
      /\ \A ok \in BOOLEAN : [work[t] EXCEPT !.ok = ok] \in Works
      /\ [work[t] EXCEPT !.was = mounted] \in Works
  BY <1>1, ServingStep DEF Works
<1>3. CASE FormatUnregisters(t)
  <2>1. \E label \in {"leave", "format_erase"}, w \in Works : Goto(t, label, volume, w)
    BY <1>2, <1>3 DEF FormatUnregisters, Ends
  <2>2. /\ vfs' \in BOOLEAN /\ mounted' = vfs' /\ UNCHANGED <<lost, lock>>
        /\ faults' \in 0 .. MaxFaults
    BY <1>2, <1>3, FaultsTyped DEF FormatUnregisters
  <2>3. QED
    BY <1>1, <1>2, <2>1, <2>2, MountsServed
<1>4. ASSUME NEW label \in {"format_remount", "format_unmount", "format_mount", "leave"},
             NEW v, GoodVolume(v), NEW w \in Works, Goto(t, label, v, w),
             vfs' \in BOOLEAN, mounted' = vfs', UNCHANGED <<lock, lost>>,
             faults' \in 0 .. MaxFaults
      PROVE  Served(t)
  <2>1. pc'[t] = label
    BY <1>2, <1>4 DEF Goto, TypeOK
  <2>2. FoundAt(t)'
    BY <1>4, <2>1 DEF FoundAt
  <2>3. QED
    BY <1>2, <1>4, <2>2 DEF Served, Reaches, Labels, CopySteps
<1>5. CASE FormatErases(t)
  <2>1. \E label \in {"format_remount", "leave"}, w \in Works : \E v :
           GoodVolume(v) /\ Goto(t, label, v, w)
    BY <1>2, <1>5, EmptyIsGood DEF FormatErases, Ends
  <2>2. /\ UNCHANGED <<vfs, mounted, lost, lock>> /\ faults' \in 0 .. MaxFaults
    BY <1>2, <1>5, FaultsTyped DEF FormatErases, Same
  <2>3. QED
    BY <1>2, <1>4, <2>1, <2>2
<1>6. CASE FormatRemounts(t)
  <2>1. \E w \in Works : Goto(t, "leave", volume, w)
    BY <1>2, <1>6 DEF FormatRemounts, Registers, Ends
  <2>2. /\ vfs' \in BOOLEAN /\ mounted' = vfs' /\ UNCHANGED <<lost, lock>>
        /\ faults' \in 0 .. MaxFaults
    BY <1>2, <1>6, FaultsTyped DEF FormatRemounts, Registers
  <2>3. QED
    BY <1>2, <1>4, <2>1, <2>2
<1>7. CASE FormatCard(t)
  <2>1. \E label \in {"format_unmount", "leave"}, w \in Works : \E v :
           GoodVolume(v) /\ Goto(t, label, v, w)
    BY <1>2, <1>7, EmptyIsGood DEF FormatCard, Ends
  <2>2. /\ UNCHANGED <<vfs, mounted, lost, lock>> /\ faults' \in 0 .. MaxFaults
    BY <1>2, <1>7, FaultsTyped DEF FormatCard, Same
  <2>3. QED
    BY <1>2, <1>4, <2>1, <2>2
<1>8. CASE FormatUnmounts(t)
  <2>1. /\ Goto(t, "format_mount", volume, work[t])
        /\ vfs' = FALSE /\ mounted' = FALSE /\ UNCHANGED <<lost, lock>>
        /\ faults' \in 0 .. MaxFaults
    BY <1>2, <1>8, FaultsTyped DEF FormatUnmounts
  <2>2. QED
    BY <1>2, <1>4, <2>1
<1>9. QED
  BY <1>3, <1>5, <1>6, <1>7, <1>8
LEMMA EveryStep ==
    ASSUME IInv, NEW t \in Tasks, Step(t), ~Enter(t), ~Leave(t)
    PROVE  Serves(t) /\ Served(t)
<1>1. Served(t)
  BY CopyServed, RenameServed, FileServed, RecursionServed, MountServed, FormatServed DEF Step
<1>2. Serves(t)
  BY DEF Step, Serves, At, CopyOpenSource, CopyOpenDestination, CopyChunk, CopyReadFails, CopyEnd,
         CopyCleanup, RenameClears, RenameMoves, DeleteFile, CreateDirectory, HashFile,
         RecursiveOpens, RemoveEntry, DirectoryDone, MountFlash, MountCard, CleanUp, Unmount,
         FormatUnregisters, FormatErases, FormatRemounts, FormatCard, FormatUnmounts
<1>3. QED
  BY <1>1, <1>2

-----------------------------------------------------------------------------
(***************************************************************************)
(* Starting and ending a call.                                             *)
(***************************************************************************)
LEMMA CallsTyped ==
    ASSUME NEW c \in Calls
    PROVE  c.op \in Operations /\ c.op \in Labels \ {"idle", "enter", "leave"}
                 /\ c.op \notin CopySteps \ {"copy"} /\ c.op # "remove_next"
                 /\ c.op # "clean_up"
BY CallAssumption DEF Operations, Labels, CopySteps

LEMMA BeginKeeps ==
    ASSUME IInv, NEW t \in Tasks, Begin(t)
    PROVE  TypeOK' /\ Agrees' /\ PlacedAt(t)' /\ FoundAt(t)'
<1>1. PICK c \in Calls : MayCall(t, c.op) /\ call' = [call EXCEPT ![t] = c]
  BY DEF Begin
<1>2. TypeOK'
  BY <1>1, BoundAssumption DEF Begin, IInv, TypeOK, medium, Labels, IsTree
<1>3. pc'[t] = "enter" /\ call'[t] = c /\ kind' = kind
  BY <1>1 DEF Begin, IInv, TypeOK
<1>4. PlacedAt(t)' /\ FoundAt(t)'
  BY <1>1, <1>3 DEF PlacedAt, FoundAt, MayCall, Flash, CopySteps
<1>5. QED
  BY <1>2, <1>4 DEF Begin, IInv, Agrees, medium

LEMMA EnterKeeps ==
    ASSUME IInv, NEW t \in Tasks, Enter(t)
    PROVE  TypeOK' /\ Agrees' /\ PlacedAt(t)' /\ FoundAt(t)'
<1>1. /\ pc[t] = "enter" /\ call[t] \in Calls /\ MayCall(t, call[t].op)
      /\ TypeOK /\ kind' = kind /\ call' = call
  BY DEF Enter, At, IInv, Steps, PlacedAt
<1>2. /\ call[t].op \in Operations /\ call[t].op \in Labels \ {"idle", "enter", "leave"}
      /\ call[t].op \notin CopySteps \ {"copy"} /\ call[t].op # "remove_next"
      /\ call[t].op # "clean_up"
  BY <1>1, CallsTyped
<1>3. /\ pc' = [pc EXCEPT ![t] = "leave"] \/ pc' = [pc EXCEPT ![t] = call[t].op]
      /\ Unsupported(call[t].op) => pc' = [pc EXCEPT ![t] = "leave"]
      /\ work' \in [Tasks -> Works]
  <2>1. (~(Unsupported(call[t].op) \/ (NeedsMount(call[t].op) /\ ~mounted))
           /\ call[t].op = "mkdir" /\ Flash) \in BOOLEAN
    BY DEF Unsupported, Flash
  <2>2. work \in [Tasks -> Works]
    BY <1>1 DEF TypeOK
  <2>3. \A ok \in BOOLEAN : [work EXCEPT ![t].ok = ok] \in [Tasks -> Works]
    BY <2>2 DEF Works
  <2>4. CASE UNCHANGED work
    BY <2>2, <2>4 DEF Enter
  <2>5. CASE ~UNCHANGED work
    BY <2>1, <2>3, <2>5 DEF Enter
  <2>6. QED
    BY <2>4, <2>5 DEF Enter
<1>4. lock' \in {lock, t} /\ (Locks(call[t].op) => lock' = t)
  BY DEF Enter
<1>5. seen' \in [Tasks -> [Places -> Contents] \cup {NotStarted}]
  BY <1>1 DEF Enter, TypeOK
<1>6. TypeOK'
  <2>1. pc' \in [Tasks -> Labels]
    BY <1>1, <1>2, <1>3 DEF TypeOK, Labels
  <2>2. QED
    BY <1>1, <1>3, <1>4, <1>5, <2>1 DEF Enter, TypeOK, medium, IsTree
<1>7. pc'[t] \in {"leave", call[t].op} /\ (Unsupported(call[t].op) => pc'[t] = "leave")
  BY <1>1, <1>3 DEF TypeOK
<1>8. PlacedAt(t)'
  <2>1. Flash /\ ~Unsupported(call[t].op) => lock' = t
    BY <1>4 DEF Locks
  <2>2. ~Flash /\ t # Rx => call[t].op = "mount"
    BY <1>1 DEF MayCall
  <2>3. pc'[t] \in CopySteps => call[t].op = "copy"
    BY <1>2, <1>7 DEF CopySteps
  <2>4. Flash' = Flash /\ Unsupported(call[t].op)' = Unsupported(call[t].op)
        /\ MayCall(t, call[t].op)' = MayCall(t, call[t].op)
    BY <1>1 DEF Flash, Unsupported, MayCall
  <2>5. QED
    BY <1>1, <1>2, <1>7, <2>1, <2>2, <2>3, <2>4 DEF PlacedAt
<1>9. FoundAt(t)'
  BY <1>2, <1>7 DEF FoundAt, CopySteps
<1>10. QED
  BY <1>6, <1>8, <1>9 DEF Enter, IInv, Agrees, medium

LEMMA LeaveKeeps ==
    ASSUME IInv, NEW t \in Tasks, Leave(t)
    PROVE  TypeOK' /\ Agrees' /\ PlacedAt(t)' /\ FoundAt(t)'
<1>1. TypeOK'
  <2>1. Fresh \in Works /\ NoCall \in Calls \cup {NoCall}
    BY DEF Fresh, Works
  <2>2. QED
    BY <2>1 DEF Leave, Returns, IInv, TypeOK, medium, Labels, IsTree
<1>2. pc'[t] = "idle"
  BY DEF Leave, Returns, IInv, TypeOK
<1>3. QED
  BY <1>1, <1>2 DEF PlacedAt, FoundAt, Leave, Returns, IInv, Agrees, medium, CopySteps

-----------------------------------------------------------------------------
(***************************************************************************)
(* The other tasks.                                                        *)
(***************************************************************************)
\* The mutex keeps the other tasks of a flash backend out.
LEMMA LockKept ==
    ASSUME IInv, NEW t \in Tasks, NEW u \in Tasks, u # t, Begin(t) \/ Step(t), Flash, lock = u
    PROVE  lock' = u /\ UNCHANGED volume
<1>1. CASE Serves(t)
  BY <1>1, ServesWith
<1>2. CASE Begin(t)
  BY <1>2 DEF Begin, medium
<1>3. CASE Enter(t)
  BY <1>3, TaskAssumption DEF Enter, medium
<1>4. CASE Leave(t)
  BY <1>4 DEF Leave, Returns, medium
<1>5. QED
  BY <1>1, <1>2, <1>3, <1>4, EveryStep

\* While the RX task serves a call on the card, the others delete partial
\* uploads at most.
LEMMA CardKept ==
    ASSUME IInv, NEW t \in Tasks, t # Rx, Begin(t) \/ Step(t), ~Flash
    PROVE  \A p \in Places :
              \/ volume'[p] = volume[p]
              \/ OthersMount /\ p \in Partials /\ IsFile(p) /\ volume'[p] = Absent
<1>1. CASE Serves(t) /\ Step(t)
  <2>1. pc[t] \in {"mount", "clean_up"}
    BY <1>1, ServesWith
  <2>2. MountCard(t) \/ CleanUp(t)
    <3>1. /\ ~Enter(t) /\ ~Leave(t) /\ ~CopyOpenSource(t) /\ ~CopyOpenDestination(t)
          /\ ~CopyChunk(t) /\ ~CopyReadFails(t) /\ ~CopyEnd(t) /\ ~CopyCleanup(t)
      BY <2>1 DEF At, Enter, Leave, CopyOpenSource, CopyOpenDestination, CopyChunk, CopyReadFails,
                  CopyEnd, CopyCleanup
    <3>2. /\ ~RenameClears(t) /\ ~RenameMoves(t) /\ ~DeleteFile(t) /\ ~CreateDirectory(t)
          /\ ~HashFile(t) /\ ~RecursiveOpens(t) /\ ~RemoveEntry(t) /\ ~DirectoryDone(t)
      BY <2>1 DEF At, RenameClears, RenameMoves, DeleteFile, CreateDirectory, HashFile,
                  RecursiveOpens, RemoveEntry, DirectoryDone
    <3>3. /\ ~MountFlash(t) /\ ~Unmount(t) /\ ~FormatUnregisters(t) /\ ~FormatErases(t)
          /\ ~FormatRemounts(t) /\ ~FormatCard(t) /\ ~FormatUnmounts(t)
      BY <2>1 DEF At, MountFlash, Unmount, FormatUnregisters, FormatErases, FormatRemounts,
                  FormatCard, FormatUnmounts
    <3>4. QED
      BY <1>1, <3>1, <3>2, <3>3 DEF Step
  <2>3. CASE MountCard(t)
    BY <2>3 DEF MountCard, Ends, Registers, Goto
  <2>4. CASE CleanUp(t)
    <3>1. OthersMount
      BY <1>1, ServesWith DEF OthersMount, Tasks, IInv, Steps, PlacedAt, MayCall, Serves
    <3>2. QED
      BY <2>4, <3>1 DEF CleanUp, Goto, Without
  <2>5. QED
    BY <2>2, <2>3, <2>4
<1>2. CASE Begin(t)
  BY <1>2 DEF Begin, medium
<1>3. CASE Enter(t)
  BY <1>3 DEF Enter, medium
<1>4. CASE Leave(t)
  BY <1>4 DEF Leave, Returns, medium
<1>5. QED
  BY <1>1, <1>2, <1>3, <1>4, EveryStep

LEMMA OthersKept ==
    ASSUME IInv, CopiesNoPartial, NEW t \in Tasks, NEW u \in Tasks, u # t, Begin(t) \/ Step(t)
    PROVE  PlacedAt(u)' /\ FoundAt(u)'
<1>1. Kept(u) /\ kind' = kind /\ PlacedAt(u) /\ FoundAt(u) /\ TypeOK
  BY OthersStay DEF IInv, Steps
<1>2. PlacedAt(u)'
  <2>1. Flash /\ lock = u => lock' = u
    BY LockKept
  <2>2. QED
    BY <1>1, <2>1 DEF PlacedAt, Kept, Flash, Unsupported, MayCall
<1>3. Path(u)' = Path(u) /\ Target(u)' = Target(u)
  BY <1>1 DEF Kept, Path, Target, Resolve, Flash
<1>4. CASE pc[u] \in {"copy_open", "copy_chunk", "copy_cleanup"}
  <2>1. call[u] \in Calls /\ call[u].op = "copy" /\ ~Unsupported("copy")
    BY <1>1, <1>4 DEF PlacedAt, CopySteps, Unsupported
  <2>2. ASSUME NEW p, IsFile(p), ~Flash /\ OthersMount => p \notin Partials
        PROVE  IsFile(p)'
    <3>1. p \in Places
      BY <1>1, <2>2, HoldsTyped
    <3>2. volume'[p] = volume[p]
      <4>1. CASE Flash
        BY <1>1, <1>4, <2>1, <4>1, LockKept DEF PlacedAt
      <4>2. CASE ~Flash
        BY <1>1, <1>4, <2>2, <3>1, <4>2, CardKept DEF PlacedAt
      <4>3. QED
        BY <4>1, <4>2
    <3>3. QED
      BY <2>2, <3>2 DEF IsFile, Exists, Holds
  <2>3. ~Flash /\ OthersMount => Path(u) \notin Partials /\ Target(u) \notin Partials
    BY <2>1 DEF CopiesNoPartial, Path, Target, Resolve
  <2>4. IsFile(Path(u)) => IsFile(Path(u))'
    BY <1>3, <2>2, <2>3
  <2>5. IsFile(Target(u)) => IsFile(Target(u))'
    BY <1>3, <2>2, <2>3
  <2>6. QED
    BY <1>1, <1>2, <1>4, <2>4, <2>5 DEF FoundAt, Kept
<1>5. CASE pc[u] \notin {"copy_open", "copy_chunk", "copy_cleanup"}
  BY <1>1, <1>2, <1>5 DEF FoundAt, Kept
<1>6. QED
  BY <1>4, <1>5

-----------------------------------------------------------------------------
LEMMA Inductive == CopiesNoPartial /\ IInv /\ [Next]_vars => IInv'
<1> SUFFICES ASSUME CopiesNoPartial, IInv, [Next]_vars PROVE IInv'
  OBVIOUS
<1>1. CASE UNCHANGED vars
  <2>1. TypeOK' /\ Agrees'
    BY <1>1 DEF vars, medium, control, IInv, TypeOK, IsTree, Agrees
  <2>2. ASSUME NEW t \in Tasks PROVE PlacedAt(t)' /\ FoundAt(t)'
    <3>1. PlacedAt(t) /\ FoundAt(t)
      BY DEF IInv, Steps
    <3>2. PlacedAt(t)'
      BY <1>1, <3>1 DEF vars, medium, control, PlacedAt, MayCall, Flash, Unsupported
    <3>3. FoundAt(t)'
      BY <1>1, <3>1
         DEF vars, medium, control, FoundAt, Flash, IsFile, Exists, Holds, Path, Target, Resolve
    <3>4. QED
      BY <3>2, <3>3
  <2>3. QED
    BY <2>1, <2>2 DEF IInv, Steps, Tasks
<1>2. ASSUME NEW t \in Tasks, Begin(t) \/ Step(t) PROVE IInv'
  <2>1. TypeOK' /\ Agrees' /\ PlacedAt(t)' /\ FoundAt(t)'
    <3>1. CASE Begin(t) \/ Enter(t) \/ Leave(t)
      BY <3>1, BeginKeeps, EnterKeeps, LeaveKeeps
    <3>2. CASE ~(Begin(t) \/ Enter(t) \/ Leave(t))
      <4>1. Serves(t) /\ Served(t)
        BY <1>2, <3>2, EveryStep
      <4>2. QED
        BY <4>1, ReachesTyped, ReachesPlaced DEF Served
    <3>3. QED
      BY <3>1, <3>2
  <2>2. QED
    BY <1>2, <2>1, OthersKept DEF IInv, Steps
<1>3. QED
  BY <1>1, <1>2 DEF Next

LEMMA InitKeeps == Init => IInv
<1> SUFFICES ASSUME Init PROVE IInv
  OBVIOUS
<1>1. volume \in [Places -> Contents] /\ IsTree(volume)
  BY VolumeAssumption DEF Init, IsTree
<1>2. formats \in BOOLEAN /\ kind \in Kinds
  BY DEF Init, Kinds
<1>3. Fresh \in Works
  BY DEF Fresh, Works
<1>4. TypeOK
  <2>1. /\ pc \in [Tasks -> Labels] /\ call \in [Tasks -> Calls \cup {NoCall}]
        /\ result \in [Tasks -> {"none", "running", "ok", "failed"}]
        /\ work \in [Tasks -> Works]
        /\ seen \in [Tasks -> [Places -> Contents] \cup {NotStarted}]
    BY <1>3 DEF Init, Labels
  <2>2. vfs \in BOOLEAN /\ mounted \in BOOLEAN /\ lost \in BOOLEAN /\ lock \in Tasks \cup {Nobody}
    BY DEF Init
  <2>3. calls \in 0 .. MaxCalls /\ faults \in 0 .. MaxFaults
    BY BoundAssumption DEF Init
  <2>4. QED
    BY <1>1, <1>2, <2>1, <2>2, <2>3 DEF TypeOK
<1>5. QED
  BY <1>4 DEF Init, IInv, Steps, PlacedAt, FoundAt, Agrees, CopySteps

LEMMA Invariance == ASSUME CopiesNoPartial PROVE Spec => []IInv
<1>1. IInv /\ [Next]_vars => IInv'
  BY Inductive
<1>2. QED
  BY <1>1, InitKeeps, PTL DEF Spec

\* Whatever fails at whatever step of whatever call, and for any volume, any
\* calls and any number of tasks: what the volume holds is a tree, no directory
\* that something is in goes, and every stream that is open has its file.
THEOREM TypeCorrect == ASSUME CopiesNoPartial PROVE Spec => []TypeOK
<1>1. IInv => TypeOK
  BY DEF IInv
<1>2. QED
  BY <1>1, Invariance, PTL

-----------------------------------------------------------------------------
\* Each step sets both flags or neither.
LEMMA AgreesKept == Agrees /\ [Next]_vars => Agrees'
<1> SUFFICES ASSUME Agrees, [Next]_vars PROVE Agrees'
  OBVIOUS
<1> USE DEF Agrees
<1>1. CASE UNCHANGED medium
  BY <1>1 DEF medium
<1>2. ASSUME NEW t \in Tasks,
             \/ CopyOpenSource(t) \/ CopyOpenDestination(t) \/ CopyChunk(t)
             \/ CopyReadFails(t) \/ CopyEnd(t) \/ CopyCleanup(t)
      PROVE  Agrees'
  BY <1>2 DEF CopyOpenSource, CopyOpenDestination, CopyChunk, CopyReadFails, CopyEnd, CopyCleanup,
              Same
<1>3. ASSUME NEW t \in Tasks,
             RenameClears(t) \/ RenameMoves(t) \/ DeleteFile(t) \/ CreateDirectory(t) \/ HashFile(t)
      PROVE  Agrees'
  BY <1>3 DEF RenameClears, RenameMoves, DeleteFile, CreateDirectory, HashFile, Decides, Same
<1>4. ASSUME NEW t \in Tasks, RecursiveOpens(t) \/ RemoveEntry(t) \/ DirectoryDone(t)
      PROVE  Agrees'
  BY <1>4 DEF RecursiveOpens, RemoveEntry, DirectoryDone, Same
<1>5. ASSUME NEW t \in Tasks, MountFlash(t) \/ MountCard(t) \/ CleanUp(t) \/ Unmount(t)
      PROVE  Agrees'
  <2>1. CASE MountFlash(t)
    BY <2>1 DEF MountFlash, Registers
  <2>2. CASE MountCard(t)
    BY <2>2 DEF MountCard, Registers
  <2>3. CASE CleanUp(t) \/ Unmount(t)
    BY <2>3 DEF CleanUp, Unmount, Same
  <2>4. QED
    BY <1>5, <2>1, <2>2, <2>3
<1>6. ASSUME NEW t \in Tasks,
             \/ FormatUnregisters(t) \/ FormatErases(t) \/ FormatRemounts(t)
             \/ FormatCard(t) \/ FormatUnmounts(t)
      PROVE  Agrees'
  <2>1. CASE FormatUnregisters(t)
    BY <2>1 DEF FormatUnregisters
  <2>2. CASE FormatRemounts(t)
    BY <2>2 DEF FormatRemounts, Registers
  <2>3. CASE FormatErases(t) \/ FormatCard(t)
    <3>1. Same
      BY <2>3 DEF FormatErases, FormatCard
    <3>2. QED
      BY <3>1 DEF Same
  <2>4. CASE FormatUnmounts(t)
    BY <2>4 DEF FormatUnmounts
  <2>5. QED
    BY <1>6, <2>1, <2>2, <2>3, <2>4
<1>7. ASSUME NEW t \in Tasks, Begin(t) \/ Enter(t) \/ Leave(t)
      PROVE  Agrees'
  BY <1>1, <1>7 DEF Begin, Enter, Leave, Returns
<1>8. QED
  BY <1>1, <1>2, <1>3, <1>4, <1>5, <1>6, <1>7 DEF Next, Step, vars

\* m_mounted tells whether the file system is registered after every mount,
\* unmount and format, wherever it failed, on each of the backends, whatever
\* other tasks do meanwhile.
THEOREM MountFlagAgrees == Spec => []MountedAgrees
<1>1. Init => Agrees
  BY DEF Init, Agrees
<1>2. Agrees => MountedAgrees
  BY DEF Agrees, MountedAgrees
<1>3. QED
  BY <1>1, <1>2, AgreesKept, PTL DEF Spec-----------------------------------------------------------------------------
(***************************************************************************)
(* The contract: what a call in its course has done of what it was asked.  *)
(***************************************************************************)
\* A name for all that a renamed tree has.  The volume has a place for every
\* path that the file system takes: what a bounded instance has to see to.
RenamesFit ==
    \A c \in Calls : c.op = "rename" =>
        \A p \in Readings(c.path), new \in Readings(c.to) :
            ~IsPrefix(p, new) => \A q \in Below(p) : Contract!Renamed(q, p, new) \in Places

\* No rename of a partial upload, or to the name of one, that another task's
\* mount of the card may delete meanwhile.
RenamesNoPartial ==
    OthersMount => \A c \in Calls : c.op = "rename" =>
                      \A q \in Partials : ~IsPrefix(c.path, q) /\ ~IsPrefix(c.to, q)

\* The calls that are in a method at a label.
MethodsAt(label) ==
    CASE label \in CopySteps                       -> {"copy"}
      [] label \in {"rename", "rename_move"}       -> {"rename"}
      [] label \in {"recursive", "remove_next"}    -> {"recursive"}
      [] label \in {"format", "format_erase", "format_remount", "format_unmount", "format_mount"}
                                                   -> {"format"}
      [] label = "clean_up"                        -> {"mount", "format"}
      [] OTHER                                     -> {label}

\* A call has an answer to give from its start on, and a volume to speak of from
\* the moment on that it is past its entry.  SPIFFS refuses what it cannot do.
CourseAt(t) ==
    /\ pc[t] = "idle" <=> result[t] # "running"
    /\ pc[t] \in {"idle", "enter"} <=> seen[t] = NotStarted
    /\ pc[t] \notin {"idle", "enter", "leave"} => call[t].op \in MethodsAt(pc[t])
    /\ pc[t] = "leave" /\ Unsupported(call[t].op) => ~work[t].ok

\* The source is as it was seen, the destination has the start of it.
CopyAt(t) ==
    LET p == Path(t)
        new == Target(t)
    IN call[t].op = "copy" /\ p # new =>
        /\ pc[t] \in {"copy", "copy_open"} =>
             \A q \in {p, new} \cap Places : volume[q] = seen[t][q]
        /\ pc[t] = "copy_chunk" =>
             volume[p] = seen[t][p] /\ IsPrefix(volume[new], volume[p])
        /\ pc[t] = "leave" /\ ~lost =>
             IF work[t].ok THEN new \in Places /\ volume[new] = seen[t][p]
             ELSE new \in Places => volume[new] \in {seen[t][new], Absent}

\* The tree is where it was, and then all of it is under its new name.
RenameAt(t) ==
    LET p == Path(t)
        new == Target(t)
        stays == p \in Places => volume[p] = seen[t][p]
    IN call[t].op = "rename" /\ p # new =>
        /\ pc[t] \in {"rename", "rename_move"} =>
             stays /\ (~IsPrefix(p, new) => \A q \in Below(p) : volume[q] = seen[t][q])
        /\ pc[t] = "leave" =>
             IF work[t].ok
             THEN \A q \in Contract!Tree(p, seen[t]) :
                     /\ volume[q] = Absent
                     /\ seen[t][q] # Absent =>
                          /\ Contract!Renamed(q, p, new) \in Places
                          /\ volume[Contract!Renamed(q, p, new)] = seen[t][q]
             ELSE stays

\* What a single call of the file system did.
FileAt(t) ==
    LET p == Path(t) IN
    pc[t] = "leave" /\ work[t].ok =>
        /\ call[t].op = "delete" => p \in Places /\ volume[p] = Absent
        /\ call[t].op = "mkdir" /\ p \in Places =>
             IF Flash THEN volume[p] # Absent ELSE volume[p] = Directory

\* The recursion is in the tree it was started at, and ends where it began.
RecursionAt(t) ==
    LET p == Path(t)
        dirs == work[t].dirs
    IN call[t].op = "recursive" =>
        /\ pc[t] = "remove_next" =>
             /\ dirs[Len(dirs)] = p
             /\ \A i \in 1 .. Len(dirs) : IsPrefix(p, dirs[i])
        /\ pc[t] = "leave" /\ work[t].ok => \A q \in Below(p) : volume[q] = Absent

\* A format that answers ESP_OK erased the volume; the card's that failed and
\* mounts again does not.
FormatAt(t) ==
    call[t].op = "format" =>
        /\ pc[t] = "clean_up" => ~work[t].ok
        /\ pc[t] = "format_remount" \/ (pc[t] = "leave" /\ work[t].ok) =>
             \A q \in Places : volume[q] = Absent

Told(t) ==
    CourseAt(t) /\ CopyAt(t) /\ RenameAt(t) /\ FileAt(t) /\ RecursionAt(t) /\ FormatAt(t)

\* SPIFFS has no directories.
FlatIsFlat == kind = "spiffs" => \A p \in Places : volume[p] # Directory

RInv == IInv /\ FlatIsFlat /\ \A t \in Tasks : Told(t)

\* Something in p, at whatever depth: p is a directory that is not empty.
LEMMA DirectoryAbove ==
    ASSUME TypeOK, kind # "spiffs", NEW p \in Seq(Components),
           NEW q \in Places, volume[q] # Absent, IsPrefix(p, q), p # q
    PROVE  Entries(p) # {} /\ (p # <<>> => p \in Places /\ volume[p] = Directory)
<1> DEFINE In == {s \in Places : IsPrefix(p, s) /\ p # s /\ volume[s] # Absent}
           Depths == {Len(s) : s \in In}
<1>1. Depths \in SUBSET Nat /\ Depths # {}
  BY PlaceTyped
<1>2. PICK n \in Depths : \A m \in Depths : ~(m < n)
  <2>1. PICK n \in Depths : \A m \in Depths : ~(<<m, n>> \in OpToRel(<, Nat))
    BY <1>1, NatLessThanWellFounded, WFMin
  <2>2. QED
    BY <1>1, <2>1 DEF OpToRel
<1>3. PICK s \in In : \A r \in In : ~(Len(r) < Len(s))
  BY <1>2
<1>4. /\ s \in Places /\ s \in Seq(Components) /\ s # <<>> /\ Len(s) \in Nat \ {0}
      /\ Front(s) \in Seq(Components) /\ Len(Front(s)) = Len(s) - 1
      /\ IsPrefix(p, s) /\ p # s /\ volume[s] # Absent
  BY PlaceTyped, FrontIs
<1>5. IsPrefix(p, Front(s))
  BY <1>4, PrefixOfFront
<1>6. Len(s) > 1 => Front(s) \in Places /\ volume[Front(s)] = Directory
  BY <1>4, PlaceTyped DEF TypeOK, IsTree
<1>7. Front(s) = p
  <2>1. CASE Len(s) > 1
    BY <1>3, <1>4, <1>5, <1>6, <2>1, ContentsDiffer
  <2>2. CASE Len(s) = 1
    <3>1. Front(s) = <<>> /\ Len(p) <= 0 /\ Len(p) \in Nat
      BY <1>4, <1>5, <2>2, PlaceTyped, PrefixIs, LenProperties
    <3>2. QED
      BY <3>1, EmptySeq
  <2>3. QED
    BY <1>4, <2>1, <2>2
<1>8. s \in Entries(p)
  BY <1>4, <1>7, HoldsTyped DEF Entries, Exists
<1>9. p # <<>> => Len(s) > 1
  BY <1>4, <1>7, EmptySeq
<1>10. QED
  BY <1>6, <1>7, <1>8, <1>9
-----------------------------------------------------------------------------
(***************************************************************************)
(* What the other tasks leave of it.                                       *)
(***************************************************************************)
LEMMA LostStays ==
    ASSUME TypeOK, NEW t \in Tasks, Begin(t) \/ Step(t)
    PROVE  lost' = lost \/ lost' = TRUE
<1>1. CASE Begin(t) \/ Enter(t) \/ Leave(t)
  BY <1>1 DEF Begin, Enter, Leave, Returns
<1>2. CASE CopyOpenSource(t) \/ CopyOpenDestination(t) \/ CopyChunk(t) \/ CopyReadFails(t)
  BY <1>2 DEF CopyOpenSource, CopyOpenDestination, CopyChunk, CopyReadFails, Same
<1>3. CASE CopyEnd(t) \/ CopyCleanup(t)
  BY <1>3 DEF CopyEnd, CopyCleanup
<1>4. CASE RenameClears(t) \/ RenameMoves(t) \/ DeleteFile(t) \/ CreateDirectory(t)
  BY <1>4 DEF RenameClears, RenameMoves, DeleteFile, CreateDirectory, Decides, Same
<1>5. CASE HashFile(t)
  <2>1. lost \in BOOLEAN /\ Flash \in BOOLEAN
    BY DEF TypeOK, Flash
  <2>2. lost' = lost \/ lost' = (lost \/ ~Flash)
    BY <1>5 DEF HashFile
  <2>3. QED
    BY <2>1, <2>2
<1>6. CASE RecursiveOpens(t) \/ RemoveEntry(t) \/ DirectoryDone(t)
  BY <1>6 DEF RecursiveOpens, RemoveEntry, DirectoryDone, Same
<1>7. CASE MountFlash(t) \/ MountCard(t) \/ CleanUp(t) \/ Unmount(t)
  BY <1>7 DEF MountFlash, MountCard, CleanUp, Unmount, Registers, Same
<1>8. CASE FormatUnregisters(t) \/ FormatErases(t) \/ FormatRemounts(t)
  BY <1>8 DEF FormatUnregisters, FormatErases, FormatRemounts, Registers, Same
<1>9. CASE FormatCard(t) \/ FormatUnmounts(t)
  BY <1>9 DEF FormatCard, FormatUnmounts, Same
<1>10. QED
  BY <1>1, <1>2, <1>3, <1>4, <1>5, <1>6, <1>7, <1>8, <1>9 DEF Step

LEMMA PathTyped ==
    ASSUME NEW t \in Tasks, call[t] \in Calls
    PROVE  /\ Path(t) \in Seq(Components) /\ Path(t) \in Readings(call[t].path)
           /\ Target(t) \in Seq(Components) /\ Target(t) \in Readings(call[t].to)
           /\ ~Flash => Path(t) = call[t].path /\ Target(t) = call[t].to
<1>1. call[t].path \in Seq(Components) /\ call[t].to \in Seq(Components)
  BY CallAssumption
<1>2. \A p \in Seq(Components) : p # <<>> => Tail(p) \in Seq(Components)
  BY HeadTailProperties
<1>3. QED
  BY <1>1, <1>2 DEF Path, Target, Resolve, Readings

\* The contract's own reading of the paths.
LEMMA SameBelow ==
    ASSUME NEW p
    PROVE  /\ Contract!Below(p) = Below(p)
           /\ \A before : Contract!Tree(p, before) = {q \in Below(p) : q = p \/ before[p] = Directory}
           /\ \A q, new : Contract!Renamed(q, p, new) = Under(q, p, new)
<1>1. Contract!Below(p) = Below(p)
  BY DEF Contract!Below, Below, Contract!IsPrefix, IsPrefix
<1>2. QED
  BY <1>1 DEF Contract!Tree, Contract!Renamed, Under

\* What is at q stays as it is while another task takes a step, unless that
\* deletes it as a partial upload on the card.
Stays(q) ==
    \/ volume'[q] = volume[q]
    \/ /\ ~Flash /\ OthersMount
       /\ q \in Partials /\ volume'[q] = Absent /\ volume[q] # Directory

LEMMA Undisturbed ==
    ASSUME IInv, NEW t \in Tasks, NEW u \in Tasks, u # t, Begin(t) \/ Step(t),
           pc[u] \notin {"idle", "enter"}, ~Unsupported(call[u].op), Flash \/ u = Rx
    PROVE  \A q \in Places : Stays(q)
<1>1. CASE Flash
  <2>1. lock = u
    BY <1>1 DEF IInv, Steps, PlacedAt
  <2>2. UNCHANGED volume
    BY <1>1, <2>1, LockKept
  <2>3. QED
    BY <2>2 DEF Stays
<1>2. CASE ~Flash
  <2>1. t # Rx /\ TypeOK
    BY <1>2 DEF IInv
  <2>2. \A q \in Places :
           \/ volume'[q] = volume[q]
           \/ OthersMount /\ q \in Partials /\ IsFile(q) /\ volume'[q] = Absent
    BY <1>2, <2>1, CardKept
  <2>3. \A q \in Places : IsFile(q) => volume[q] # Directory
    BY <2>1, HoldsTyped DEF IsFile
  <2>4. QED
    BY <1>2, <2>2, <2>3 DEF Stays
<1>3. QED
  BY <1>1, <1>2
LEMMA OthersTold ==
    ASSUME RInv, CopiesNoPartial, RenamesNoPartial,
           NEW t \in Tasks, NEW u \in Tasks, u # t, Begin(t) \/ Step(t)
    PROVE  Told(u)'
<1> DEFINE p == Path(u)
           new == Target(u)
<1>1. Told(u) /\ IInv /\ TypeOK /\ PlacedAt(u) /\ FoundAt(u)
  BY DEF RInv, IInv, Steps
<1>2. /\ Kept(u) /\ kind' = kind /\ Path(u)' = p /\ Target(u)' = new
      /\ Flash' = Flash /\ \A op : Unsupported(op)' = Unsupported(op)
  BY <1>1, OthersStay DEF Kept, Path, Target, Resolve, Flash, Unsupported
<1>3. CourseAt(u)'
  BY <1>1, <1>2 DEF Told, CourseAt, Kept
<1>4. CASE \/ pc[u] \in {"idle", "enter"} \/ Unsupported(call[u].op)
           \/ call[u].op \in {"mount", "unmount", "read"}
  BY <1>1, <1>2, <1>3, <1>4
     DEF Told, Kept, CourseAt, CopyAt, RenameAt, FileAt, RecursionAt, FormatAt, PlacedAt,
         Unsupported, CopySteps
<1>5. CASE /\ pc[u] \notin {"idle", "enter"} /\ ~Unsupported(call[u].op)
           /\ call[u].op \notin {"mount", "unmount", "read"}
  <2>1. call[u] \in Calls /\ (Flash \/ u = Rx)
    BY <1>1, <1>5 DEF PlacedAt, MayCall
  <2>2. \A q \in Places : Stays(q)
    BY <1>1, <1>5, <2>1, Undisturbed
  <2>3. /\ p \in Seq(Components) /\ new \in Seq(Components)
        /\ ~Flash => p = call[u].path /\ new = call[u].to
    BY <2>1, PathTyped
  <2>4. CopyAt(u)'
    <3>1. call[u].op = "copy" => \A q \in {p, new} \cap Places : volume'[q] = volume[q]
      BY <2>1, <2>2, <2>3 DEF CopiesNoPartial, Stays
    <3>2. pc[u] = "copy_chunk" => p \in Places /\ new \in Places
      BY <1>1, HoldsTyped DEF FoundAt
    <3>3. lost' \/ lost' = lost
      BY <1>1, LostStays
    <3>4. QED
      BY <1>1, <1>2, <3>1, <3>2, <3>3 DEF Told, CopyAt, Kept
  <2>5. RenameAt(u)'
    <3> SUFFICES ASSUME call[u].op = "rename", p # new PROVE RenameAt(u)'
      BY <1>2 DEF RenameAt, Kept
    <3>1. \A q \in Places : IsPrefix(p, q) \/ IsPrefix(new, q) => volume'[q] = volume[q]
      BY <2>1, <2>2, <2>3 DEF RenamesNoPartial, Stays
    <3>2. IsPrefix(p, p)
      BY <2>3, PrefixIs, LenProperties
    <3>3. ASSUME NEW q \in Places, IsPrefix(p, q)
          PROVE  IsPrefix(new, Contract!Renamed(q, p, new))
      <4>1. q \in Seq(Components)
        BY PlaceTyped
      <4> HIDE DEF p, new
      <4>2. IsPrefix(new, Under(q, p, new))
        BY <2>3, <3>3, <4>1, UnderBack
      <4>3. QED
        BY <4>2, SameBelow
    <3>4. \A q \in Below(p) : volume'[q] = volume[q]
      BY <3>1 DEF Below
    <3>5. Contract!Tree(p, seen[u]) \subseteq Below(p)
      BY SameBelow
    <3>6. \A q \in Below(p) : Contract!Renamed(q, p, new) \in Places =>
             volume'[Contract!Renamed(q, p, new)] = volume[Contract!Renamed(q, p, new)]
      BY <3>1, <3>3 DEF Below
    <3>7. p \in Places => volume'[p] = volume[p]
      BY <3>1, <3>2
    <3> HIDE DEF p, new
    <3>8. QED
      BY <1>1, <1>2, <3>4, <3>5, <3>6, <3>7 DEF Told, RenameAt, Kept, p, new
  <2>6. FileAt(u)'
    BY <1>1, <1>2, <2>2, ContentsDiffer DEF Told, FileAt, Kept, Stays
  <2>7. RecursionAt(u)'
    BY <1>1, <1>2, <2>2 DEF Told, RecursionAt, Kept, Stays, Below
  <2>8. FormatAt(u)'
    BY <1>1, <1>2, <2>2 DEF Told, FormatAt, Kept, Stays
  <2>9. QED
    BY <1>3, <2>4, <2>5, <2>6, <2>7, <2>8 DEF Told
<1>6. QED
  BY <1>4, <1>5
-----------------------------------------------------------------------------
(***************************************************************************)
(* What the task's own step makes of it.                                   *)
(***************************************************************************)
\* A step changes what the call is about, and nothing else.
Within(t) ==
    /\ \A q \in Places \ Contract!Scope(Asked[t]) : volume'[q] = volume[q]
    /\ call[t].op \notin Contract!MakingCalls =>
         \A q \in Places : volume'[q] \in {volume[q], Absent}
    /\ call[t].op \notin Contract!MountCalls => mounted' = mounted
    /\ UNCHANGED <<call, result, seen, formats>>

LEMMA AskedIs ==
    ASSUME NEW t \in Tasks, call[t] \in Calls
    PROVE  Asked[t].op = call[t].op /\ Asked[t].path = Path(t) /\ Asked[t].to = Target(t)
BY CallAssumption DEF Asked

LEMMA ScopeIs ==
    ASSUME NEW t \in Tasks, call[t] \in Calls
    PROVE  /\ call[t].op = "copy" => Contract!Scope(Asked[t]) = {Target(t)}
           /\ call[t].op = "rename" =>
                Contract!Scope(Asked[t]) = Below(Path(t)) \cup Below(Target(t))
           /\ call[t].op \in {"delete", "mkdir"} => Contract!Scope(Asked[t]) = {Path(t)}
           /\ call[t].op = "recursive" => Contract!Scope(Asked[t]) = Below(Path(t))
           /\ call[t].op = "mount" =>
                Contract!Scope(Asked[t]) = IF formats THEN Places ELSE Partials
           /\ call[t].op = "format" => Contract!Scope(Asked[t]) = Places
BY AskedIs, SameBelow DEF Contract!Scope

\* A task that serves a call, and goes on with it at a label.
LEMMA ServingTold ==
    ASSUME RInv, NEW t \in Tasks, Serves(t)
    PROVE  /\ IInv /\ TypeOK /\ Told(t) /\ FoundAt(t) /\ work[t] \in Works
           /\ call[t] \in Calls /\ ~Unsupported(call[t].op) /\ call[t].op \in MethodsAt(pc[t])
           /\ result[t] = "running" /\ seen[t] # NotStarted
           /\ Path(t) \in Seq(Components) /\ Target(t) \in Seq(Components)
           /\ seen[t] \in [Places -> Contents]
<1>1. IInv /\ Told(t) /\ FoundAt(t) /\ TypeOK /\ work[t] \in Works
  BY DEF RInv, IInv, Steps, TypeOK
<1>2. call[t] \in Calls /\ ~Unsupported(call[t].op)
  BY <1>1, ServesWith
<1>3. pc[t] \notin {"idle", "enter", "leave"}
  BY DEF Serves
<1>4. /\ result[t] = "running" /\ seen[t] # NotStarted
      /\ call[t].op \in MethodsAt(pc[t])
  BY <1>1, <1>3 DEF Told, CourseAt
<1>5. seen[t] \in [Places -> Contents]
  BY <1>1, <1>4 DEF TypeOK
<1>6. QED
  BY <1>1, <1>2, <1>4, <1>5, PathTyped

LEMMA GoesOn ==
    ASSUME RInv, NEW t \in Tasks, Serves(t),
           NEW label \in Labels \ {"idle", "enter"}, NEW v, NEW w, Goto(t, label, v, w),
           label = "leave" \/ call[t].op \in MethodsAt(label)
    PROVE  /\ pc'[t] = label /\ volume' = v /\ work'[t] = w
           /\ call'[t] = call[t] /\ Path(t)' = Path(t) /\ Target(t)' = Target(t)
           /\ seen'[t] = seen[t] /\ Flash' = Flash /\ kind' = kind
           /\ UNCHANGED <<call, result, seen, formats>>
           /\ CourseAt(t)'
<1>1. /\ pc'[t] = label /\ volume' = v /\ work'[t] = w
      /\ UNCHANGED <<kind, formats, call, result, seen>>
  BY ServingTold DEF Goto, TypeOK
<1>2. /\ Path(t)' = Path(t) /\ Target(t)' = Target(t) /\ Flash' = Flash
      /\ Unsupported(call[t].op)' = Unsupported(call[t].op)
  BY <1>1 DEF Path, Target, Resolve, Flash, Unsupported
<1>3. CourseAt(t)'
  BY <1>1, <1>2, ServingTold DEF CourseAt
<1>4. QED
  BY <1>1, <1>2, <1>3
\* A file that has the start of another, and one piece more of it.
LEMMA OneMore ==
    ASSUME NEW s \in Seq(Chunks), NEW u \in Seq(Chunks), IsPrefix(s, u)
    PROVE  /\ Len(u) - Len(s) > 0 => IsPrefix(Append(s, u[Len(s) + 1]), u)
           /\ Len(u) - Len(s) = 0 => s = u
<1>1. /\ Len(s) \in Nat /\ Len(u) \in Nat
      /\ Len(s) <= Len(u) /\ \A i \in 1 .. Len(s) : s[i] = u[i]
  BY PrefixIs, LenProperties
<1>2. ASSUME Len(u) - Len(s) > 0 PROVE IsPrefix(Append(s, u[Len(s) + 1]), u)
  <2>1. Len(s) + 1 \in 1 .. Len(u)
    BY <1>1, <1>2
  <2>2. u[Len(s) + 1] \in Chunks
    BY <2>1, ElementOfSeq
  <2>3. PICK more \in Seq(Chunks) : more = Append(s, u[Len(s) + 1])
    BY <2>2, AppendProperties
  <2>4. /\ Len(more) = Len(s) + 1
        /\ \A i \in 1 .. Len(s) + 1 : more[i] = IF i = Len(s) + 1 THEN u[Len(s) + 1] ELSE s[i]
    BY <2>2, <2>3, AppendProperties
  <2>5. \A i \in 1 .. Len(more) : more[i] = u[i]
    BY <1>1, <2>4
  <2>6. Len(more) <= Len(u)
    BY <2>1, <2>4
  <2>7. IsPrefix(more, u)
    BY <2>5, <2>6, PrefixIs
  <2>8. QED
    BY <2>3, <2>7
<1>3. Len(u) - Len(s) = 0 => s = u
  BY <1>1, SeqEqual
<1>4. QED
  BY <1>2, <1>3

LEMMA CopyTold ==
    ASSUME RInv, NEW t \in Tasks,
           \/ CopyOpenSource(t) \/ CopyOpenDestination(t) \/ CopyChunk(t)
           \/ CopyReadFails(t) \/ CopyEnd(t) \/ CopyCleanup(t)
    PROVE  Within(t) /\ Told(t)'
<1> DEFINE p == Path(t)
           new == Target(t)
<1>1. pc[t] \in CopySteps /\ Serves(t)
  BY DEF CopyOpenSource, CopyOpenDestination, CopyChunk, CopyReadFails, CopyEnd, CopyCleanup,
         At, CopySteps, Serves
<1>2. /\ TypeOK /\ CopyAt(t) /\ FoundAt(t) /\ call[t] \in Calls /\ call[t].op = "copy"
      /\ work[t] \in Works /\ seen[t] \in [Places -> Contents]
  BY <1>1, ServingTold DEF IInv, Steps, PlacedAt, Told
<1>3. ASSUME NEW label \in {"copy_open", "copy_chunk", "copy_cleanup", "leave"}, NEW v, NEW w,
             Goto(t, label, v, w), mounted' = mounted,
             \A q \in Places : q # new => v[q] = volume[q],
             p # new =>
                /\ label = "copy_open" => \A q \in {p, new} \cap Places : v[q] = seen[t][q]
                /\ label = "copy_chunk" => v[p] = seen[t][p] /\ IsPrefix(v[new], v[p])
                /\ label = "leave" /\ ~lost' =>
                     IF w.ok THEN new \in Places /\ v[new] = seen[t][p]
                     ELSE new \in Places => v[new] \in {seen[t][new], Absent}
      PROVE  Within(t) /\ Told(t)'
  <2>1. /\ pc'[t] = label /\ volume' = v /\ work'[t] = w
        /\ call'[t] = call[t] /\ Path(t)' = p /\ Target(t)' = new /\ seen'[t] = seen[t]
        /\ UNCHANGED <<call, result, seen, formats>> /\ CourseAt(t)'
    <3>1. label \in Labels \ {"idle", "enter"}
      BY <1>3 DEF Labels
    <3>2. label = "leave" \/ call[t].op \in MethodsAt(label)
      BY <1>2, <1>3 DEF MethodsAt, CopySteps
    <3>3. QED
      BY <1>1, <1>3, <3>1, <3>2, GoesOn
  <2>2. CopyAt(t)'
    BY <1>3, <2>1 DEF CopyAt
  <2>3. RenameAt(t)' /\ FileAt(t)' /\ RecursionAt(t)' /\ FormatAt(t)'
    BY <1>2, <2>1 DEF RenameAt, FileAt, RecursionAt, FormatAt
  <2>4. Within(t)
    BY <1>2, <1>3, <2>1, ScopeIs DEF Within, Contract!MakingCalls
  <2>5. QED
    BY <2>1, <2>2, <2>3, <2>4 DEF Told
<1>4. /\ IsFile(p) => p \in Places /\ volume[p] \in Seq(Chunks)
      /\ IsFile(new) => new \in Places /\ volume[new] \in Seq(Chunks)
  BY <1>2, HoldsTyped
<1>5. [work[t] EXCEPT !.ok = TRUE].ok /\ ~[work[t] EXCEPT !.ok = FALSE].ok
  BY <1>2 DEF Works
<1>6. CASE CopyOpenSource(t)
  BY <1>2, <1>3, <1>5, <1>6 DEF CopyOpenSource, Same, Ends, CopyAt, At
<1>7. CASE CopyOpenDestination(t)
  <2>1. IsFile(p)
    BY <1>2, <1>7 DEF FoundAt, CopyOpenDestination, At
  <2>2. CASE HasParent(new) /\ Goto(t, "copy_chunk", With(new, <<>>), work[t])
    <3>1. new \in Places /\ <<>> \in Seq(Chunks)
      BY <2>2 DEF HasParent
    <3>2. /\ \A q \in Places : q # new => With(new, <<>>)[q] = volume[q]
          /\ With(new, <<>>)[new] = <<>>
      BY <1>2, <3>1 DEF With, TypeOK
    <3>3. IsPrefix(<<>>, volume[p])
      <4>1. <<>> \in Seq(Chunks) /\ Len(<<>>) = 0 /\ Len(volume[p]) \in Nat
        BY <1>4, <2>1, LenProperties
      <4>2. Len(<<>>) <= Len(volume[p]) /\ \A i \in 1 .. Len(<<>>) : <<>>[i] = volume[p][i]
        BY <4>1
      <4>3. volume[p] \in Seq(Chunks)
        BY <1>4, <2>1
      <4>4. PICK e \in Seq(Chunks) : e = <<>>
        BY <4>1, Zenon
      <4>5. QED
        BY <4>2, <4>3, <4>4, PrefixIs
    <3>4. p # new => With(new, <<>>)[p] = seen[t][p]
      BY <1>2, <1>4, <1>7, <2>1, <3>2 DEF CopyAt, CopyOpenDestination, At
    <3>5. QED
      BY <1>3, <1>4, <1>7, <2>1, <2>2, <3>2, <3>3, <3>4 DEF CopyOpenDestination, Same
  <2>3. CASE Ends(t, FALSE, volume)
    BY <1>2, <1>3, <1>5, <1>7, <2>3 DEF CopyOpenDestination, Same, Ends, CopyAt, At
  <2>4. QED
    BY <1>7, <2>2, <2>3 DEF CopyOpenDestination
<1>8. ASSUME pc[t] = "copy_chunk", p # new
      PROVE  /\ p \in Places /\ new \in Places
             /\ volume[p] \in Seq(Chunks) /\ volume[new] \in Seq(Chunks)
             /\ volume[p] = seen[t][p] /\ IsPrefix(volume[new], volume[p])
  BY <1>2, <1>4, <1>8 DEF FoundAt, CopyAt
<1>9. CASE CopyChunk(t)
  <2> DEFINE more == Append(volume[new], volume[p][Len(volume[new]) + 1])
  <2>1. IsFile(new) /\ new \in Places
    BY <1>2, <1>4, <1>9 DEF CopyChunk, At, FoundAt
  <2>2. CASE Goto(t, "copy_chunk", With(new, more), work[t])
    <3>1. /\ \A q \in Places : q # new => With(new, more)[q] = volume[q]
          /\ With(new, more)[new] = more
      BY <1>2, <2>1 DEF With, TypeOK
    <3>2. p # new => IsPrefix(more, volume[p])
      BY <1>8, <1>9, OneMore DEF CopyChunk, At, Remaining
    <3> HIDE DEF more
    <3>3. QED
      BY <1>3, <1>8, <1>9, <2>2, <3>1, <3>2 DEF CopyChunk, At, Same
  <2>3. CASE Goto(t, "copy_cleanup", volume, work[t])
    BY <1>3, <1>9, <2>3 DEF CopyChunk, Same
  <2>4. QED
    BY <1>9, <2>2, <2>3 DEF CopyChunk
<1>10. CASE CopyReadFails(t)
  BY <1>3, <1>10 DEF CopyReadFails, Ends
<1>11. CASE CopyEnd(t)
  <2>1. CASE Ends(t, TRUE, volume)
    <3>1. p # new => volume[new] = volume[p]
      BY <1>8, <1>11, OneMore DEF CopyEnd, At, Remaining
    <3>2. QED
      BY <1>3, <1>5, <1>8, <1>11, <2>1, <3>1 DEF CopyEnd, At, Ends
  <2>2. CASE Ends(t, TRUE, With(new, Front(volume[new]))) /\ lost' = TRUE
    <3>1. \A q \in Places : q # new => With(new, Front(volume[new]))[q] = volume[q]
      BY <1>2 DEF With, TypeOK
    <3>2. QED
      BY <1>3, <1>11, <2>2, <3>1 DEF CopyEnd, Ends
  <2>3. QED
    BY <1>11, <2>1, <2>2 DEF CopyEnd
<1>12. CASE CopyCleanup(t)
  <2>1. CASE Ends(t, FALSE, With(new, Absent))
    <3>1. /\ \A q \in Places : q # new => With(new, Absent)[q] = volume[q]
          /\ new \in Places => With(new, Absent)[new] = Absent
      BY <1>2 DEF With, TypeOK
    <3>2. QED
      BY <1>3, <1>5, <1>12, <2>1, <3>1 DEF CopyCleanup, Ends
  <2>2. CASE Ends(t, FALSE, volume) /\ lost' = TRUE
    BY <1>3, <1>12, <2>2 DEF CopyCleanup, Ends
  <2>3. QED
    BY <1>12, <2>1, <2>2 DEF CopyCleanup
<1>13. QED
  BY <1>6, <1>7, <1>9, <1>10, <1>11, <1>12
LEMMA PrefixSelf == ASSUME NEW S, NEW s \in Seq(S) PROVE IsPrefix(s, s)
BY PrefixIs, LenProperties

\* Of two starts of a path one is the start of the other.
LEMMA PrefixesMeet ==
    ASSUME NEW S, NEW s \in Seq(S), NEW u \in Seq(S), NEW q \in Seq(S),
           IsPrefix(s, q), IsPrefix(u, q)
    PROVE  IsPrefix(s, u) \/ IsPrefix(u, s)
<1>1. /\ Len(s) \in Nat /\ Len(u) \in Nat
      /\ \A i \in 1 .. Len(s) : s[i] = q[i]
      /\ \A i \in 1 .. Len(u) : u[i] = q[i]
  BY PrefixIs, LenProperties
<1>2. CASE Len(s) <= Len(u)
  BY <1>1, <1>2, PrefixIs
<1>3. CASE Len(u) <= Len(s)
  BY <1>1, <1>3, PrefixIs
<1>4. QED
  BY <1>1, <1>2, <1>3

LEMMA UnderSelf ==
    ASSUME NEW S, NEW p \in Seq(S), NEW new \in Seq(S)
    PROVE  Under(p, p, new) = new
<1>1. IsPrefix(p, p) /\ Len(p) \in Nat /\ Len(new) \in Nat
  BY PrefixSelf, LenProperties
<1>2. /\ Under(p, p, new) \in Seq(S)
      /\ Len(Under(p, p, new)) = Len(new) + (Len(p) - Len(p))
      /\ \A i \in 1 .. Len(Under(p, p, new)) :
            Under(p, p, new)[i] = IF i <= Len(new) THEN new[i] ELSE p[Len(p) + (i - Len(new))]
  BY <1>1, UnderIs
<1>3. Len(Under(p, p, new)) = Len(new)
  BY <1>1, <1>2
<1>4. \A i \in 1 .. Len(new) : Under(p, p, new)[i] = new[i]
  BY <1>1, <1>2, <1>3
<1>5. QED
  BY <1>2, <1>3, <1>4, SeqEqual

\* The whole tree, and nothing else.
LEMMA MovedIs ==
    ASSUME TypeOK, FlatIsFlat, NEW p \in Places, NEW new \in Places
    PROVE  /\ \A q \in Places : ~IsPrefix(p, q) /\ ~IsPrefix(new, q) =>
                 Moved(p, new)[q] = volume[q]
           /\ volume[p] # Absent /\ Replaceable(p, new) /\ ~IsPrefix(p, new) =>
                 \A q \in Contract!Tree(p, volume) :
                    /\ Moved(p, new)[q] = Absent
                    /\ Under(q, p, new) \in Places =>
                         Moved(p, new)[Under(q, p, new)] = volume[q]
<1>1. /\ p \in Seq(Components) /\ p # <<>> /\ IsPrefix(p, p)
      /\ new \in Seq(Components) /\ new # <<>> /\ IsPrefix(new, new)
  BY PlaceTyped, PrefixSelf
<1>2. ASSUME NEW q \in Places, ~IsPrefix(p, q), ~IsPrefix(new, q)
      PROVE  Moved(p, new)[q] = volume[q]
  BY <1>1, <1>2 DEF Moved, TypeOK
<1>3. ASSUME volume[p] # Absent, Replaceable(p, new), ~IsPrefix(p, new),
             NEW q \in Contract!Tree(p, volume)
      PROVE  /\ Moved(p, new)[q] = Absent
             /\ Under(q, p, new) \in Places => Moved(p, new)[Under(q, p, new)] = volume[q]
  <2>1. q \in Places /\ q \in Seq(Components) /\ IsPrefix(p, q) /\ (q = p \/ volume[p] = Directory)
    <3>1. q \in Below(p) /\ (q = p \/ volume[p] = Directory)
      BY SameBelow
    <3>2. QED
      BY <3>1, PlaceTyped DEF Below
  <2>2. p # new
    BY <1>1, <1>3
  <2>3. CASE kind = "spiffs"
    <3>1. q = p /\ Under(q, p, new) = new
      BY <1>1, <2>1, <2>3, UnderSelf DEF FlatIsFlat
    <3>2. QED
      BY <2>2, <2>3, <3>1 DEF Moved, TypeOK
  <2>4. CASE kind # "spiffs"
    <3>1. ~IsPrefix(new, p)
      <4>1. SUFFICES ASSUME IsPrefix(new, p) PROVE FALSE
        OBVIOUS
      <4>2. volume[new] = Directory
        BY <1>1, <1>3, <2>2, <2>4, <4>1, DirectoryAbove
      <4>3. Holds(new) = Directory /\ ~IsFile(new) /\ Exists(new)
        BY <4>2, HoldsTyped, ContentsDiffer DEF IsFile, Exists
      <4>4. QED
        BY <1>3, <2>2, <4>3 DEF Replaceable
    <3>2. ~IsPrefix(new, q)
      BY <1>1, <1>3, <2>1, <3>1, PrefixesMeet
    <3>3. Moved(p, new)[q] = Absent
      BY <2>1, <2>4, <3>2 DEF Moved
    <3>4. IsPrefix(new, Under(q, p, new)) /\ Under(Under(q, p, new), new, p) = q
      BY <1>1, <2>1, UnderBack
    <3>5. Holds(q) = volume[q]
      BY <2>1, HoldsTyped
    <3>6. \A r \in Places : IsPrefix(new, r) => Moved(p, new)[r] = Holds(Under(r, new, p))
      BY <2>4 DEF Moved, Under
    <3>7. QED
      BY <3>3, <3>4, <3>5, <3>6
  <2>5. QED
    BY <2>3, <2>4
<1>4. QED
  BY <1>2, <1>3

LEMMA RenameTold ==
    ASSUME RInv, RenamesFit, NEW t \in Tasks, RenameClears(t) \/ RenameMoves(t)
    PROVE  Within(t) /\ Told(t)'
<1> DEFINE p == Path(t)
           new == Target(t)
<1>1. pc[t] \in {"rename", "rename_move"} /\ Serves(t)
  BY DEF RenameClears, RenameMoves, At, Serves, Flash
<1>2. /\ TypeOK /\ RenameAt(t) /\ call[t] \in Calls /\ call[t].op = "rename" /\ FlatIsFlat
      /\ work[t] \in Works /\ seen[t] \in [Places -> Contents]
      /\ p \in Seq(Components) /\ new \in Seq(Components)
  BY <1>1, ServingTold DEF Told, RInv, MethodsAt, CopySteps
<1>3. ASSUME NEW label \in {"rename_move", "leave"}, NEW v, NEW w,
             Goto(t, label, v, w), mounted' = mounted,
             \A q \in Places : ~IsPrefix(p, q) /\ ~IsPrefix(new, q) => v[q] = volume[q],
             p # new =>
                /\ (label = "rename_move" \/ ~w.ok) /\ p \in Places => v[p] = seen[t][p]
                /\ label = "rename_move" =>
                     (~IsPrefix(p, new) => \A q \in Below(p) : v[q] = seen[t][q])
                /\ label = "leave" /\ w.ok =>
                     \A q \in Contract!Tree(p, seen[t]) :
                        /\ v[q] = Absent
                        /\ Under(q, p, new) \in Places /\ v[Under(q, p, new)] = seen[t][q]
      PROVE  Within(t) /\ Told(t)'
  <2>1. /\ pc'[t] = label /\ volume' = v /\ work'[t] = w
        /\ call'[t] = call[t] /\ Path(t)' = p /\ Target(t)' = new /\ seen'[t] = seen[t]
        /\ UNCHANGED <<call, result, seen, formats>> /\ CourseAt(t)'
    <3>1. label \in Labels \ {"idle", "enter"}
      BY <1>3 DEF Labels
    <3>2. label = "leave" \/ call[t].op \in MethodsAt(label)
      BY <1>2, <1>3 DEF MethodsAt, CopySteps
    <3>3. QED
      BY <1>1, <1>3, <3>1, <3>2, GoesOn
  <2>2. \A q : Contract!Renamed(q, p, new) = Under(q, p, new)
    BY SameBelow
  <2>3. RenameAt(t)'
    BY <1>3, <2>1, <2>2 DEF RenameAt
  <2>4. CopyAt(t)' /\ FileAt(t)' /\ RecursionAt(t)' /\ FormatAt(t)'
    BY <1>2, <2>1 DEF CopyAt, FileAt, RecursionAt, FormatAt
  <2>5. Within(t)
    BY <1>2, <1>3, <2>1, ScopeIs DEF Within, Contract!MakingCalls, Contract!MountCalls, Below
  <2>6. QED
    BY <2>1, <2>3, <2>4, <2>5 DEF Told
<1>4. [work[t] EXCEPT !.ok = TRUE].ok /\ ~[work[t] EXCEPT !.ok = FALSE].ok
  BY <1>2 DEF Works
<1>5. IsPrefix(new, new)
  BY <1>2, PrefixSelf
<1>6. CASE RenameClears(t)
  <2>1. \A q \in Places : q # new => Without({new})[q] = volume[q]
    BY DEF Without
  <2>2. pc[t] = "rename"
    BY <1>6 DEF RenameClears, At
  <2>3. PICK v \in {Without({new}), volume} :
           Goto(t, "rename_move", v, work[t]) /\ mounted' = mounted
    BY <1>6 DEF RenameClears, Same
  <2>4. \A q \in Places : q # new => v[q] = volume[q]
    BY <2>1, <2>3
  <2>5. QED
    BY <1>2, <1>3, <1>5, <2>2, <2>3, <2>4 DEF RenameAt, Below
<1>7. CASE RenameMoves(t)
  <2>1. CASE Ends(t, FALSE, volume)
    BY <1>1, <1>2, <1>3, <1>4, <1>7, <2>1 DEF RenameMoves, Decides, Same, Ends, RenameAt
  <2>2. CASE /\ p # <<>> /\ Exists(p) /\ HasParent(new) /\ Replaceable(p, new)
             /\ IsPrefix(p, new) => p = new
             /\ Ends(t, TRUE, Moved(p, new))
    <3>1. p \in Places /\ new \in Places /\ volume[p] # Absent
      BY <1>2, <2>2, HoldsTyped DEF Exists, HasParent
    <3>2. \A q \in Places : ~IsPrefix(p, q) /\ ~IsPrefix(new, q) =>
             Moved(p, new)[q] = volume[q]
      BY <1>2, <3>1, MovedIs
    <3>3. ASSUME p # new, NEW q \in Contract!Tree(p, seen[t])
          PROVE  /\ Moved(p, new)[q] = Absent
                 /\ Under(q, p, new) \in Places
                 /\ Moved(p, new)[Under(q, p, new)] = seen[t][q]
      <4>1. /\ \A r \in Below(p) : volume[r] = seen[t][r]
            /\ volume[p] = seen[t][p] /\ ~IsPrefix(p, new)
        BY <1>1, <1>2, <2>2, <3>1, <3>3 DEF RenameAt
      <4>2. q \in Contract!Tree(p, volume) /\ q \in Below(p)
        BY <3>1, <4>1, SameBelow
      <4>3. Under(q, p, new) \in Places
        <5>1. p \in Readings(call[t].path) /\ new \in Readings(call[t].to)
          BY <1>2, PathTyped
        <5>2. Contract!Renamed(q, p, new) \in Places
          BY <1>2, <4>1, <4>2, <5>1 DEF RenamesFit
        <5>3. QED
          BY <5>2, SameBelow
      <4>4. Moved(p, new)[q] = Absent /\ Moved(p, new)[Under(q, p, new)] = volume[q]
        BY <1>2, <2>2, <3>1, <4>1, <4>2, <4>3, MovedIs
      <4>5. QED
        BY <4>1, <4>2, <4>3, <4>4
    <3>4. QED
      BY <1>3, <1>4, <1>7, <2>2, <3>2, <3>3 DEF RenameMoves, Decides, Same, Ends
  <2>3. QED
    BY <1>7, <2>1, <2>2 DEF RenameMoves, Decides
<1>8. QED
  BY <1>6, <1>7
LEMMA FileTold ==
    ASSUME RInv, NEW t \in Tasks, DeleteFile(t) \/ CreateDirectory(t) \/ HashFile(t)
    PROVE  Within(t) /\ Told(t)'
<1> DEFINE p == Path(t)
<1>1. pc[t] \in {"delete", "mkdir", "read"} /\ Serves(t)
  BY DEF DeleteFile, CreateDirectory, HashFile, At, Serves
<1>2. /\ TypeOK /\ call[t] \in Calls /\ call[t].op = pc[t] /\ work[t] \in Works
  BY <1>1, ServingTold DEF MethodsAt, CopySteps
<1>3. ASSUME NEW ok \in BOOLEAN, NEW v, Ends(t, ok, v), mounted' = mounted,
             \A q \in Places : q # p \/ pc[t] = "read" => v[q] = volume[q],
             \A q \in Places : pc[t] # "mkdir" => v[q] \in {volume[q], Absent},
             ok /\ pc[t] = "delete" => p \in Places /\ v[p] = Absent,
             ok /\ pc[t] = "mkdir" /\ p \in Places =>
                IF Flash THEN v[p] # Absent ELSE v[p] = Directory
      PROVE  Within(t) /\ Told(t)'
  <2>1. /\ pc'[t] = "leave" /\ volume' = v /\ work'[t].ok = ok
        /\ call'[t] = call[t] /\ Path(t)' = p /\ Flash' = Flash
        /\ UNCHANGED <<call, result, seen, formats>> /\ CourseAt(t)'
    <3>1. Goto(t, "leave", v, [work[t] EXCEPT !.ok = ok]) /\ "leave" \in Labels \ {"idle", "enter"}
      BY <1>3 DEF Ends, Labels
    <3>2. [work[t] EXCEPT !.ok = ok].ok = ok
      BY <1>2 DEF Works
    <3> DEFINE w == [work[t] EXCEPT !.ok = ok]
    <3> HIDE DEF w
    <3>3. /\ pc'[t] = "leave" /\ volume' = v /\ work'[t] = w
          /\ call'[t] = call[t] /\ Path(t)' = p /\ Flash' = Flash
          /\ UNCHANGED <<call, result, seen, formats>> /\ CourseAt(t)'
      BY <1>1, <3>1, GoesOn DEF w
    <3>4. QED
      BY <3>2, <3>3 DEF w
  <2>2. FileAt(t)'
    BY <1>2, <1>3, <2>1 DEF FileAt
  <2>3. CopyAt(t)' /\ RenameAt(t)' /\ RecursionAt(t)' /\ FormatAt(t)'
    BY <1>1, <1>2, <2>1 DEF CopyAt, RenameAt, RecursionAt, FormatAt
  <2>4. call[t].op # "read" => Contract!Scope(Asked[t]) = {p}
    BY <1>1, <1>2, ScopeIs
  <2>5. Within(t)
    BY <1>1, <1>2, <1>3, <2>1, <2>4 DEF Within, Contract!MakingCalls, Contract!MountCalls
  <2>6. QED
    BY <2>1, <2>2, <2>3, <2>5 DEF Told
<1>4. CASE DeleteFile(t)
  <2> DEFINE can == \/ IsFile(p)
                    \/ IsEmptyDirectory(p) /\ kind \in {"littlefs", "flashfat"}
  <2>1. can => p \in Places
    BY <1>2, HoldsTyped, ContentsDiffer DEF IsEmptyDirectory
  <2>2. \/ Ends(t, FALSE, volume)
        \/ p \in Places /\ Ends(t, TRUE, Without({p}))
    BY <1>4, <2>1 DEF DeleteFile, Decides
  <2>3. mounted' = mounted /\ pc[t] = "delete"
    BY <1>4 DEF DeleteFile, Decides, Same, At
  <2>4. /\ \A q \in Places : q # p => Without({p})[q] = volume[q]
        /\ p \in Places => Without({p})[p] = Absent
    BY DEF Without
  <2>5. CASE Ends(t, FALSE, volume)
    BY <1>3, <2>3, <2>5
  <2>6. CASE p \in Places /\ Ends(t, TRUE, Without({p}))
    BY <1>3, <2>3, <2>4, <2>6
  <2>7. QED
    BY <2>2, <2>5, <2>6
<1>5. CASE CreateDirectory(t)
  <2>1. pc[t] = "mkdir" /\ mounted' = mounted
    BY <1>5 DEF CreateDirectory, Decides, Same, At
  <2>2. CASE Exists(p)
    <3>1. PICK ok \in BOOLEAN : ok = (Flash \/ ~IsFile(p))
      BY DEF Flash, IsFile, Exists
    <3>2. Ends(t, ok, volume)
      BY <1>5, <2>2, <3>1 DEF CreateDirectory
    <3>3. p \in Places => volume[p] # Absent /\ (~IsFile(p) => volume[p] = Directory)
      BY <1>2, <2>2, HoldsTyped DEF Exists, IsFile
    <3>4. QED
      BY <1>3, <2>1, <3>1, <3>2, <3>3
  <2>3. CASE ~Exists(p)
    <3>1. Ends(t, FALSE, volume) \/ Ends(t, TRUE, With(p, Directory))
      BY <1>5, <2>3 DEF CreateDirectory, Decides
    <3>2. /\ \A q \in Places : q # p => With(p, Directory)[q] = volume[q]
          /\ p \in Places => With(p, Directory)[p] = Directory
      BY <1>2 DEF With, TypeOK
    <3>3. CASE Ends(t, FALSE, volume)
      BY <1>3, <2>1, <3>3
    <3>4. CASE Ends(t, TRUE, With(p, Directory))
      BY <1>3, <2>1, <3>2, <3>4, ContentsDiffer
    <3>5. QED
      BY <3>1, <3>3, <3>4
  <2>4. QED
    BY <2>2, <2>3
<1>6. CASE HashFile(t)
  <2>1. IsFile(p) \in BOOLEAN /\ (~Flash) \in BOOLEAN
    BY DEF Flash, IsFile, Exists
  <2>2. PICK ok \in BOOLEAN : Ends(t, ok, volume)
    BY <1>6, <2>1 DEF HashFile
  <2>3. mounted' = mounted /\ pc[t] = "read"
    BY <1>6 DEF HashFile, At
  <2>4. QED
    BY <1>3, <2>2, <2>3
<1>7. QED
  BY <1>4, <1>5, <1>6
LEMMA PrefixOfPrefix ==
    ASSUME NEW S, NEW s \in Seq(S), NEW u \in Seq(S), NEW q \in Seq(S),
           IsPrefix(s, u), IsPrefix(u, q)
    PROVE  IsPrefix(s, q)
<1>1. /\ Len(s) \in Nat /\ Len(u) \in Nat /\ Len(q) \in Nat
      /\ Len(s) <= Len(u) /\ \A i \in 1 .. Len(s) : s[i] = u[i]
  BY PrefixIs, LenProperties
<1>2. Len(u) <= Len(q) /\ \A i \in 1 .. Len(u) : u[i] = q[i]
  BY PrefixIs
<1>3. Len(s) <= Len(q) /\ \A i \in 1 .. Len(s) : s[i] = q[i]
  BY <1>1, <1>2
<1>4. QED
  BY <1>3, PrefixIs

LEMMA RecursionTold ==
    ASSUME RInv, NEW t \in Tasks, RecursiveOpens(t) \/ RemoveEntry(t) \/ DirectoryDone(t)
    PROVE  Within(t) /\ Told(t)'
<1> DEFINE p == Path(t)
           dirs == work[t].dirs
           inside(ds) == ds[Len(ds)] = p /\ \A i \in 1 .. Len(ds) : IsPrefix(p, ds[i])
<1>1. pc[t] \in {"recursive", "remove_next"} /\ Serves(t)
  BY DEF RecursiveOpens, RemoveEntry, DirectoryDone, At, Serves
<1>2. /\ TypeOK /\ call[t] \in Calls /\ call[t].op = "recursive" /\ kind # "spiffs"
      /\ RecursionAt(t) /\ FoundAt(t) /\ work[t] \in Works /\ dirs \in Seq(Places \cup {<<>>})
      /\ p \in Seq(Components)
  BY <1>1, ServingTold DEF MethodsAt, CopySteps, Unsupported, Told, Works
<1>3. ASSUME NEW label \in {"remove_next", "leave"}, NEW v, NEW w,
             Goto(t, label, v, w), mounted' = mounted,
             \A q \in Places : v[q] \in {volume[q], Absent},
             \A q \in Places : ~IsPrefix(p, q) => v[q] = volume[q],
             label = "remove_next" => inside(w.dirs),
             label = "leave" /\ w.ok => \A q \in Below(p) : v[q] = Absent
      PROVE  Within(t) /\ Told(t)'
  <2>1. /\ pc'[t] = label /\ volume' = v /\ work'[t] = w
        /\ call'[t] = call[t] /\ Path(t)' = p
        /\ UNCHANGED <<call, result, seen, formats>> /\ CourseAt(t)'
    <3>1. label \in Labels \ {"idle", "enter"}
      BY <1>3 DEF Labels
    <3>2. label = "leave" \/ call[t].op \in MethodsAt(label)
      BY <1>2, <1>3 DEF MethodsAt, CopySteps
    <3>3. QED
      BY <1>1, <1>3, <3>1, <3>2, GoesOn
  <2>2. RecursionAt(t)'
    BY <1>3, <2>1 DEF RecursionAt, Below
  <2>3. CopyAt(t)' /\ RenameAt(t)' /\ FileAt(t)' /\ FormatAt(t)'
    BY <1>2, <2>1 DEF CopyAt, RenameAt, FileAt, FormatAt
  <2>4. Contract!Scope(Asked[t]) = Below(p)
    BY <1>2, ScopeIs
  <2>5. Within(t)
    BY <1>2, <1>3, <2>1, <2>4 DEF Within, Contract!MakingCalls, Contract!MountCalls, Below
  <2>6. QED
    BY <2>1, <2>2, <2>3, <2>5 DEF Told
<1>4. ~[work[t] EXCEPT !.ok = FALSE].ok
  BY <1>2 DEF Works
<1>5. CASE RecursiveOpens(t)
  <2>1. CASE Goto(t, "remove_next", volume, [work[t] EXCEPT !.dirs = <<p>>])
    <3>1. /\ [work[t] EXCEPT !.dirs = <<p>>].dirs = <<p>>
          /\ inside(<<p>>)
      BY <1>2, PrefixSelf DEF Works
    <3>2. QED
      BY <1>3, <1>5, <2>1, <3>1 DEF RecursiveOpens, Same
  <2>2. CASE Ends(t, FALSE, volume)
    BY <1>3, <1>4, <1>5, <2>2 DEF RecursiveOpens, Same, Ends
  <2>3. QED
    BY <1>5, <2>1, <2>2 DEF RecursiveOpens
<1>6. ASSUME pc[t] = "remove_next"
      PROVE  /\ dirs # <<>> /\ inside(dirs) /\ Len(dirs) \in Nat \ {0}
             /\ Head(dirs) = dirs[1] /\ IsPrefix(p, Head(dirs))
             /\ Head(dirs) \in Seq(Components)
  <2>1. dirs # <<>> /\ inside(dirs)
    BY <1>2, <1>6 DEF FoundAt, RecursionAt
  <2>2. Len(dirs) \in Nat \ {0}
    BY <1>2, <2>1, EmptySeq
  <2>3. Head(dirs) = dirs[1] /\ dirs[1] \in Places \cup {<<>>}
    BY <1>2, <2>1, <2>2, ElementOfSeq
  <2>4. IsPrefix(p, dirs[1])
    BY <2>1, <2>2
  <2>5. dirs[1] \in Seq(Components)
    BY <2>3, PlaceTyped, EmptySeq
  <2>6. QED
    BY <2>1, <2>2, <2>3, <2>4, <2>5
<1>7. ASSUME NEW gone \in Places, IsPrefix(p, gone)
      PROVE  /\ \A q \in Places : Without({gone})[q] \in {volume[q], Absent}
             /\ \A q \in Places : ~IsPrefix(p, q) => Without({gone})[q] = volume[q]
  BY <1>7 DEF Without
<1>8. CASE RemoveEntry(t)
  <2>1. pc[t] = "remove_next" /\ mounted' = mounted
    BY <1>8 DEF RemoveEntry, At, Same
  <2>2. PICK q \in Left(t) :
          \/ Goto(t, "remove_next", Without({q}), Passes(t, q))
          \/ Goto(t, "remove_next", volume, [Passes(t, q) EXCEPT !.ok = FALSE])
          \/ Goto(t, "remove_next", volume, [Passes(t, q) EXCEPT !.dirs = <<q>> \o @])
    BY <1>8 DEF RemoveEntry
  <2>3. q \in Places /\ q \in Seq(Components) /\ IsPrefix(p, q)
    <3>1. q \in Places /\ IsPrefix(Head(dirs), q)
      BY <2>2 DEF Left, Entries
    <3>2. q \in Seq(Components)
      BY <3>1, PlaceTyped
    <3>3. IsPrefix(p, q)
      <4>1. IsPrefix(p, Head(dirs)) /\ Head(dirs) \in Seq(Components)
        BY <1>6, <2>1
      <4>2. QED
        BY <1>2, <3>1, <3>2, <4>1, PrefixOfPrefix
    <3>4. QED
      BY <3>1, <3>2, <3>3
  <2>4. /\ Passes(t, q).dirs = dirs
        /\ [Passes(t, q) EXCEPT !.ok = FALSE].dirs = dirs
        /\ [Passes(t, q) EXCEPT !.dirs = <<q>> \o @].dirs = <<q>> \o dirs
    BY <1>2 DEF Passes, Works
  <2>5. inside(dirs)
    BY <1>6, <2>1
  <2>6. inside(<<q>> \o dirs)
    <3> DEFINE ds == <<q>> \o dirs
    <3>1. <<q>> \in Seq(Places \cup {<<>>}) /\ Len(<<q>>) = 1 /\ <<q>>[1] = q
      BY <2>3
    <3>2. /\ Len(ds) = 1 + Len(dirs) /\ Len(dirs) \in Nat \ {0}
          /\ \A i \in 1 .. 1 + Len(dirs) : ds[i] = IF i <= 1 THEN q ELSE dirs[i - 1]
      <4>1. /\ Len(ds) = Len(<<q>>) + Len(dirs)
            /\ \A i \in 1 .. Len(<<q>>) + Len(dirs) :
                  ds[i] = IF i <= Len(<<q>>) THEN <<q>>[i] ELSE dirs[i - Len(<<q>>)]
        BY <1>2, <3>1, ConcatProperties
      <4>2. QED
        BY <1>6, <2>1, <3>1, <4>1
    <3> HIDE DEF ds
    <3>3. ds[Len(ds)] = p
      BY <2>5, <3>2
    <3>4. \A i \in 1 .. Len(ds) : IsPrefix(p, ds[i])
      BY <2>3, <2>5, <3>2
    <3>5. QED
      BY <3>3, <3>4 DEF ds
  <2> HIDE DEF inside
  <2>7. CASE Goto(t, "remove_next", Without({q}), Passes(t, q))
    BY <1>3, <1>7, <2>1, <2>3, <2>4, <2>5, <2>7
  <2>8. CASE Goto(t, "remove_next", volume, [Passes(t, q) EXCEPT !.ok = FALSE])
    BY <1>3, <2>1, <2>4, <2>5, <2>8
  <2>9. CASE Goto(t, "remove_next", volume, [Passes(t, q) EXCEPT !.dirs = <<q>> \o @])
    BY <1>3, <2>1, <2>4, <2>6, <2>9
  <2>10. QED
    BY <2>2, <2>7, <2>8, <2>9
<1>9. CASE DirectoryDone(t)
  <2> DEFINE outer == Tail(dirs)
             label == IF outer = <<>> THEN "leave" ELSE "remove_next"
             w(ok) == [work[t] EXCEPT !.dirs = outer, !.ok = ok]
  <2>1. pc[t] = "remove_next" /\ mounted' = mounted
    BY <1>9 DEF DirectoryDone, At, Same
  <2>2. \/ Goto(t, label, volume, w(FALSE))
        \/ /\ IsEmptyDirectory(Head(dirs))
           /\ Goto(t, label, Without({Head(dirs)}), w(work[t].ok))
    BY <1>9 DEF DirectoryDone
  <2>3. \A ok : w(ok).dirs = outer /\ w(ok).ok = ok
    BY <1>2 DEF Works
  <2>4. /\ outer \in Seq(Places \cup {<<>>}) /\ Len(outer) = Len(dirs) - 1
        /\ \A i \in 1 .. Len(outer) : outer[i] = dirs[i + 1]
    BY <1>2, <1>6, <2>1, HeadTailProperties
  <2>5. outer # <<>> => inside(outer)
    <3> SUFFICES ASSUME outer # <<>> PROVE inside(outer)
      OBVIOUS
    <3> HIDE DEF outer
    <3>1. Len(outer) \in Nat \ {0}
      BY <2>4, EmptySeq
    <3>2. Len(dirs) \in Nat /\ inside(dirs)
      BY <1>6, <2>1
    <3>3. outer[Len(outer)] = dirs[Len(dirs)]
      BY <2>4, <3>1, <3>2
    <3>4. ASSUME NEW i \in 1 .. Len(outer) PROVE IsPrefix(p, outer[i])
      <4>1. i + 1 \in 1 .. Len(dirs) /\ outer[i] = dirs[i + 1]
        BY <2>4, <3>1, <3>2
      <4>2. QED
        BY <3>2, <4>1
    <3>5. QED
      BY <3>2, <3>3, <3>4
  <2>6. outer = <<>> => Head(dirs) = p
    <3> SUFFICES ASSUME outer = <<>> PROVE Head(dirs) = p
      OBVIOUS
    <3> HIDE DEF outer
    <3>1. Len(outer) = 0
      BY EmptySeq
    <3>2. Len(dirs) = 1
      BY <1>6, <2>1, <2>4, <3>1
    <3>3. QED
      BY <1>6, <2>1, <3>2
  <2>7. CASE Goto(t, label, volume, w(FALSE))
    <3> HIDE DEF inside, w, outer
    <3>1. QED
      BY <1>3, <2>1, <2>3, <2>5, <2>7
  <2>8. CASE /\ IsEmptyDirectory(Head(dirs))
             /\ Goto(t, label, Without({Head(dirs)}), w(work[t].ok))
    <3>1. Head(dirs) \in Places /\ IsPrefix(p, Head(dirs)) /\ Entries(Head(dirs)) = {}
      BY <1>2, <1>6, <2>1, <2>8, HoldsTyped, ContentsDiffer DEF IsEmptyDirectory
    <3>2. ASSUME outer = <<>>, NEW q \in Below(p)
          PROVE  Without({Head(dirs)})[q] = Absent
      <4>1. q \in Places /\ IsPrefix(p, q)
        BY DEF Below
      <4>2. q # p => volume[q] = Absent
        BY <1>2, <2>6, <3>1, <3>2, <4>1, DirectoryAbove
      <4>3. QED
        BY <2>6, <3>2, <4>1, <4>2 DEF Without
    <3> HIDE DEF inside, w, outer
    <3>3. /\ \A q \in Places : Without({Head(dirs)})[q] \in {volume[q], Absent}
          /\ \A q \in Places : ~IsPrefix(p, q) => Without({Head(dirs)})[q] = volume[q]
      BY <1>7, <3>1
    <3>4. CASE outer = <<>>
      BY <1>3, <2>1, <2>8, <3>2, <3>3, <3>4
    <3>5. CASE outer # <<>>
      <4>1. inside(w(work[t].ok).dirs)
        BY <2>3, <2>5, <3>5
      <4>2. Goto(t, "remove_next", Without({Head(dirs)}), w(work[t].ok))
        BY <2>8, <3>5
      <4>3. QED
        BY <1>3, <2>1, <3>3, <4>1, <4>2
    <3>6. QED
      BY <3>4, <3>5
  <2>9. QED
    BY <2>2, <2>7, <2>8
<1>10. QED
  BY <1>5, <1>8, <1>9
LEMMA MountTold ==
    ASSUME RInv, NEW t \in Tasks, MountFlash(t) \/ MountCard(t) \/ CleanUp(t) \/ Unmount(t)
    PROVE  Within(t) /\ Told(t)'
<1>1. pc[t] \in {"mount", "format_mount", "clean_up", "unmount"} /\ Serves(t)
  BY DEF MountFlash, MountCard, CleanUp, Unmount, At, Serves
<1>2. /\ TypeOK /\ call[t] \in Calls /\ call[t].op \in MethodsAt(pc[t]) /\ FormatAt(t)
      /\ work[t] \in Works
  BY <1>1, ServingTold DEF Told
<1>3. ASSUME NEW label \in {"clean_up", "leave"}, NEW v, NEW w, Goto(t, label, v, w),
             \A q \in Places : v[q] \in {volume[q], Absent},
             \A q \in Places \ Contract!Scope(Asked[t]) : v[q] = volume[q],
             call[t].op \in {"mount", "unmount", "format"},
             label = "clean_up" => call[t].op \in {"mount", "format"},
             call[t].op = "format" => ~w.ok
      PROVE  Within(t) /\ Told(t)'
  <2>1. /\ pc'[t] = label /\ volume' = v /\ work'[t] = w /\ call'[t] = call[t]
        /\ UNCHANGED <<call, result, seen, formats>> /\ CourseAt(t)'
    <3>1. label \in Labels \ {"idle", "enter"}
      BY <1>3 DEF Labels
    <3>2. label = "leave" \/ call[t].op \in MethodsAt(label)
      BY <1>2, <1>3 DEF MethodsAt, CopySteps
    <3>3. QED
      BY <1>1, <1>3, <3>1, <3>2, GoesOn
  <2>2. FormatAt(t)'
    BY <1>3, <2>1 DEF FormatAt
  <2>3. CopyAt(t)' /\ RenameAt(t)' /\ FileAt(t)' /\ RecursionAt(t)'
    BY <1>3, <2>1 DEF CopyAt, RenameAt, FileAt, RecursionAt
  <2>4. Within(t)
    BY <1>3, <2>1 DEF Within, Contract!MountCalls
  <2>5. QED
    BY <2>1, <2>2, <2>3, <2>4 DEF Told
<1>4. \A ok \in BOOLEAN : [work[t] EXCEPT !.ok = ok].ok = ok
  BY <1>2 DEF Works
<1>5. CASE MountFlash(t)
  <2>1. call[t].op = "mount" /\ call[t].op # "format"
    BY <1>2, <1>5 DEF MountFlash, At, MethodsAt, CopySteps
  <2>2. formats => Contract!Scope(Asked[t]) = Places
    BY <1>2, <2>1, ScopeIs
  <2>3. \A q \in Places : Empty[q] = Absent
    BY DEF Empty
  <2>4. PICK ok \in BOOLEAN :
           \/ Goto(t, "leave", volume, [work[t] EXCEPT !.ok = ok])
           \/ formats /\ Goto(t, "leave", Empty, [work[t] EXCEPT !.ok = ok])
    BY <1>5 DEF MountFlash, Registers, Ends
  <2>5. QED
    BY <1>3, <2>1, <2>2, <2>3, <2>4
<1>6. CASE MountCard(t)
  <2>1. /\ pc[t] = "mount" => call[t].op = "mount" /\ call[t].op # "format"
        /\ pc[t] = "format_mount" => call[t].op = "format"
        /\ pc[t] \in {"mount", "format_mount"}
    BY <1>2, <1>6 DEF MountCard, MethodsAt, CopySteps
  <2>2. PICK ok \in BOOLEAN, label \in {"clean_up", "leave"} :
           /\ Goto(t, label, volume, [work[t] EXCEPT !.ok = ok])
           /\ pc[t] = "format_mount" => ~ok
    <3>1. (pc[t] # "format_mount") \in BOOLEAN
      OBVIOUS
    <3>2. PICK nested \in BOOLEAN : nested <=> pc[t] = "format_mount"
      OBVIOUS
    <3>3. nested = (pc[t] = "format_mount") /\ (~nested) \in BOOLEAN
      BY <3>2
    <3>4. \/ Goto(t, "leave", volume, [work[t] EXCEPT !.ok = ~nested])
          \/ Goto(t, "clean_up", volume, [work[t] EXCEPT !.ok = ~nested])
          \/ Goto(t, "leave", volume, [work[t] EXCEPT !.ok = FALSE])
      BY <1>6, <3>3 DEF MountCard, Ends, Registers
    <3>5. QED
      BY <3>2, <3>3, <3>4
  <2>3. QED
    BY <1>3, <1>4, <2>1, <2>2
<1>7. CASE CleanUp(t)
  <2> DEFINE v == IF vfs THEN Without({q \in Partials : IsFile(q)}) ELSE volume
  <2>1. pc[t] = "clean_up" /\ Goto(t, "leave", v, work[t])
    BY <1>7 DEF CleanUp, At
  <2>2. call[t].op \in {"mount", "format"} /\ (call[t].op = "format" => ~work[t].ok)
    BY <1>2, <2>1 DEF FormatAt, MethodsAt, CopySteps
  <2>3. \A q \in Places : v[q] \in {volume[q], Absent} /\ (q \notin Partials => v[q] = volume[q])
    BY DEF Without
  <2>4. Partials \subseteq Contract!Scope(Asked[t])
    BY <1>2, <2>2, ScopeIs, PlaceAssumption
  <2> HIDE DEF v
  <2>5. QED
    BY <1>3, <2>1, <2>2, <2>3, <2>4
<1>8. CASE Unmount(t)
  <2>1. call[t].op = "unmount"
    BY <1>2, <1>8 DEF Unmount, At, MethodsAt, CopySteps
  <2>2. PICK ok \in BOOLEAN : Goto(t, "leave", volume, [work[t] EXCEPT !.ok = ok])
    BY <1>8 DEF Unmount, Ends
  <2>3. QED
    BY <1>3, <2>1, <2>2
<1>9. QED
  BY <1>5, <1>6, <1>7, <1>8

LEMMA FormatTold ==
    ASSUME RInv, NEW t \in Tasks,
           \/ FormatUnregisters(t) \/ FormatErases(t) \/ FormatRemounts(t)
           \/ FormatCard(t) \/ FormatUnmounts(t)
    PROVE  Within(t) /\ Told(t)'
<1>1. /\ pc[t] \in {"format", "format_erase", "format_remount", "format_unmount"}
      /\ Serves(t)
  BY DEF FormatUnregisters, FormatErases, FormatRemounts, FormatCard, FormatUnmounts, At, Serves
<1>2. /\ TypeOK /\ call[t] \in Calls /\ call[t].op = "format" /\ FormatAt(t)
      /\ work[t] \in Works
  BY <1>1, ServingTold DEF Told, MethodsAt, CopySteps
<1>3. ASSUME NEW label \in {"format_erase", "format_remount", "format_unmount", "format_mount",
                            "leave"},
             NEW v \in {volume, Empty}, NEW w, Goto(t, label, v, w),
             label = "format_remount" \/ (label = "leave" /\ w.ok) =>
                \A q \in Places : v[q] = Absent
      PROVE  Within(t) /\ Told(t)'
  <2>1. /\ pc'[t] = label /\ volume' = v /\ work'[t] = w /\ call'[t] = call[t]
        /\ UNCHANGED <<call, result, seen, formats>> /\ CourseAt(t)'
    <3>1. label \in Labels \ {"idle", "enter"}
      BY <1>3 DEF Labels
    <3>2. label = "leave" \/ call[t].op \in MethodsAt(label)
      BY <1>2, <1>3 DEF MethodsAt, CopySteps
    <3>3. QED
      BY <1>1, <1>3, <3>1, <3>2, GoesOn
  <2>2. FormatAt(t)'
    BY <1>3, <2>1 DEF FormatAt
  <2>3. CopyAt(t)' /\ RenameAt(t)' /\ FileAt(t)' /\ RecursionAt(t)'
    BY <1>2, <2>1 DEF CopyAt, RenameAt, FileAt, RecursionAt
  <2>4. Contract!Scope(Asked[t]) = Places /\ \A q \in Places : v[q] \in {volume[q], Absent}
    BY <1>2, ScopeIs DEF Empty
  <2>5. Within(t)
    BY <1>2, <2>1, <2>4 DEF Within, Contract!MountCalls
  <2>6. QED
    BY <2>1, <2>2, <2>3, <2>5 DEF Told
<1>4. /\ \A ok \in BOOLEAN : [work[t] EXCEPT !.ok = ok].ok = ok
      /\ \A q \in Places : Empty[q] = Absent
  BY <1>2 DEF Works, Empty
<1>5. CASE FormatUnregisters(t)
  <2>1. \/ Goto(t, "format_erase", volume, [work[t] EXCEPT !.was = mounted])
        \/ Goto(t, "leave", volume, [work[t] EXCEPT !.ok = FALSE])
    BY <1>5 DEF FormatUnregisters, Ends
  <2>2. QED
    BY <1>3, <1>4, <2>1
<1>6. CASE FormatErases(t)
  <2>1. \/ Goto(t, "format_remount", Empty, work[t])
        \/ Goto(t, "leave", Empty, [work[t] EXCEPT !.ok = TRUE])
        \/ \E v \in {volume, Empty} : Goto(t, "leave", v, [work[t] EXCEPT !.ok = FALSE])
    BY <1>6 DEF FormatErases, Ends
  <2>2. QED
    BY <1>3, <1>4, <2>1
<1>7. CASE FormatRemounts(t)
  <2>1. \A q \in Places : volume[q] = Absent
    BY <1>2, <1>7 DEF FormatRemounts, At, FormatAt
  <2>2. PICK w : Goto(t, "leave", volume, w)
    BY <1>7 DEF FormatRemounts, Registers, Ends
  <2>3. QED
    BY <1>3, <2>1, <2>2
<1>8. CASE FormatCard(t)
  <2>1. \/ Goto(t, "leave", Empty, [work[t] EXCEPT !.ok = TRUE])
        \/ \E v \in {volume, Empty} : Goto(t, "format_unmount", v, work[t])
    BY <1>8 DEF FormatCard, Ends
  <2>2. QED
    BY <1>3, <1>4, <2>1
<1>9. CASE FormatUnmounts(t)
  BY <1>3, <1>9 DEF FormatUnmounts
<1>10. QED
  BY <1>5, <1>6, <1>7, <1>8, <1>9
LEMMA StepTold ==
    ASSUME RInv, RenamesFit, NEW t \in Tasks, Step(t), ~Enter(t), ~Leave(t)
    PROVE  Within(t) /\ Told(t)' /\ Serves(t) /\ Served(t)
BY CopyTold, RenameTold, FileTold, RecursionTold, MountTold, FormatTold, EveryStep
   DEF Step, RInv

LEMMA BeginTold ==
    ASSUME RInv, NEW t \in Tasks, Begin(t)
    PROVE  Told(t)'
<1>1. /\ TypeOK /\ CourseAt(t)
  BY DEF RInv, IInv, Told
<1>2. pc'[t] = "enter" /\ result'[t] = "running" /\ seen'[t] = NotStarted
  BY <1>1 DEF Begin, TypeOK, CourseAt
<1>3. QED
  BY <1>2 DEF Told, CourseAt, CopyAt, RenameAt, FileAt, RecursionAt, FormatAt

LEMMA LeaveTold ==
    ASSUME RInv, NEW t \in Tasks, Leave(t)
    PROVE  Told(t)'
<1>1. TypeOK
  BY DEF RInv, IInv
<1>2. pc'[t] = "idle" /\ result'[t] \in {"ok", "failed"} /\ seen'[t] = NotStarted
  BY <1>1 DEF Leave, Returns, TypeOK
<1>3. QED
  BY <1>2 DEF Told, CourseAt, CopyAt, RenameAt, FileAt, RecursionAt, FormatAt

LEMMA EnterTold ==
    ASSUME RInv, NEW t \in Tasks, Enter(t)
    PROVE  Told(t)'
<1> DEFINE op == call[t].op
           refused == Unsupported(op) \/ (NeedsMount(op) /\ ~mounted)
<1>1. /\ pc[t] = "enter" /\ TypeOK /\ CourseAt(t) /\ call[t] \in Calls
      /\ UNCHANGED <<kind, call, result, volume, lost>>
  BY DEF Enter, At, RInv, IInv, Steps, PlacedAt, Told, medium
<1>2. op \in Operations
  BY <1>1, CallsTyped
<1>3. seen'[t] = volume /\ volume # NotStarted /\ result[t] = "running"
  BY <1>1, VolumeAssumption DEF Enter, TypeOK, CourseAt
<1>4. /\ Path(t)' = Path(t) /\ Target(t)' = Target(t) /\ Flash' = Flash
      /\ Unsupported(op)' = Unsupported(op)
  BY <1>1 DEF Path, Target, Resolve, Flash, Unsupported
<1>5. \/ pc'[t] = op /\ ~Unsupported(op)
      \/ pc'[t] = "leave" /\ ~work'[t].ok
      \/ pc'[t] = "leave" /\ op = "mkdir" /\ ~Unsupported(op) /\ Path(t) = <<>>
  <2>1. CASE refused \/ (call[t].path = <<>> /\ op \in {"mkdir", "recursive"})
    <3>1. PICK ok \in BOOLEAN : ok = (~refused /\ op = "mkdir" /\ Flash)
      BY DEF Unsupported, Flash
    <3>2. /\ pc' = [pc EXCEPT ![t] = "leave"] /\ work' = [work EXCEPT ![t].ok = ok]
      BY <2>1, <3>1 DEF Enter
    <3>3. pc'[t] = "leave" /\ work'[t].ok = ok
      BY <1>1, <3>2 DEF TypeOK, Works
    <3>4. call[t].path = <<>> => Path(t) = <<>>
      BY DEF Path, Resolve
    <3>5. QED
      BY <2>1, <3>1, <3>3, <3>4
  <2>2. CASE ~(refused \/ (call[t].path = <<>> /\ op \in {"mkdir", "recursive"}))
    BY <1>1, <2>2 DEF Enter, TypeOK
  <2>3. QED
    BY <2>1, <2>2
<1>6. op \in MethodsAt(op)
  BY <1>2 DEF MethodsAt, Operations, CopySteps
<1>7. CourseAt(t)'
  BY <1>1, <1>2, <1>3, <1>4, <1>5, <1>6 DEF CourseAt, Operations
<1>8. Path(t) = <<>> => Path(t) \notin Places
  BY PlaceTyped
<1>9. CopyAt(t)' /\ RenameAt(t)'
  <2>1. op \in {"copy", "rename"} => pc'[t] = op \/ (pc'[t] = "leave" /\ ~work'[t].ok)
    BY <1>5
  <2>2. QED
    BY <1>1, <1>3, <1>4, <2>1 DEF CopyAt, RenameAt, Below
<1>10. FileAt(t)'
  <2>1. pc'[t] = "leave" /\ work'[t].ok => op = "mkdir" /\ Path(t) \notin Places
    BY <1>2, <1>5, <1>8 DEF Operations
  <2>2. QED
    BY <1>1, <1>4, <2>1 DEF FileAt
<1>11. RecursionAt(t)' /\ FormatAt(t)'
  <2>1. op \in {"recursive", "format"} => pc'[t] = op \/ (pc'[t] = "leave" /\ ~work'[t].ok)
    BY <1>5
  <2>2. QED
    BY <1>1, <2>1 DEF RecursionAt, FormatAt
<1>12. QED
  BY <1>7, <1>9, <1>10, <1>11 DEF Told

LEMMA FlatKept ==
    ASSUME RInv, RenamesFit, NEW t \in Tasks, Begin(t) \/ Step(t)
    PROVE  FlatIsFlat'
<1>1. TypeOK /\ IInv /\ FlatIsFlat /\ kind' = kind
  <2>1. TypeOK /\ IInv /\ FlatIsFlat
    BY DEF RInv, IInv
  <2>2. CASE Serves(t) /\ Step(t) /\ ~Enter(t) /\ ~Leave(t)
    BY <2>1, <2>2, StepTold DEF Served, Reaches, Goto
  <2>3. CASE Begin(t) \/ Enter(t) \/ Leave(t)
    BY <2>1, <2>3 DEF Begin, Enter, Leave, Returns
  <2>4. QED
    BY <2>1, <2>2, <2>3, EveryStep
<1> SUFFICES ASSUME kind = "spiffs", NEW q \in Places PROVE volume'[q] # Directory
  BY <1>1 DEF FlatIsFlat
<1>2. volume[q] # Directory
  BY <1>1 DEF FlatIsFlat
<1>3. CASE Begin(t) \/ Enter(t) \/ Leave(t)
  BY <1>2, <1>3 DEF Begin, Enter, Leave, Returns, medium
<1>4. CASE Step(t) /\ ~Enter(t) /\ ~Leave(t)
  <2>1. /\ Within(t) /\ Serves(t) /\ FoundAt(t)' /\ ~Unsupported(call[t].op)
        /\ call[t] \in Calls
    BY <1>1, <1>4, StepTold, ServesWith DEF Served
  <2>2. CASE call[t].op \notin Contract!MakingCalls
    BY <1>2, <2>1, <2>2, ContentsDiffer DEF Within
  <2>3. CASE call[t].op = "mkdir"
    BY <2>1, <2>3 DEF Unsupported
  <2>4. CASE RenameClears(t) \/ RenameMoves(t)
    <3>1. CASE RenameClears(t)
      BY <3>1 DEF RenameClears, Flash
    <3>2. CASE RenameMoves(t)
      <4>1. CASE volume' = volume
        BY <1>2, <4>1
      <4>2. CASE /\ Exists(Path(t)) /\ Path(t) # <<>> /\ HasParent(Target(t))
                 /\ volume' = Moved(Path(t), Target(t))
        <5>1. Path(t) \in Places /\ volume[Path(t)] # Directory
          BY <1>1, <4>2, HoldsTyped DEF Exists, FlatIsFlat
        <5>2. QED
          BY <1>1, <1>2, <4>2, <5>1, ContentsDiffer DEF Moved, TypeOK
      <4>3. QED
        BY <3>2, <4>1, <4>2 DEF RenameMoves, Decides, Ends, Goto
    <3>3. QED
      BY <2>4, <3>1, <3>2
  <2>5. CASE \/ CopyOpenSource(t) \/ CopyOpenDestination(t) \/ CopyChunk(t)
             \/ CopyReadFails(t) \/ CopyEnd(t) \/ CopyCleanup(t)
    <3> DEFINE new == Target(t)
    <3>1. CASE volume' = volume
      BY <1>2, <3>1
    <3>2. CASE \E x \in Seq(Chunks) \cup {Absent} : volume' = With(new, x)
      BY <1>1, <1>2, <3>2, ContentsDiffer DEF With, TypeOK, Contents
    <3>3. CASE pc'[t] = "copy_chunk" /\ \E x : volume' = With(new, x)
      <4>1. Target(t)' = new
        BY <1>1, <2>1 DEF Within, Target, Resolve, Flash
      <4>2. volume'[new] # Directory \/ new \notin Places
        BY <2>1, <3>3, <4>1, ContentsDiffer DEF FoundAt, IsFile, Exists, Holds
      <4>3. QED
        BY <1>1, <1>2, <3>3, <4>2 DEF With, TypeOK
    <3>4. QED
      <4>1. CASE CopyOpenSource(t) \/ CopyReadFails(t)
        BY <3>1, <4>1 DEF CopyOpenSource, CopyReadFails, Ends, Goto
      <4>2. CASE CopyOpenDestination(t) \/ CopyChunk(t)
        BY <1>1, <3>1, <3>3, <4>2
           DEF CopyOpenDestination, CopyChunk, Ends, Goto, TypeOK
      <4>3. CASE CopyEnd(t)
        <5>1. volume[new] \in Seq(Chunks)
          BY <1>1, <4>3, HoldsTyped DEF CopyEnd, At, IInv, Steps, FoundAt
        <5>2. volume[new] # <<>> => Front(volume[new]) \in Seq(Chunks)
          BY <5>1, FrontIs
        <5>3. QED
          BY <3>1, <3>2, <4>3, <5>2 DEF CopyEnd, Ends, Goto
      <4>4. CASE CopyCleanup(t)
        BY <3>1, <3>2, <4>4 DEF CopyCleanup, Ends, Goto
      <4>5. QED
        BY <2>5, <4>1, <4>2, <4>3, <4>4
  <2>6. \/ call[t].op \notin Contract!MakingCalls \/ call[t].op = "mkdir"
        \/ call[t].op \in {"copy", "rename"}
    BY DEF Contract!MakingCalls
  <2>7. call[t].op \in {"copy", "rename"} =>
           \/ RenameClears(t) \/ RenameMoves(t)
           \/ CopyOpenSource(t) \/ CopyOpenDestination(t) \/ CopyChunk(t)
           \/ CopyReadFails(t) \/ CopyEnd(t) \/ CopyCleanup(t)
    <3> SUFFICES ASSUME call[t].op \in {"copy", "rename"}
                 PROVE  pc[t] \in CopySteps \cup {"rename", "rename_move"}
      BY <1>4 DEF Step, CopySteps, At, DeleteFile, CreateDirectory, HashFile, RecursiveOpens,
                  RemoveEntry, DirectoryDone, MountFlash, MountCard, CleanUp, Unmount,
                  FormatUnregisters, FormatErases, FormatRemounts, FormatCard, FormatUnmounts
    <3>1. call[t].op \in MethodsAt(pc[t]) /\ pc[t] \in Labels
      BY <1>1, <2>1, ServingTold DEF TypeOK
    <3>2. QED
      BY <3>1 DEF MethodsAt, Labels, CopySteps
  <2>8. QED
    BY <2>2, <2>3, <2>4, <2>5, <2>6, <2>7
<1>5. QED
  BY <1>3, <1>4
LEMMA ToldKept ==
    CopiesNoPartial /\ RenamesNoPartial /\ RenamesFit /\ RInv /\ [Next]_vars => RInv'
<1> SUFFICES ASSUME CopiesNoPartial, RenamesNoPartial, RenamesFit, RInv, [Next]_vars
             PROVE  RInv'
  OBVIOUS
<1>1. IInv'
  BY Inductive DEF RInv
<1>2. CASE UNCHANGED vars
  <2>1. /\ UNCHANGED <<kind, volume, pc, call, result, work, seen, lost>>
        /\ \A t \in Tasks : Path(t)' = Path(t) /\ Target(t)' = Target(t)
        /\ Flash' = Flash /\ \A op : Unsupported(op)' = Unsupported(op)
    BY <1>2 DEF vars, medium, control, Path, Target, Resolve, Flash, Unsupported
  <2>2. FlatIsFlat'
    BY <2>1 DEF RInv, FlatIsFlat
  <2>3. ASSUME NEW t \in Tasks PROVE Told(t)'
    <3>1. Told(t)
      BY DEF RInv
    <3>2. CourseAt(t)' /\ FileAt(t)' /\ FormatAt(t)'
      BY <2>1, <3>1 DEF Told, CourseAt, FileAt, FormatAt
    <3>3. CopyAt(t)' /\ RenameAt(t)' /\ RecursionAt(t)'
      BY <2>1, <3>1 DEF Told, CopyAt, RenameAt, RecursionAt
    <3>4. QED
      BY <3>2, <3>3 DEF Told
  <2>4. QED
    BY <1>1, <2>2, <2>3 DEF RInv
<1>3. ASSUME NEW t \in Tasks, Begin(t) \/ Step(t) PROVE RInv'
  <2>1. FlatIsFlat'
    BY <1>3, FlatKept
  <2>2. Told(t)'
    BY <1>3, BeginTold, EnterTold, LeaveTold, StepTold
  <2>3. \A u \in Tasks : u # t => Told(u)'
    BY <1>3, OthersTold
  <2>4. QED
    BY <1>1, <2>1, <2>2, <2>3 DEF RInv
<1>4. QED
  BY <1>2, <1>3 DEF Next

LEMMA ToldFirst == Init => RInv
<1> SUFFICES ASSUME Init PROVE RInv
  OBVIOUS
<1>1. FlatIsFlat
  BY DEF Init, FlatIsFlat
<1>2. ASSUME NEW t \in Tasks PROVE Told(t)
  <2>1. pc[t] = "idle" /\ result[t] = "none" /\ seen[t] = NotStarted
    BY DEF Init
  <2>2. QED
    BY <2>1 DEF Told, CourseAt, CopyAt, RenameAt, FileAt, RecursionAt, FormatAt
<1>3. QED
  BY <1>1, <1>2, InitKeeps DEF RInv

-----------------------------------------------------------------------------
(***************************************************************************)
(* Every step is one of the contract's, or none.                           *)
(***************************************************************************)
\* A call that is over has the answer that the contract allows.
LEMMA AnswerIs ==
    ASSUME RInv, NEW t \in Tasks, pc[t] = "leave"
    PROVE  IF work[t].ok THEN Contract!Done(Asked[t], seen[t])
           ELSE Contract!NotDone(Asked[t], seen[t])
<1>1. Told(t) /\ call[t] \in Calls
  BY DEF RInv, IInv, Steps, PlacedAt
<1>2. Asked[t].op = call[t].op /\ Asked[t].path = Path(t) /\ Asked[t].to = Target(t)
  BY <1>1, AskedIs
<1>3. Contract!Below(Path(t)) = Below(Path(t))
  BY SameBelow
<1>4. CASE call[t].op = "copy"
  BY <1>1, <1>2, <1>4 DEF Told, CopyAt, Contract!Done, Contract!NotDone
<1>5. CASE call[t].op = "rename"
  BY <1>1, <1>2, <1>5 DEF Told, RenameAt, Contract!Done, Contract!NotDone
<1>6. CASE call[t].op \in {"delete", "mkdir"}
  BY <1>1, <1>2, <1>6, ContentsDiffer DEF Told, FileAt, Contract!Done, Contract!NotDone
<1>7. CASE call[t].op = "recursive"
  BY <1>1, <1>2, <1>3, <1>7 DEF Told, RecursionAt, Contract!Done, Contract!NotDone
<1>8. CASE call[t].op = "format"
  BY <1>1, <1>2, <1>8 DEF Told, FormatAt, Contract!Done, Contract!NotDone
<1>9. CASE call[t].op \notin {"copy", "rename", "delete", "mkdir", "recursive", "format"}
  BY <1>2, <1>9 DEF Contract!Done, Contract!NotDone
<1>10. QED
  BY <1>4, <1>5, <1>6, <1>7, <1>8, <1>9

LEMMA InitStarts == Init => Contract!Init
<1> SUFFICES ASSUME Init PROVE Contract!Init
  OBVIOUS
<1>1. /\ volume \in [Places -> Contents] /\ mounted \in BOOLEAN /\ formats \in BOOLEAN
  BY InitKeeps DEF IInv, TypeOK
<1>2. \A t \in Tasks : [call[t] EXCEPT !.path = Path(t), !.to = Target(t)] = NoCall
  BY DEF Init, NoCall, Path, Target, Resolve
<1>3. Asked = [t \in Tasks |-> NoCall]
  BY <1>2 DEF Asked
<1>4. QED
  BY <1>1, <1>3 DEF Contract!Init, Init, Asked

LEMMA BeginBegins ==
    ASSUME RInv, NEW t \in Tasks, Begin(t)
    PROVE  Contract!Begin(t)
<1>1. PICK c \in Calls : call' = [call EXCEPT ![t] = c]
  BY DEF Begin
<1>2. TypeOK /\ kind' = kind /\ call'[t] = c
  BY <1>1 DEF RInv, IInv, Begin, TypeOK
<1> DEFINE asked == [c EXCEPT !.path = Path(t)', !.to = Target(t)']
<1>3. asked \in Askable
  <2>1. Path(t)' \in Readings(c.path) /\ Target(t)' \in Readings(c.to)
    BY <1>2 DEF Path, Target, Resolve, Readings
  <2>2. PICK p \in Readings(c.path), q \in Readings(c.to) : p = Path(t)' /\ q = Target(t)'
    BY <2>1, Zenon
  <2> DEFINE Read(k, r, w) == [k EXCEPT !.path = r, !.to = w]
  <2>3. Askable = UNION {{Read(k, r, w) : r \in Readings(k.path), w \in Readings(k.to)} :
                            k \in Calls}
    BY DEF Askable
  <2>4. Read(c, p, q) \in Askable
    <3> HIDE DEF Read
    <3> QED
      BY <2>3
  <2>5. asked = Read(c, p, q)
    BY <2>2
  <2>6. QED
    BY <2>4, <2>5, Zenon
<1>4. asked = [call'[t] EXCEPT !.path = Path(t)', !.to = Target(t)']
  BY <1>2
<1> HIDE DEF asked
<1>5. Asked' = [Asked EXCEPT ![t] = asked]
  <2>1. \A u \in Tasks : u # t =>
           call'[u] = call[u] /\ Path(u)' = Path(u) /\ Target(u)' = Target(u)
    BY <1>1, <1>2 DEF Path, Target, Resolve, Flash, TypeOK
  <2>2. \A u \in Tasks : u # t => Asked'[u] = Asked[u]
    BY <2>1 DEF Asked
  <2>3. Asked'[t] = asked
    BY <1>4 DEF Asked
  <2>4. Asked = [u \in Tasks |-> Asked[u]] /\ Asked' = [u \in Tasks |-> Asked'[u]]
    BY DEF Asked
  <2>5. \A u \in Tasks : Asked'[u] = IF u = t THEN asked ELSE Asked[u]
    BY <2>2, <2>3
  <2>6. [Asked EXCEPT ![t] = asked] = [u \in Tasks |-> IF u = t THEN asked ELSE Asked[u]]
    BY <2>4
  <2>7. QED
    BY <2>4, <2>5, <2>6
<1>6. /\ result[t] # "running" /\ result' = [result EXCEPT ![t] = "running"]
      /\ UNCHANGED <<volume, mounted, seen, formats, lost>>
  BY DEF Begin, medium
<1>7. QED
  BY <1>3, <1>5, <1>6 DEF Contract!Begin

LEMMA EnterStarts ==
    ASSUME RInv, NEW t \in Tasks, Enter(t)
    PROVE  Contract!Start(t)
<1>1. result[t] = "running" /\ seen[t] = NotStarted
  BY DEF RInv, Told, CourseAt, Enter, At
<1>2. call' = call /\ kind' = kind /\ seen' = [seen EXCEPT ![t] = volume]
  BY DEF Enter
<1>3. Asked' = Asked
  BY <1>2 DEF Asked, Path, Target, Resolve, Flash
<1>4. QED
  BY <1>1, <1>2, <1>3 DEF Contract!Start, Enter, medium, Asked

LEMMA LeaveReturns ==
    ASSUME RInv, NEW t \in Tasks, Leave(t)
    PROVE  Contract!Return(t)
<1>1. pc[t] = "leave" /\ TypeOK
  BY DEF RInv, IInv, Leave, At
<1>2. result[t] = "running" /\ seen[t] # NotStarted
  BY <1>1 DEF RInv, Told, CourseAt
<1>3. Asked' = [Asked EXCEPT ![t] = NoCall]
  <2>1. /\ call' = [call EXCEPT ![t] = NoCall] /\ kind' = kind
    BY DEF Leave, Returns
  <2>2. \A u \in Tasks : u # t =>
           call'[u] = call[u] /\ Path(u)' = Path(u) /\ Target(u)' = Target(u)
    BY <1>1, <2>1 DEF Path, Target, Resolve, Flash, TypeOK
  <2>3. [NoCall EXCEPT !.path = Path(t)', !.to = Target(t)'] = NoCall /\ call'[t] = NoCall
    BY <1>1, <2>1 DEF NoCall, Path, Target, Resolve, TypeOK
  <2>4. QED
    BY <2>2, <2>3 DEF Asked
<1>4. /\ IF work[t].ok THEN Contract!Done(Asked[t], seen[t])
         ELSE Contract!NotDone(Asked[t], seen[t])
  BY <1>1, AnswerIs DEF Asked
<1>5. /\ result' = [result EXCEPT ![t] = IF work[t].ok THEN "ok" ELSE "failed"]
      /\ seen' = [seen EXCEPT ![t] = NotStarted]
      /\ UNCHANGED <<volume, mounted, formats, lost>>
  BY DEF Leave, Returns, medium
<1>6. CASE work[t].ok
  BY <1>2, <1>3, <1>4, <1>5, <1>6 DEF Contract!Return, Asked
<1>7. CASE ~work[t].ok
  BY <1>2, <1>3, <1>4, <1>5, <1>7 DEF Contract!Return, Asked
<1>8. QED
  BY <1>6, <1>7

LEMMA StepWorks ==
    ASSUME RInv, RInv', RenamesFit, NEW t \in Tasks, Step(t), ~Enter(t), ~Leave(t)
    PROVE  Contract!Work(t)
<1>1. Within(t) /\ Serves(t) /\ TypeOK
  BY StepTold DEF RInv, IInv
<1>2. result[t] = "running" /\ seen[t] # NotStarted /\ call[t] \in Calls
  BY <1>1, ServingTold
<1>3. volume' \in [Places -> Contents] /\ mounted' \in BOOLEAN
  BY DEF RInv, IInv, TypeOK
<1>4. lost' \in {lost, TRUE}
  BY <1>1, LostStays
<1>5. Asked' = Asked
  <2>1. kind' = kind
    BY StepTold DEF Served, Reaches, Goto
  <2>2. call' = call
    BY <1>1 DEF Within
  <2>3. QED
    BY <2>1, <2>2 DEF Asked, Path, Target, Resolve, Flash
<1>6. Asked[t].op = call[t].op
  BY <1>2, AskedIs DEF Asked
<1>7. QED
  BY <1>1, <1>2, <1>3, <1>4, <1>5, <1>6 DEF Contract!Work, Within, Asked

LEMMA NextContract ==
    RInv /\ RInv' /\ RenamesFit /\ [Next]_vars => [Contract!Next]_(Contract!vars)
<1> SUFFICES ASSUME RInv, RInv', RenamesFit, [Next]_vars
             PROVE  Contract!Next \/ UNCHANGED Contract!vars
  OBVIOUS
<1>1. CASE UNCHANGED vars
  <2>1. /\ UNCHANGED <<volume, mounted, result, seen, formats, lost>>
        /\ Asked' = Asked
    BY <1>1 DEF vars, medium, control, Asked, Path, Target, Resolve, Flash
  <2>2. QED
    BY <2>1 DEF Contract!vars, Asked
<1>2. ASSUME NEW t \in Tasks, Begin(t) \/ Step(t) PROVE Contract!Next
  BY <1>2, BeginBegins, EnterStarts, LeaveReturns, StepWorks DEF Contract!Next
<1>3. QED
  BY <1>1, <1>2 DEF Next

\* Every one of the four backends keeps what storage_backend.h promises, for any
\* volume, any calls and any number of tasks, whatever fails and whatever runs
\* meanwhile: a call changes only what its paths name and the flag only if it is
\* about the mount; ESP_OK says that all of it was done to the volume as the
\* call found it, an error that no half a copy is left and nothing that was to
\* move is gone.
THEOREM ContractKept ==
    ASSUME CopiesNoPartial, RenamesNoPartial, RenamesFit
    PROVE  Spec => ImplementsContract
<1>1. Init => RInv /\ Contract!Init
  BY ToldFirst, InitStarts
<1>2. RInv /\ [Next]_vars => RInv'
  BY ToldKept
<1>3. RInv /\ RInv' /\ [Next]_vars => [Contract!Next]_(Contract!vars)
  BY NextContract
<1>4. QED
  BY <1>1, <1>2, <1>3, PTL DEF Spec, ImplementsContract, Contract!Spec
=============================================================================
