-------------------------- MODULE UploadSystemProofs --------------------------
(***************************************************************************)
(* Theorems about UploadSystem: whatever the line and the host do, the     *)
(* device behaves as FileProtocol, so that all that is proved of the       *)
(* session holds behind the line; a host that has connected finds nothing  *)
(* of an earlier one; one lost, damaged or refused command neither makes   *)
(* an upload fail nor makes its report a false one; and the target never   *)
(* holds a mixture of two uploads.                                         *)
(***************************************************************************)
EXTENDS UploadSystem, FileProtocolCardProofs

-----------------------------------------------------------------------------
(***************************************************************************)
(* Sequence numbers and queues.                                            *)
(***************************************************************************)
LEMMA SeqWraps ==
    /\ \A n \in Nat : n % Modulus \in 0 .. Modulus - 1
    /\ \A n \in Nat : NextSeq(n) \in 0 .. Modulus - 1
    /\ 0 \in 0 .. Modulus - 1 /\ NoSeq \in 0 .. Modulus
    /\ 0 .. Modulus - 1 \subseteq Nat /\ 0 .. Modulus - 1 \subseteq 0 .. Modulus
<1>1. Modulus \in Nat \ {0}
  BY LinkAssumption
<1>2. \A n \in Nat : n % Modulus \in 0 .. Modulus - 1
  BY <1>1
<1>3. QED
  BY <1>1, <1>2 DEF NextSeq, NoSeq

LEMMA Dropped ==
    ASSUME NEW S, NEW s \in Seq(S), NEW i \in 1 .. Len(s) + 1
    PROVE  SubSeq(s, i, Len(s)) \in Seq(S)
<1>1. Len(s) \in Nat
  BY LenProperties
<1>2. \A k \in i .. Len(s) : s[k] \in S
  BY <1>1, ElementOfSeq
<1>3. QED
  BY <1>1, <1>2, SubSeqProperties

LEMMA Removed ==
    ASSUME NEW S, NEW s \in Seq(S), NEW i \in DOMAIN s
    PROVE  RemoveAt(s, i) \in Seq(S) /\ Len(RemoveAt(s, i)) = Len(s) - 1
<1>1. Len(s) \in Nat /\ DOMAIN s = 1 .. Len(s) /\ i \in 1 .. Len(s)
  BY LenProperties
<1>2. PICK j \in Int : j = i - 1
  BY <1>1
<1>3. PICK k \in Int : k = i + 1
  BY <1>1
<1>4. \A m \in 1 .. j : s[m] \in S
  BY <1>1, <1>2, ElementOfSeq
<1>5. \A m \in k .. Len(s) : s[m] \in S
  BY <1>1, <1>3, ElementOfSeq
<1>6. SubSeq(s, 1, j) \in Seq(S) /\ Len(SubSeq(s, 1, j)) = i - 1
  BY <1>1, <1>2, <1>4, SubSeqProperties
<1>7. SubSeq(s, k, Len(s)) \in Seq(S) /\ Len(SubSeq(s, k, Len(s))) = Len(s) - i
  BY <1>1, <1>3, <1>5, SubSeqProperties
<1>8. RemoveAt(s, i) = SubSeq(s, 1, j) \o SubSeq(s, k, Len(s))
  BY <1>2, <1>3 DEF RemoveAt
<1>9. PICK left \in Seq(S) : left = SubSeq(s, 1, j)
  BY <1>6
<1>10. PICK right \in Seq(S) : right = SubSeq(s, k, Len(s))
  BY <1>7
<1>11. left \o right \in Seq(S) /\ Len(left \o right) = Len(left) + Len(right)
  BY ConcatProperties
<1>12. RemoveAt(s, i) = left \o right
  BY <1>8, <1>9, <1>10
<1>13. PICK m \in Nat : m = Len(left) /\ m = i - 1
  BY <1>6, <1>9, LenProperties
<1>14. PICK n \in Nat : n = Len(right) /\ n = Len(s) - i
  BY <1>7, <1>10, LenProperties
<1>15. m + n = Len(s) - 1
  BY <1>1, <1>13, <1>14
<1>16. Len(left \o right) = m + n
  BY <1>11, <1>13, <1>14
<1>17. QED
  BY <1>11, <1>12, <1>15, <1>16

LEMMA NumberedTyped ==
    ASSUME NEW kinds \in Seq(Replies), NEW seq \in Nat
    PROVE  /\ Numbered(kinds, seq) \in Seq(ReplyFrames)
           /\ Len(Numbered(kinds, seq)) = Len(kinds)
<1>1. Len(kinds) \in Nat /\ DOMAIN kinds = 1 .. Len(kinds)
  BY LenProperties
<1>2. ASSUME NEW i \in 1 .. Len(kinds)
      PROVE  Reply(IF kinds[i] \in Errors THEN "NACK" ELSE "ACK", (seq + i - 1) % Modulus)
                \in ReplyFrames
  <2>1. seq + i - 1 \in Nat
    BY <1>1
  <2>2. (seq + i - 1) % Modulus \in 0 .. Modulus - 1
    BY <2>1, SeqWraps
  <2>3. QED
    BY <2>2 DEF Reply, ReplyFrames
<1>3. Numbered(kinds, seq) \in [1 .. Len(kinds) -> ReplyFrames]
  BY <1>1, <1>2 DEF Numbered
<1>4. QED
  BY <1>1, <1>3, SeqDef

LEMMA DamagedTyped ==
    /\ commands \in Seq(CommandFrames) =>
          \A i \in DOMAIN commands : Damaged(commands, i) \in Seq(CommandFrames)
    /\ replies \in Seq(ReplyFrames) =>
          \A i \in DOMAIN replies : Damaged(replies, i) \in Seq(ReplyFrames)
<1>1. ASSUME commands \in Seq(CommandFrames), NEW i \in DOMAIN commands
      PROVE  Damaged(commands, i) \in Seq(CommandFrames)
  <2>1. i \in 1 .. Len(commands) /\ commands[i] \in CommandFrames
    BY <1>1, LenProperties, ElementOfSeq
  <2>2. [commands[i] EXCEPT !.good = FALSE] \in CommandFrames
    BY <2>1 DEF CommandFrames
  <2>3. QED
    BY <1>1, <2>1, <2>2, ExceptSeq DEF Damaged
<1>2. ASSUME replies \in Seq(ReplyFrames), NEW i \in DOMAIN replies
      PROVE  Damaged(replies, i) \in Seq(ReplyFrames)
  <2>1. i \in 1 .. Len(replies) /\ replies[i] \in ReplyFrames
    BY <1>2, LenProperties, ElementOfSeq
  <2>2. [replies[i] EXCEPT !.good = FALSE] \in ReplyFrames
    BY <2>1 DEF ReplyFrames
  <2>3. QED
    BY <1>2, <2>1, <2>2, ExceptSeq DEF Damaged
<1>3. QED
  BY <1>1, <1>2

LEMMA NextCommand ==
    ASSUME commands \in Seq(CommandFrames), commands # <<>>
    PROVE  /\ Head(commands) \in CommandFrames /\ Tail(commands) \in Seq(CommandFrames)
           /\ Head(commands).cmd = "PUT_FILE_DATA" => Head(commands).payload \in Payloads
BY HeadTailProperties DEF CommandFrames

-----------------------------------------------------------------------------
(***************************************************************************)
(* Behind the line, the device is FileProtocol's.                          *)
(***************************************************************************)
LEMMA DispatchIsSession ==
    ASSUME NEW f \in CommandFrames, Dispatch(f)
    PROVE  Next
<1>1. Target \in PutPaths /\ Len(Source) \in Totals
  BY TargetAssumption, SourceAssumption DEF PutPaths
<1>2. f.cmd = "PUT_FILE_DATA" => f.payload \in Payloads
  BY DEF CommandFrames
<1>3. QED
  BY <1>1, <1>2 DEF Dispatch, Next, Upload, Session

LEMMA SystemStepIsSession ==
    ASSUME commands \in Seq(CommandFrames), [SystemNext]_systemVars
    PROVE  [Next]_vars
<1>1. CASE HostStep
  BY <1>1 DEF HostStep, SendHello, WaitHello, SendBegin, WaitBegin, SendData, SendEnd, WaitEnd,
              SendAbort, WaitAbort
<1>2. CASE HostRestart \/ LineFault
  BY <1>2 DEF HostRestart, LineFault
<1>3. CASE DeviceStep
  <2>1. Head(commands) \in CommandFrames
    BY <1>3, NextCommand DEF DeviceStep
  <2>2. CASE Rejects
    BY <2>2 DEF Rejects
  <2>3. CASE Dispatches(Head(commands))
    BY <2>1, <2>3, DispatchIsSession DEF Dispatches
  <2>4. QED
    BY <1>3, <2>2, <2>3 DEF DeviceStep
<1>4. CASE CardMounted \/ DeviceRestart
  BY <1>4 DEF CardMounted, DeviceRestart, Next, Environment
<1>5. CASE UNCHANGED systemVars
  BY <1>5 DEF systemVars
<1>6. QED
  BY <1>1, <1>2, <1>3, <1>4, <1>5 DEF SystemNext, Finished
-----------------------------------------------------------------------------
(***************************************************************************)
(* The types.                                                              *)
(***************************************************************************)
SystemTInv == IInv /\ SystemTypeOK

LEMMA HeadReply ==
    ASSUME replies \in Seq(ReplyFrames), replies # <<>>
    PROVE  /\ Head(replies) \in ReplyFrames /\ Tail(replies) \in Seq(ReplyFrames)
           /\ Head(replies).seq \in Nat
<1>1. Head(replies) \in ReplyFrames /\ Tail(replies) \in Seq(ReplyFrames)
  BY HeadTailProperties
<1>2. QED
  BY <1>1, SeqWraps DEF ReplyFrames

\* A wait takes a reply or times out; what it counts stays in its range.
LEMMA WaitTyped ==
    ASSUME SystemTypeOK, NEW verdicts, Answered(verdicts) \/ Refused
    PROVE  /\ replies' \in Seq(ReplyFrames) /\ hostRx' \in 0 .. Modulus
           /\ faults' \in 0 .. MaxFaults
<1>1. CASE TakeReply /\ UNCHANGED faults
  <2>1. Head(replies) \in ReplyFrames /\ Tail(replies) \in Seq(ReplyFrames)
        /\ Head(replies).seq \in Nat
    BY <1>1, HeadReply DEF SystemTypeOK, TakeReply
  <2>2. QED
    BY <1>1, <2>1, SeqWraps DEF SystemTypeOK, TakeReply
<1>2. CASE TimesOut
  BY <1>2, LinkAssumption DEF SystemTypeOK, TimesOut, MayFail
<1>3. QED
  BY <1>1, <1>2 DEF Answered, Refused

LEMMA SendTyped ==
    ASSUME SystemTypeOK, NEW cmd, NEW payload, Send(cmd, payload),
           \/ /\ cmd \in {"HELLO", "PUT_FILE_BEGIN", "PUT_FILE_END", "PUT_FILE_ABORT"}
              /\ payload = <<>>
           \/ cmd = "PUT_FILE_DATA" /\ payload \in Payloads
    PROVE  commands' \in Seq(CommandFrames) /\ hostTx' \in 0 .. Modulus - 1
<1>1. hostTx \in 0 .. Modulus - 1 /\ hostTx \in Nat
  BY SeqWraps DEF SystemTypeOK
<1>2. Frame(cmd, hostTx, payload) \in CommandFrames
  BY <1>1 DEF Frame, CommandFrames
<1>3. QED
  BY <1>1, <1>2, SeqWraps, AppendProperties DEF Send, SystemTypeOK

LEMMA Read ==
    ASSUME SystemTypeOK, sent < Len(Source)
    PROVE  ReadTo \in 0 .. Len(Source) /\ SubSeq(Source, sent + 1, ReadTo) \in Payloads
<1>1. Len(Source) \in Nat /\ sent \in 0 .. Len(Source) /\ ChunkSize \in Nat \ {0}
  BY SourceAssumption, ChunkAssumption, LenProperties DEF SystemTypeOK
<1>2. ReadTo \in 0 .. Len(Source) /\ sent < ReadTo /\ ReadTo <= sent + ChunkSize
  BY <1>1 DEF ReadTo
<1>3. QED
  BY <1>1, <1>2, ChunkAssumption

LEMMA HostTyped ==
    ASSUME SystemTypeOK, HostStep \/ HostRestart
    PROVE  SystemTypeOK'
<1> USE DEF SystemTypeOK, HostStates
<1>1. CASE SendHello
  <2>1. Append(commands, Frame("HELLO", 0, <<>>)) \in Seq(CommandFrames)
    <3>1. Frame("HELLO", 0, <<>>) \in CommandFrames
      BY SeqWraps DEF Frame, CommandFrames
    <3>2. QED
      BY <3>1, AppendProperties
  <2>2. faults' \in 0 .. MaxFaults
    BY <1>1, LinkAssumption DEF SendHello, MayFail
  <2>3. NextSeq(0) \in 0 .. Modulus - 1 /\ NoSeq \in 0 .. Modulus /\ <<>> \in Seq(ReplyFrames)
    BY SeqWraps
  <2>4. QED
    BY <1>1, <2>1, <2>2, <2>3
       DEF SendHello, deviceSeqVars
<1>2. CASE WaitHello
  BY <1>2, WaitTyped DEF WaitHello, deviceSeqVars
<1>3. CASE SendBegin
  <2>1. commands' \in Seq(CommandFrames) /\ hostTx' \in 0 .. Modulus - 1
    BY <1>3, SendTyped DEF SendBegin
  <2>2. Len(Source) \in Nat
    BY SourceAssumption, LenProperties
  <2>3. QED
    BY <1>3, <2>1, <2>2 DEF SendBegin, deviceSeqVars, boundVars
<1>4. CASE WaitBegin
  BY <1>4, WaitTyped DEF WaitBegin, deviceSeqVars
<1>5. CASE SendData
  <2>1. ReadTo \in 0 .. Len(Source) /\ SubSeq(Source, sent + 1, ReadTo) \in Payloads
    BY <1>5, Read DEF SendData
  <2>2. commands' \in Seq(CommandFrames) /\ hostTx' \in 0 .. Modulus - 1
    BY <1>5, <2>1, SendTyped DEF SendData
  <2>3. replies' \in Seq(ReplyFrames) /\ hostRx' \in 0 .. Modulus
    <3>1. CASE TakeReply
      <4>1. Head(replies).seq \in Nat /\ Tail(replies) \in Seq(ReplyFrames)
        BY <3>1, HeadReply DEF TakeReply
      <4>2. QED
        BY <3>1, <4>1, SeqWraps DEF TakeReply
    <3>2. QED
      BY <1>5, <3>1 DEF SendData
  <2>4. sent' \in 0 .. Len(Source) /\ hostPc' \in HostStates
    BY <1>5, <2>1 DEF SendData
  <2>5. QED
    BY <1>5, <2>2, <2>3, <2>4 DEF SendData, deviceSeqVars, boundVars
<1>6. CASE SendEnd
  BY <1>6, SendTyped DEF SendEnd, deviceSeqVars, boundVars
<1>7. CASE WaitEnd
  BY <1>7, WaitTyped DEF WaitEnd, deviceSeqVars
<1>8. CASE SendAbort
  BY <1>8, SendTyped DEF SendAbort, deviceSeqVars, boundVars
<1>9. CASE WaitAbort
  <2>1. replies' \in Seq(ReplyFrames) /\ hostRx' \in 0 .. Modulus /\ faults' \in 0 .. MaxFaults
    BY <1>9, WaitTyped DEF WaitAbort
  <2>2. attempt' \in 1 .. Attempts /\ hostPc' \in HostStates
    BY <1>9, LinkAssumption DEF WaitAbort
  <2>3. QED
    BY <1>9, <2>1, <2>2 DEF WaitAbort, deviceSeqVars
<1>10. CASE HostRestart
  <2>1. attempt' \in 1 .. Attempts /\ sent' \in 0 .. Len(Source) /\ restarts' \in 0 .. MaxRestarts
    BY <1>10, LinkAssumption, SourceAssumption, LenProperties DEF HostRestart
  <2>2. QED
    BY <1>10, <2>1 DEF HostRestart, lineVars, deviceSeqVars
<1>11. QED
  BY <1>1, <1>2, <1>3, <1>4, <1>5, <1>6, <1>7, <1>8, <1>9, <1>10 DEF HostStep

LEMMA DeviceTyped ==
    ASSUME SystemTypeOK, TypeOK', DeviceStep
    PROVE  SystemTypeOK'
<1> USE DEF SystemTypeOK
<1> DEFINE f == Head(commands)
<1>1. f \in CommandFrames /\ commands' \in Seq(CommandFrames)
  BY NextCommand DEF DeviceStep
<1>2. f.seq \in Nat /\ deviceTx \in Nat
  BY <1>1, SeqWraps DEF CommandFrames
<1>3. CASE Rejects
  <2>1. Reply("NACK", deviceTx) \in ReplyFrames
    BY DEF Reply, ReplyFrames
  <2>2. replies' \in Seq(ReplyFrames)
    BY <1>3, <2>1, AppendProperties DEF Rejects
  <2>3. deviceTx' \in 0 .. Modulus - 1 /\ deviceRx' \in 0 .. Modulus
    BY <1>2, <1>3, SeqWraps DEF Rejects
  <2>4. QED
    BY <1>1, <1>3, <2>2, <2>3 DEF DeviceStep, Rejects, hostVars
<1>4. CASE Dispatches(f)
  <2> DEFINE first == IF f.cmd = "HELLO" THEN 0 ELSE deviceTx
  <2>1. reply' \in Seq(Replies) /\ Len(reply') \in Nat
    BY LenProperties DEF TypeOK
  <2>2. first \in Nat
    BY <1>2
  <2>3. Numbered(reply', first) \in Seq(ReplyFrames)
    BY <2>1, <2>2, NumberedTyped
  <2>4. replies' \in Seq(ReplyFrames)
    BY <1>4, <2>3, ConcatProperties DEF Dispatches
  <2>5. deviceTx' \in 0 .. Modulus - 1 /\ deviceRx' \in 0 .. Modulus
    <3>1. first + Len(reply') \in Nat
      BY <2>1, <2>2
    <3>2. QED
      BY <1>2, <1>4, <3>1, SeqWraps DEF Dispatches
  <2>6. faults' \in 0 .. MaxFaults
    BY <1>4, LinkAssumption DEF Dispatches
  <2>7. QED
    BY <1>1, <2>4, <2>5, <2>6 DEF DeviceStep, hostVars
<1>5. QED
  BY <1>3, <1>4 DEF DeviceStep

LEMMA LineTyped ==
    ASSUME SystemTypeOK, CardMounted \/ DeviceRestart \/ LineFault
    PROVE  SystemTypeOK'
<1> USE DEF SystemTypeOK
<1>1. CASE CardMounted
  BY <1>1 DEF CardMounted, lineVars, deviceSeqVars, hostVars, boundVars
<1>2. CASE DeviceRestart
  <2>1. commands' \in Seq(CommandFrames)
    BY <1>2, Dropped DEF DeviceRestart
  <2>2. faults' \in 0 .. MaxFaults
    BY <1>2, LinkAssumption DEF DeviceRestart
  <2>3. deviceRx' \in 0 .. Modulus /\ deviceTx' \in 0 .. Modulus - 1
    BY <1>2, SeqWraps DEF DeviceRestart
  <2>4. QED
    BY <1>2, <2>1, <2>2, <2>3 DEF DeviceRestart, hostVars
<1>3. CASE LineFault
  <2>1. commands' \in Seq(CommandFrames)
    BY <1>3, Removed, DamagedTyped DEF LineFault
  <2>2. replies' \in Seq(ReplyFrames)
    BY <1>3, Removed, DamagedTyped DEF LineFault
  <2>3. faults' \in 0 .. MaxFaults
    BY <1>3, LinkAssumption DEF LineFault, MayFail
  <2>4. QED
    BY <1>3, <2>1, <2>2, <2>3 DEF LineFault, deviceSeqVars, hostVars
<1>4. QED
  BY <1>1, <1>2, <1>3

LEMMA SystemTInvInit == SystemInit => SystemTInv
<1> SUFFICES ASSUME SystemInit PROVE SystemTInv
  OBVIOUS
<1>1. IInv
  BY InitEstablishes DEF SystemInit
<1>2. Len(Source) \in Nat
  BY SourceAssumption, LenProperties
<1>3. SystemTypeOK
  BY <1>2, SeqWraps, LinkAssumption DEF SystemInit, SystemTypeOK, HostStates
<1>4. QED
  BY <1>1, <1>3 DEF SystemTInv

LEMMA SystemTInvKept == SystemTInv /\ [SystemNext]_systemVars => SystemTInv' /\ [Next]_vars
<1> SUFFICES ASSUME SystemTInv, [SystemNext]_systemVars PROVE SystemTInv' /\ [Next]_vars
  OBVIOUS
<1> USE DEF SystemTInv
<1>1. [Next]_vars
  BY SystemStepIsSession DEF SystemTypeOK
<1>2. IInv'
  BY <1>1, Inductive
<1>3. CASE UNCHANGED systemVars
  BY <1>1, <1>2, <1>3
     DEF systemVars, SystemTypeOK, lineVars, deviceSeqVars, hostVars, boundVars
<1>4. CASE SystemNext
  BY <1>1, <1>2, <1>3, <1>4, HostTyped, DeviceTyped, LineTyped DEF SystemNext, Finished, IInv
<1>5. QED
  BY <1>3, <1>4

LEMMA SystemTypes == SystemSpec => []SystemTInv /\ Spec
<1>1. SystemInit => Init
  BY DEF SystemInit
<1>2. QED
  BY <1>1, SystemTInvInit, SystemTInvKept, PTL DEF SystemSpec, Spec

\* Whatever the line loses, damages and delays and however often the host is
\* started again, the device goes through a behaviour of FileProtocol: what is
\* proved of every session holds of the sessions behind a faulty line.
THEOREM DeviceKeepsSession == SystemSpec => Spec
BY SystemTypes, PTL

\* Queues, numbers and counters keep their types: no sequence number leaves the
\* field it is sent in, and the host never reads past its file.
THEOREM SystemTypeCorrect == SystemSpec => []SystemTypeOK
<1>1. SystemTInv => SystemTypeOK
  BY DEF SystemTInv
<1>2. QED
  BY <1>1, SystemTypes, PTL
-----------------------------------------------------------------------------
(***************************************************************************)
(* Connecting.  A HELLO is sent when nothing is under way, and whatever    *)
(* becomes of it or of its answer, an ACK that reaches the host is the one *)
(* the device sent when it ended the earlier session.                      *)
(***************************************************************************)
Greeted ==
    /\ ~transferActive
    /\ deviceTx = NextSeq(0)
    /\ deviceRx = NextSeq(0)

HelloSent ==
    /\ replies = <<>>
    /\ \E c \in CommandFrames : commands = <<c>> /\ c.cmd = "HELLO" /\ c.seq = 0

HelloAnswered ==
    /\ commands = <<>>
    /\ \/ replies = <<>>
       \/ \E r \in ReplyFrames : replies = <<r>> /\ (r.kind = "ACK" => r.seq = 0 /\ Greeted)

\* None of this host's commands makes a directory of a partial file.
NoPartialDirectory == \A n \in UploadNames : files[n] # Directory

Handshake ==
    /\ hostPc # "hello" => mounted
    /\ NoPartialDirectory
    /\ hostPc = "wait_hello" =>
          hostTx = NextSeq(0) /\ hostRx = NoSeq /\ (HelloSent \/ HelloAnswered)
    /\ hostPc = "begin" /\ attempt = 1 =>
          /\ commands = <<>> /\ replies = <<>> /\ Greeted
          /\ hostTx = NextSeq(0) /\ hostRx = NextSeq(0)

USE DataAssumption, NameAssumption

LEMMA AbortMakesNoDirectory ==
    ASSUME NEW fs \in [Names -> Entry], \A n \in UploadNames : fs[n] # Directory,
           AbortActiveTransfer(fs)
    PROVE  NoPartialDirectory' /\ ~transferActive' /\ UNCHANGED mounted
<1>1. files' \in {fs, [fs EXCEPT ![transferTempPath] = Absent]}
  BY DEF AbortActiveTransfer, PartialRemoved
<1>2. NoPartialDirectory'
  BY <1>1 DEF NoPartialDirectory
<1>3. QED
  BY <1>2 DEF AbortActiveTransfer

LEMMA CutShortMakesNoDirectory ==
    ASSUME IInv, NoPartialDirectory, transferTempPath \in Names,
           NEW v \in Data \cup {Absent}, NEW fs \in CutShort(v)
    PROVE  fs \in [Names -> Entry] /\ \A n \in UploadNames : fs[n] # Directory
<1>1. fs \in [Names -> Entry]
  BY CutShortIsCard DEF IInv
<1>2. CASE v = Absent
  BY <1>1, <1>2 DEF CutShort, NoPartialDirectory
<1>3. CASE v # Absent
  <2>1. PICK k \in 0 .. Len(v) : fs = [files EXCEPT ![transferTempPath] = SubSeq(v, 1, k)]
    BY <1>3 DEF CutShort
  <2>2. SubSeq(v, 1, k) # Directory
    BY <1>3, <2>1, PrefixIsData DEF Data
  <2>3. QED
    BY <1>1, <2>1, <2>2 DEF NoPartialDirectory, IInv, TypeOK
<1>4. QED
  BY <1>2, <1>3

LEMMA UploadMakesNoDirectory ==
    ASSUME IInv, NoPartialDirectory, Upload
    PROVE  NoPartialDirectory' /\ UNCHANGED mounted
<1> USE DEF NoPartialDirectory
<1>1. files \in [Names -> Entry]
  BY DEF IInv, TypeOK
<1>2. CASE UNCHANGED cardVars
  BY <1>2 DEF cardVars
<1>3. ASSUME NEW fs \in [Names -> Entry], AbortActiveTransfer(fs),
             \A n \in UploadNames : fs[n] # Directory
      PROVE  NoPartialDirectory' /\ UNCHANGED mounted
  BY <1>3, AbortMakesNoDirectory
<1>4. ASSUME NEW p \in PutPaths, NEW n \in Totals, PutFileBegin(p, n)
      PROVE  NoPartialDirectory' /\ UNCHANGED mounted
  <2>1. CASE BeginAccepted(p, n)
    <3>1. <<>> \in Data
      BY DEF Data
    <3>2. <<>> # Directory
      BY <3>1 DEF Data
    <3>3. QED
      BY <1>1, <2>1, <3>2 DEF BeginAccepted
  <2>2. QED
    BY <1>2, <1>4, <2>1
       DEF PutFileBegin, BeginTooLong, BeginBenchmark, BeginRefused, Refuse
<1>5. ASSUME NEW payload \in Payloads, PutFileData(payload)
      PROVE  NoPartialDirectory' /\ UNCHANGED mounted
  <2>1. transferActive /\ ~benchmarkMode =>
            Written(files[transferTempPath], payload) \in Data \cup {Absent}
    BY UploadOnCard DEF Written, Data
  <2>2. ASSUME transferActive, ~benchmarkMode,
               NEW fs \in CutShort(Written(files[transferTempPath], payload)),
               AbortActiveTransfer(fs)
        PROVE  NoPartialDirectory' /\ UNCHANGED mounted
    BY <1>3, <2>1, <2>2, UploadOnCard, CutShortMakesNoDirectory
  <2>3. CASE /\ transferActive /\ ~benchmarkMode
             /\ files' = [files EXCEPT ![transferTempPath] = Written(@, payload)]
             /\ UNCHANGED mounted
    <3>1. Written(files[transferTempPath], payload) # Directory
      BY <2>1, <2>3 DEF Data
    <3>2. QED
      BY <1>1, <2>3, <3>1
  <2>4. QED
    BY <1>1, <1>2, <1>3, <1>5, <2>2, <2>3 DEF PutFileData, Refuse
<1>6. CASE PutFileEnd
  <2>1. CASE EndFails(files) \/ TargetStays
    BY <1>1, <1>3, <2>1 DEF EndFails, TargetStays
  <2>2. CASE CommitBenchmark
    BY <2>2 DEF CommitBenchmark, EndSession
  <2>3. CASE transferActive /\ CloseFails
    <3>1. PICK fs \in CutShort(files[transferTempPath]) : AbortActiveTransfer(fs)
      BY <2>3 DEF CloseFails, EndFails
    <3>2. ~benchmarkMode
      BY <2>3 DEF CloseFails, IInv, SessionConsistent
    <3>3. QED
      BY <1>3, <2>3, <3>1, <3>2, UploadOnCard, CutShortMakesNoDirectory
  <2>4. CASE transferActive /\ RenameFails
    <3>1. TargetRemoved \in [Names -> Entry] /\ \A n \in UploadNames : TargetRemoved[n] # Directory
      BY <1>1 DEF TargetRemoved, Entry
    <3>2. QED
      BY <1>3, <2>4, <3>1 DEF RenameFails, EndFails
  <2>5. CASE transferActive /\ CommitUpload
    <3>1. transferPath \in UserNames /\ transferTempPath \in UploadNames
      BY <2>5, UploadOnCard DEF CommitUpload
    <3>2. \A n \in UploadNames : files'[n] \in {files[n], Absent}
      BY <1>1, <2>5, <3>1 DEF CommitUpload, TargetRemoved, UserNames
    <3>3. QED
      BY <2>5, <3>2 DEF CommitUpload, EndSession
  <2>6. QED
    BY <1>2, <1>6, <2>1, <2>2, <2>3, <2>4, <2>5 DEF PutFileEnd, Refuse
<1>7. CASE PutFileAbort
  BY <1>1, <1>3, <1>7 DEF PutFileAbort
<1>8. QED
  BY <1>4, <1>5, <1>6, <1>7 DEF Upload

\* HELLO ends the session that it finds, if it finds one.
LEMMA HelloEndsSession ==
    ASSUME IInv, NoPartialDirectory, Hello
    PROVE  NoPartialDirectory' /\ ~transferActive' /\ UNCHANGED mounted /\ reply' = <<"ACK">>
<1>1. files \in [Names -> Entry]
  BY DEF IInv, TypeOK
<1>2. QED
  BY <1>1, AbortMakesNoDirectory
     DEF Hello, AbortDangling, Sends, NoPartialDirectory, cardVars, sessionVars

LEMMA DispatchKeepsCard ==
    ASSUME IInv, NoPartialDirectory, NEW f \in CommandFrames, Dispatch(f)
    PROVE  NoPartialDirectory' /\ UNCHANGED mounted
<1>1. Target \in PutPaths /\ Len(Source) \in Totals
  BY TargetAssumption, SourceAssumption DEF PutPaths
<1>2. f.cmd = "PUT_FILE_DATA" => f.payload \in Payloads
  BY DEF CommandFrames
<1>3. Hello \/ Upload
  BY <1>1, <1>2 DEF Dispatch, Upload
<1>4. QED
  BY <1>3, HelloEndsSession, UploadMakesNoDirectory
\* Queues of one frame.
LEMMA OneFrameQueue ==
    ASSUME NEW S, NEW x \in S
    PROVE  /\ <<x>> \in Seq(S) /\ <<x>> # <<>> /\ Len(<<x>>) = 1 /\ DOMAIN <<x>> = {1}
           /\ Head(<<x>>) = x /\ Tail(<<x>>) = <<>>
           /\ RemoveAt(<<x>>, 1) = <<>>
           /\ \A y : [<<x>> EXCEPT ![1] = y] = <<y>>
<1>1. <<x>> \in Seq(S) /\ <<x>> # <<>> /\ Len(<<x>>) = 1 /\ DOMAIN <<x>> = {1}
  OBVIOUS
<1>2. Head(<<x>>) = x /\ Tail(<<x>>) = <<>>
  OBVIOUS
<1>3. RemoveAt(<<x>>, 1) = <<>>
  <2>1. PICK s \in Seq(S) : s = <<x>>
    BY <1>1
  <2>2. 1 \in DOMAIN s /\ Len(s) = 1
    BY <1>1, <2>1
  <2>3. RemoveAt(s, 1) \in Seq(S) /\ Len(RemoveAt(s, 1)) = Len(s) - 1
    BY <2>2, Removed
  <2>4. Len(RemoveAt(s, 1)) = 0
    BY <2>2, <2>3
  <2>5. QED
    BY <2>1, <2>3, <2>4, EmptySeq
<1>4. ASSUME NEW y PROVE [<<x>> EXCEPT ![1] = y] = <<y>>
  OBVIOUS
<1>5. QED
  BY <1>1, <1>2, <1>3, <1>4

\* The line may lose or damage the HELLO or its answer.
LEMMA LineKeepsHandshake ==
    ASSUME SystemTInv, Handshake, LineFault
    PROVE  Handshake'
<1>1. /\ UNCHANGED <<hostPc, hostTx, hostRx, attempt, mounted>>
      /\ NoPartialDirectory' = NoPartialDirectory /\ Greeted' = Greeted
  BY DEF LineFault, vars, cardVars, sessionVars, deviceSeqVars, hostVars, NoPartialDirectory,
         Greeted
<1>2. commands = <<>> => commands' = <<>>
  BY DEF LineFault
<1>3. replies = <<>> => replies' = <<>>
  BY DEF LineFault
<1>4. ASSUME hostPc = "wait_hello", HelloSent PROVE HelloSent' \/ HelloAnswered'
  <2>1. PICK c \in CommandFrames : commands = <<c>> /\ c.cmd = "HELLO" /\ c.seq = 0
    BY <1>4 DEF HelloSent
  <2>2. PICK d : d = [c EXCEPT !.good = FALSE]
    OBVIOUS
  <2>3. d \in CommandFrames /\ d.cmd = "HELLO" /\ d.seq = 0
    BY <2>1, <2>2 DEF CommandFrames
  <2>4. replies' = <<>>
    BY <1>3, <1>4 DEF HelloSent
  <2>5. DOMAIN commands = {1} /\ commands[1] = c
    BY <2>1
  <2>6. CASE commands' = commands
    BY <2>1, <2>4, <2>6 DEF HelloSent
  <2>7. CASE \E i \in DOMAIN commands : commands' = RemoveAt(commands, i)
    <3>1. commands' = RemoveAt(<<c>>, 1)
      BY <2>1, <2>5, <2>7
    <3>2. commands' = <<>>
      BY <3>1, OneFrameQueue
    <3>3. QED
      BY <2>4, <3>2 DEF HelloAnswered
  <2>8. CASE \E i \in DOMAIN commands : commands' = Damaged(commands, i)
    <3>1. commands' = [<<c>> EXCEPT ![1] = d]
      BY <2>1, <2>2, <2>5, <2>8 DEF Damaged
    <3>2. commands' = <<d>>
      BY <3>1, OneFrameQueue
    <3>3. QED
      BY <2>3, <2>4, <3>2 DEF HelloSent
  <2>9. QED
    BY <2>6, <2>7, <2>8 DEF LineFault
<1>5. ASSUME hostPc = "wait_hello", HelloAnswered PROVE HelloAnswered'
  <2>1. CASE replies = <<>>
    BY <1>2, <1>3, <1>5, <2>1 DEF HelloAnswered
  <2>2. CASE replies # <<>>
    <3>1. PICK r \in ReplyFrames : replies = <<r>> /\ (r.kind = "ACK" => r.seq = 0 /\ Greeted)
      BY <1>5, <2>2 DEF HelloAnswered
    <3>2. DOMAIN replies = {1} /\ replies[1] = r
      BY <3>1
    <3>3. commands' = <<>>
      BY <1>2, <1>5 DEF HelloAnswered
    <3>4. CASE replies' = replies
      BY <1>1, <3>1, <3>3, <3>4 DEF HelloAnswered
    <3>5. CASE \E i \in DOMAIN replies : replies' = RemoveAt(replies, i)
      <4>1. replies' = RemoveAt(<<r>>, 1)
        BY <3>1, <3>2, <3>5
      <4>2. QED
        BY <3>3, <4>1, OneFrameQueue DEF HelloAnswered
    <3>6. CASE \E i \in DOMAIN replies : replies' = Damaged(replies, i)
      <4>1. PICK d : d = [r EXCEPT !.good = FALSE]
        OBVIOUS
      <4>2. d \in ReplyFrames /\ d.kind = r.kind /\ d.seq = r.seq
        BY <4>1 DEF ReplyFrames
      <4>3. replies' = [<<r>> EXCEPT ![1] = d]
        BY <3>1, <3>2, <3>6, <4>1 DEF Damaged
      <4>4. replies' = <<d>>
        BY <4>3, OneFrameQueue
      <4>5. QED
        BY <1>1, <3>1, <3>3, <4>2, <4>4 DEF HelloAnswered
    <3>7. QED
      BY <3>4, <3>5, <3>6 DEF LineFault
  <2>3. QED
    BY <2>1, <2>2
<1>6. QED
  BY <1>1, <1>2, <1>3, <1>4, <1>5 DEF Handshake

\* The numbering starts at 0 with the answer to HELLO.
LEMMA HelloAck ==
    ASSUME NEW kinds, kinds = <<"ACK">>
    PROVE  Numbered(kinds, 0) = <<Reply("ACK", 0)>>
<1>1. DOMAIN kinds = {1} /\ kinds[1] = "ACK" /\ "ACK" \notin Errors
  BY DEF Errors
<1>2. (0 + 1 - 1) % Modulus = 0
  BY LinkAssumption
<1>3. Numbered(kinds, 0) = [i \in {1} |-> Reply("ACK", 0)]
  BY <1>1, <1>2 DEF Numbered
<1>4. \A z : [i \in {1} |-> z] = <<z>>
  OBVIOUS
<1>5. QED
  BY <1>3, <1>4

\* The device ends the earlier session before it acknowledges a HELLO.
LEMMA DeviceKeepsHandshake ==
    ASSUME SystemTInv, Handshake, DeviceStep
    PROVE  Handshake'
<1> DEFINE f == Head(commands)
<1>1. f \in CommandFrames
  BY NextCommand DEF DeviceStep, SystemTInv, SystemTypeOK
<1>2. UNCHANGED <<hostPc, hostTx, hostRx, attempt>> /\ commands # <<>>
  BY DEF DeviceStep, hostVars
<1>3. NoPartialDirectory' /\ UNCHANGED mounted
  <2>1. CASE Rejects
    BY <2>1 DEF Rejects, vars, cardVars, NoPartialDirectory, Handshake
  <2>2. CASE Dispatches(f)
    BY <1>1, <2>2, DispatchKeepsCard DEF Dispatches, SystemTInv, Handshake
  <2>3. QED
    BY <2>1, <2>2 DEF DeviceStep
<1>4. ASSUME hostPc = "wait_hello" PROVE HelloAnswered'
  <2>1. HelloSent
    BY <1>2, <1>4 DEF Handshake, HelloAnswered
  <2>2. PICK c \in CommandFrames : commands = <<c>> /\ c.cmd = "HELLO" /\ c.seq = 0
    BY <2>1 DEF HelloSent
  <2>3. f = c /\ commands' = <<>>
    BY <2>2, OneFrameQueue DEF DeviceStep
  <2>4. f.cmd = "HELLO" /\ f.seq = 0
    BY <2>2, <2>3
  <2>5. CASE Rejects
    <3>1. Reply("NACK", deviceTx) \in ReplyFrames
      BY DEF Reply, ReplyFrames, SystemTInv, SystemTypeOK
    <3>2. replies' = <<Reply("NACK", deviceTx)>>
      BY <2>1, <2>5 DEF Rejects, HelloSent
    <3>3. QED
      BY <2>3, <3>1, <3>2 DEF HelloAnswered, Reply
  <2>6. CASE Dispatches(f)
    <3>1. Hello
      BY <2>4, <2>6 DEF Dispatches, Dispatch
    <3>2. ~transferActive' /\ reply' = <<"ACK">> /\ mounted'
      BY <1>3, <1>4, <3>1, HelloEndsSession DEF SystemTInv, Handshake
    <3>3. Len(reply') = 1 /\ DOMAIN reply' = {1} /\ reply'[1] = "ACK"
      BY <3>2
    <3>4. deviceTx' = NextSeq(0) /\ deviceRx' = NextSeq(0)
      BY <2>4, <2>6, <3>3 DEF Dispatches, NextSeq
    <3>5. Greeted'
      BY <3>2, <3>4 DEF Greeted, NextSeq
    <3>6. Numbered(reply', 0) = <<Reply("ACK", 0)>>
      BY <3>2, HelloAck
    <3>7. replies' = <<Reply("ACK", 0)>>
      BY <2>1, <2>4, <2>6, <3>6 DEF Dispatches, HelloSent
    <3>8. Reply("ACK", 0) \in ReplyFrames /\ Reply("ACK", 0).seq = 0
      BY SeqWraps DEF Reply, ReplyFrames
    <3>9. QED
      BY <2>3, <3>5, <3>7, <3>8 DEF HelloAnswered
  <2>7. QED
    BY <2>5, <2>6 DEF DeviceStep
<1>5. QED
  BY <1>2, <1>3, <1>4 DEF Handshake

\* The host is in its first attempt only when an ACK of its HELLO has arrived.
LEMMA HostKeepsHandshake ==
    ASSUME "late" \notin LinkFaults, SystemTInv, Handshake, HostStep \/ HostRestart
    PROVE  Handshake'
<1>1. /\ UNCHANGED <<vars, deviceSeqVars>> /\ UNCHANGED mounted
      /\ NoPartialDirectory' = NoPartialDirectory /\ Greeted' = Greeted
  BY DEF HostStep, HostRestart, SendHello, WaitHello, SendBegin, WaitBegin, SendData, SendEnd,
         WaitEnd, SendAbort, WaitAbort, vars, cardVars, sessionVars, deviceSeqVars,
         NoPartialDirectory, Greeted
<1>2. CASE SendHello
  <2>1. commands = <<>> /\ mounted
    BY <1>2 DEF SendHello, MayFail
  <2>2. commands' = <<Frame("HELLO", 0, <<>>)>>
    BY <1>2, <2>1 DEF SendHello
  <2>3. /\ Frame("HELLO", 0, <<>>) \in CommandFrames
        /\ Frame("HELLO", 0, <<>>).cmd = "HELLO" /\ Frame("HELLO", 0, <<>>).seq = 0
    BY SeqWraps DEF Frame, CommandFrames
  <2>4. HelloSent'
    BY <1>2, <2>2, <2>3 DEF SendHello, HelloSent
  <2>5. QED
    BY <1>1, <1>2, <2>1, <2>4 DEF SendHello, Handshake
<1>3. CASE WaitHello
  <2>1. CASE Answered({"ACK"}) /\ hostPc' = "begin"
    <3>1. replies # <<>> /\ Verdict = "ACK" /\ hostRx = NoSeq /\ hostTx = NextSeq(0)
      BY <1>3, <2>1 DEF WaitHello, Answered, TakeReply, Handshake
    <3>2. commands = <<>>
      BY <1>3, <3>1 DEF WaitHello, Handshake, HelloSent, HelloAnswered
    <3>3. PICK r \in ReplyFrames : replies = <<r>> /\ (r.kind = "ACK" => r.seq = 0 /\ Greeted)
      BY <1>3, <3>1 DEF WaitHello, Handshake, HelloSent, HelloAnswered
    <3>4. Head(replies) = r
      BY <3>3
    <3>5. r.kind = "ACK"
      BY <3>1, <3>4 DEF Verdict
    <3>6. hostRx' = NextSeq(0) /\ replies' = <<>>
      BY <2>1, <3>1, <3>3, <3>4, <3>5, OneFrameQueue DEF Answered, TakeReply
    <3>7. QED
      BY <1>1, <1>3, <2>1, <3>1, <3>2, <3>3, <3>5, <3>6 DEF WaitHello, Handshake
  <2>2. CASE hostPc' = "hello"
    BY <1>1, <2>2 DEF Handshake
  <2>3. QED
    BY <1>3, <2>1, <2>2 DEF WaitHello
<1>4. CASE WaitAbort
  <2>1. attempt' = 1 => hostPc' = "failed" \/ attempt = 0
    BY <1>4 DEF WaitAbort, SystemTInv, SystemTypeOK
  <2>2. hostPc' \in {"begin", "failed"} /\ mounted
    BY <1>4 DEF WaitAbort, Handshake
  <2>3. QED
    BY <1>1, <2>1, <2>2 DEF Handshake, SystemTInv, SystemTypeOK
<1>5. CASE SendBegin \/ WaitBegin \/ SendData \/ SendEnd \/ WaitEnd \/ SendAbort
  <2>1. hostPc # "hello" /\ hostPc' \in {"wait_begin", "data", "abort", "wait_end", "ok",
                                         "wait_abort"}
    BY <1>5 DEF SendBegin, WaitBegin, SendData, SendEnd, WaitEnd, SendAbort
  <2>2. QED
    BY <1>1, <2>1 DEF Handshake
<1>6. CASE HostRestart
  BY <1>1, <1>6 DEF HostRestart, Handshake
<1>7. QED
  BY <1>2, <1>3, <1>4, <1>5, <1>6 DEF HostStep

LEMMA HandshakeKept ==
    ASSUME "late" \notin LinkFaults, Faults \cap {"power", "power_in_command"} = {},
           SystemTInv, Handshake, [SystemNext]_systemVars
    PROVE  Handshake'
<1>1. CASE CardMounted
  <2>1. hostPc' = "hello" /\ mounted'
    BY <1>1 DEF CardMounted, MountSd, Handshake, hostVars
  <2>2. NoPartialDirectory'
    BY <1>1 DEF CardMounted, MountSd, Cleaned, Handshake, NoPartialDirectory
  <2>3. QED
    BY <2>1, <2>2 DEF Handshake
<1>2. CASE DeviceRestart
  BY <1>2 DEF DeviceRestart, PowerLoss
<1>3. CASE UNCHANGED systemVars
  BY <1>3 DEF systemVars, vars, cardVars, sessionVars, lineVars, deviceSeqVars, hostVars,
              Handshake, NoPartialDirectory, HelloSent, HelloAnswered, Greeted
<1>4. QED
  BY <1>1, <1>2, <1>3, LineKeepsHandshake, DeviceKeepsHandshake, HostKeepsHandshake
     DEF SystemNext, Finished

\* A host that has connected finds no session, no partial file and no sequence
\* number of an earlier host, whatever the line lost or damaged, as long as no
\* answer comes after its wait is over, the device keeps its power and the card
\* lets partial files be removed.
THEOREM ConnectsClean ==
    ASSUME "late" \notin LinkFaults,
           Faults \cap {"unlink", "power", "power_in_command", "app_mount"} = {}
    PROVE  SystemSpec => []ConnectStartsClean
<1>1. SystemInit => Handshake
  BY DEF SystemInit, Init, Handshake, NoPartialDirectory
<1>2. SystemTInv /\ Handshake /\ [SystemNext]_systemVars => Handshake'
  BY HandshakeKept
<1>3. ASSUME SystemTInv, NoPartialLeft, Handshake PROVE ConnectStartsClean
  <2>1. TempOf[Target] \in UploadNames
    BY TargetAssumption
  <2>2. hostPc = "begin" /\ ~transferActive => files[TempOf[Target]] = Absent
    BY <1>3, <2>1
       DEF Handshake, SystemTInv, IInv, SessionConsistent, NoPartialLeft, NoPartialDirectory, IsFile
  <2>3. QED
    BY <1>3, <2>2 DEF Handshake, Greeted, ConnectStartsClean
<1>4. Spec => []NoPartialLeft
  BY NoPartialStays
<1>5. QED
  BY <1>1, <1>2, <1>3, <1>4, DeviceKeepsSession, SystemTypes, PTL DEF SystemSpec

-----------------------------------------------------------------------------
(***************************************************************************)
(* The frames under way.                                                   *)
(***************************************************************************)
Connected == hostPc \notin {"hello", "wait_hello"}
Waiting == hostPc \in {"wait_begin", "wait_end"}
Starting == hostPc \in {"wait_hello", "begin", "wait_abort"}
Sending == hostPc \in {"wait_begin", "data", "wait_end"}

\* Where a chunk that starts at p ends, and where a frame leaves an upload that
\* it finds at p.
ReadEnd(p) == IF p + ChunkSize < Len(Source) THEN p + ChunkSize ELSE Len(Source)

After(f, p) ==
    IF f.cmd = "PUT_FILE_DATA" THEN ReadEnd(p)
    ELSE IF f.cmd = "PUT_FILE_END" THEN Len(Source)
    ELSE 0

Fits(f, p) ==
    /\ f.cmd = "PUT_FILE_DATA" =>
          p < Len(Source) /\ f.payload = SubSeq(Source, p + 1, ReadEnd(p))
    /\ f.cmd = "PUT_FILE_END" => p = Len(Source)
    /\ f.cmd = "PUT_FILE_BEGIN" => p = 0

SeqAt(c, next, i) == IF i <= Len(c) THEN c[i].seq ELSE next

\* The numbers that the device may expect before the i-th frame of c: a HELLO is
\* taken whatever its number.
SeqsAt(c, next, i) ==
    IF i <= Len(c) /\ c[i].cmd = "HELLO" THEN 0 .. Modulus ELSE {SeqAt(c, next, i)}

\* The i-th frame of c belongs at pos[i] of the file, and what the host sends
\* next at the last of pos.  One follows the other, in number and in place, and
\* is undamaged; but for the g-th, if g is not 0.
InPlace(c, next, pos, g, i) ==
    /\ Fits(c[i], pos[i])
    /\ i # g => c[i].good
    /\ i + 1 # g => /\ NextSeq(c[i].seq) \in SeqsAt(c, next, i + 1)
                    /\ pos[i + 1] = After(c[i], pos[i])

Chain(c, next, pos, g) ==
    /\ g \in 0 .. Len(c) + 1
    /\ pos \in [1 .. Len(c) + 1 -> 0 .. Len(Source)]
    /\ \A i \in 1 .. Len(c) : InPlace(c, next, pos, g, i)

\* An ABORT, a BEGIN, DATA, an END, an ABORT; each number is 0 or 1.
Kind(cmd, i, n, old, begin, end, abort) ==
    /\ i <= old => cmd = "PUT_FILE_ABORT"
    /\ old < i /\ i <= old + begin => cmd = "PUT_FILE_BEGIN"
    /\ old + begin < i /\ i <= n - end - abort => cmd = "PUT_FILE_DATA"
    /\ n - end - abort < i /\ i <= n - abort => cmd = "PUT_FILE_END"
    /\ n - abort < i => cmd = "PUT_FILE_ABORT"

Shape(c, old, begin, end, abort) ==
    /\ old + begin + end + abort <= Len(c)
    /\ \A i \in 1 .. Len(c) : Kind(c[i].cmd, i, Len(c), old, begin, end, abort)

\* The device expects the first of them, unless a frame before it went wrong.
UnderWay(pos, g) ==
    /\ Chain(commands, hostTx, pos, g)
    /\ g # 1 => deviceRx \in {NoSeq} \cup SeqsAt(commands, hostTx, 1)
    /\ Sending => pos[Len(commands) + 1] = sent
    /\ Starting => pos[Len(commands) + 1] = 0

(***************************************************************************)
(* The device's upload: it has the file up to p, or less of it.            *)
(***************************************************************************)
Follows(p) == transferActive /\ Len(received) = p /\ received = SubSeq(Source, 1, p)
Behind(p) == transferActive /\ Len(received) < p
Stored == files[Target] = Source

NoAnswer == replies = <<>>
Acks == \A i \in 1 .. Len(replies) : replies[i].kind = "ACK"
Nacks(n) == Len(replies) = n /\ \A i \in 1 .. n : replies[i].kind = "NACK"

\* An attempt that nothing disturbs.  The answers may be one ahead of the host
\* after an attempt that was disturbed.
OnCourse(pos, old, begin, end, ahead) ==
    /\ UnderWay(pos, 0) /\ Shape(commands, old, begin, end, 0)
    /\ Acks /\ Len(replies) + old + begin + end = ahead + (IF Waiting THEN 1 ELSE 0)
    /\ faults = 0 => attempt = 1 /\ ahead = 0 /\ old = 0
    /\ old = 1 \/ begin = 1 \/ hostPc = "begin" => ~transferActive
    /\ \/ hostPc = "begin" /\ begin = 0 /\ Len(commands) = old
       \/ hostPc = "wait_begin" /\ old <= begin /\ Len(commands) = old + begin
       \/ hostPc = "data" /\ old = 0 /\ end = 0
       \/ hostPc \in {"wait_end", "ok"} /\ old = 0 /\ (end = 0 => Len(commands) = 0 /\ Stored)
    /\ old + begin = 0 /\ (hostPc \in {"wait_begin", "data"} \/ end = 1) => Follows(pos[1])

Undisturbed ==
    \E pos : \E old, begin, end, ahead \in 0 .. 1 : OnCourse(pos, old, begin, end, ahead)

\* BEGIN was lost or damaged.
BeginAstray ==
    /\ hostPc = "wait_begin" /\ attempt = 1 /\ NoAnswer /\ ~transferActive
    /\ \E pos : UnderWay(pos, 1)
    /\ \/ Len(commands) = 0
       \/ Len(commands) = 1 /\ Shape(commands, 0, 1, 0, 0) /\ ~commands[1].good

\* The g-th frame was damaged or the one before it lost: the device gets to its
\* place too early.
GoneAstray(pos, g, end) ==
    LET d == IF g = 1 THEN Len(received) ELSE After(commands[g - 1], pos[g - 1])
        endLost == hostPc = "wait_end" /\ end = 0 /\ g = Len(commands) + 1
    IN
    /\ UnderWay(pos, g) /\ Shape(commands, 0, 0, end, 0)
    /\ IF g = 1 THEN transferActive ELSE Follows(pos[1])
    /\ d <= pos[g]
    /\ d = pos[g] => endLost \/ (g <= Len(commands) /\ ~commands[g].good)
    /\ hostPc = "data" => end = 0
    /\ hostPc = "wait_end" => (endLost /\ d = pos[g]) \/ (end = 1 /\ g <= Len(commands))

Astray ==
    /\ hostPc \in {"data", "wait_end"} /\ attempt = 1 /\ NoAnswer
    /\ \E pos : \E g \in 1 .. Len(commands) + 1, end \in 0 .. 1 : GoneAstray(pos, g, end)

\* The device has gone on from there, and may have refused a frame.
FallenBehind ==
    /\ hostPc \in {"data", "wait_end"} /\ attempt = 1
    /\ NoAnswer \/ Nacks(1)
    /\ \E pos :
          /\ UnderWay(pos, 0) /\ Behind(pos[1])
          /\ Shape(commands, 0, 0, IF hostPc = "data" THEN 0 ELSE 1, 0)

\* The host has yet to read that its BEGIN or END is refused.
Refusal ==
    /\ hostPc \in {"wait_begin", "wait_end"} /\ attempt \in 1 .. 2
    /\ commands = <<>> /\ \E pos : UnderWay(pos, 0)
    /\ Nacks(1) \/ (Nacks(2) /\ ~transferActive)

\* The host gives the attempt up; its ABORT may be refused, and an answer may
\* be one ahead of it.
GivingUp(pos, g, end, abort) ==
    /\ UnderWay(pos, g) /\ Shape(commands, 0, 0, end, abort)
    /\ g = 1 => /\ Len(commands) = abort /\ NoAnswer
                /\ transferActive => attempt = 1
    /\ Len(commands) > abort => Behind(pos[1])
    /\ IF hostPc = "abort" \/ abort = 1
       THEN /\ hostPc = "abort" => abort = 0
            /\ Nacks(Len(replies)) /\ Len(replies) + end <= 1
            /\ Len(replies) = 1 => ~transferActive
       ELSE /\ commands = <<>> /\ g = 0
            /\ \/ /\ Len(replies) = 2 /\ ~transferActive
                  /\ replies[1].kind = "NACK" /\ replies[2].kind = "ACK"
               \/ Len(replies) = 1 /\ Acks /\ ~transferActive
               \/ Nacks(1) /\ (transferActive => attempt = 1)

Aborting ==
    /\ hostPc \in {"abort", "wait_abort"} /\ attempt \in 1 .. 2
    /\ \E pos : \E g, end, abort \in 0 .. 1 : GivingUp(pos, g, end, abort)

\* The upload of the first attempt is still open: the second cannot begin.
LeftOpen ==
    /\ hostPc \in {"begin", "wait_begin"} /\ attempt = 2 /\ NoAnswer /\ transferActive
    /\ \E pos : UnderWay(pos, 0)
    /\ IF hostPc = "begin" THEN commands = <<>>
       ELSE Len(commands) = 1 /\ Shape(commands, 0, 1, 0, 0)

Disturbed == BeginAstray \/ Astray \/ FallenBehind \/ Refusal \/ Aborting \/ LeftOpen

(***************************************************************************)
(* Whatever goes wrong: the only upload is this one, and each answer comes *)
(* in its turn.                                                            *)
(***************************************************************************)
OneSession ==
    /\ mounted /\ ~benchmarkMode
    /\ transferActive => transferPath = Target /\ transferTotal = Len(Source)

OneUpload ==
    /\ OneSession
    /\ \A i \in 1 .. Len(commands) : commands[i].cmd # "HELLO"

AnswersInTurn ==
    /\ SeqAt(replies, deviceTx, 1) = hostRx
    /\ \A i \in 1 .. Len(replies) :
          replies[i].good /\ SeqAt(replies, deviceTx, i + 1) = NextSeq(replies[i].seq)

-----------------------------------------------------------------------------
(***************************************************************************)
(* What a command added, taken, lost or damaged makes of the frames.       *)
(***************************************************************************)
LEMMA SourceTyped ==
    /\ Source \in Data /\ Len(Source) \in Nat /\ Len(Source) \in Totals
    /\ ChunkSize \in Nat \ {0} /\ Modulus \in Nat \ {0}
BY SourceAssumption, ChunkAssumption, LinkAssumption, LenProperties DEF Data

LEMMA AfterTyped ==
    ASSUME NEW f, NEW p \in 0 .. Len(Source)
    PROVE  /\ After(f, p) \in 0 .. Len(Source) /\ ReadEnd(p) \in 0 .. Len(Source)
           /\ p < Len(Source) => p < ReadEnd(p)
BY SourceTyped DEF After, ReadEnd

LEMMA RemovedElements ==
    ASSUME NEW S, NEW s \in Seq(S), NEW i \in 1 .. Len(s)
    PROVE  /\ RemoveAt(s, i) \in Seq(S) /\ Len(RemoveAt(s, i)) = Len(s) - 1
           /\ \A j \in 1 .. Len(s) - 1 : RemoveAt(s, i)[j] = IF j < i THEN s[j] ELSE s[j + 1]
<1>1. Len(s) \in Nat /\ DOMAIN s = 1 .. Len(s)
  BY LenProperties
<1>2. RemoveAt(s, i) \in Seq(S) /\ Len(RemoveAt(s, i)) = Len(s) - 1
  BY <1>1, Removed
<1>3. PICK h \in Int : h = i - 1
  BY <1>1
<1>4. PICK k \in Int : k = i + 1
  BY <1>1
<1>5. PICK left : left = SubSeq(s, 1, h)
  OBVIOUS
<1>6. PICK right : right = SubSeq(s, k, Len(s))
  OBVIOUS
<1>7. left \in Seq(S) /\ Len(left) = h /\ \A j \in 1 .. h : left[j] = s[j]
  <2>1. \A m \in 1 .. h : s[m] \in S
    BY <1>1, <1>3, ElementOfSeq
  <2>2. QED
    BY <1>1, <1>3, <1>5, <2>1, SubSeqProperties
<1>8. /\ right \in Seq(S) /\ Len(right) = Len(s) - i
      /\ \A j \in 1 .. Len(s) - i : right[j] = s[i + j]
  <2>1. \A m \in k .. Len(s) : s[m] \in S
    BY <1>1, <1>4, ElementOfSeq
  <2>2. SubSeq(s, k, Len(s)) \in Seq(S)
        /\ Len(SubSeq(s, k, Len(s))) = (IF k <= Len(s) THEN Len(s) - k + 1 ELSE 0)
        /\ \A j \in 1 .. Len(s) - k + 1 : SubSeq(s, k, Len(s))[j] = s[k + j - 1]
    BY <1>1, <1>4, <2>1, SubSeqProperties
  <2>3. \A j \in 1 .. Len(s) - i : j \in 1 .. Len(s) - k + 1 /\ k + j - 1 = i + j
    BY <1>1, <1>4
  <2>4. (IF k <= Len(s) THEN Len(s) - k + 1 ELSE 0) = Len(s) - i
    <3>1. PICK m \in Nat : m = Len(s)
      BY <1>1
    <3>2. i \in 1 .. m
      BY <3>1
    <3>3. (IF k <= m THEN m - k + 1 ELSE 0) = m - i
      BY <1>4, <3>2
    <3>4. QED
      BY <3>1, <3>3
  <2>5. \A j \in 1 .. Len(s) - i : right[j] = s[k + j - 1]
    BY <1>6, <2>2, <2>3
  <2>6. QED
    BY <1>6, <2>2, <2>3, <2>4, <2>5
<1>9. RemoveAt(s, i) = left \o right
  BY <1>3, <1>4, <1>5, <1>6 DEF RemoveAt
<1>10. \A j \in 1 .. Len(left) + Len(right) :
          (left \o right)[j] = IF j <= Len(left) THEN left[j] ELSE right[j - Len(left)]
  BY <1>7, <1>8, ConcatProperties
<1>11. ASSUME NEW j \in 1 .. Len(s) - 1
       PROVE  RemoveAt(s, i)[j] = IF j < i THEN s[j] ELSE s[j + 1]
  <2>1. j \in 1 .. Len(left) + Len(right)
    BY <1>1, <1>3, <1>7, <1>8
  <2>2. RemoveAt(s, i)[j] = IF j <= h THEN left[j] ELSE right[j - h]
    BY <1>7, <1>9, <1>10, <2>1
  <2>3. CASE j < i
    BY <1>1, <1>3, <1>7, <2>2, <2>3
  <2>4. CASE ~(j < i)
    <3>1. j - h \in 1 .. Len(s) - i /\ i + (j - h) = j + 1 /\ ~(j <= h)
      BY <1>1, <1>3, <2>4
    <3>2. QED
      BY <1>8, <2>2, <2>4, <3>1
  <2>5. QED
    BY <2>3, <2>4
<1>12. QED
  BY <1>2, <1>11

LEMMA NextTyped ==
    ASSUME NEW c \in Seq(CommandFrames), NEW i \in 1 .. Len(c)
    PROVE  NextSeq(c[i].seq) \in 0 .. Modulus
<1>1. c[i].seq \in 0 .. Modulus - 1
  BY ElementOfSeq DEF CommandFrames
<1>2. QED
  BY <1>1, SeqWraps

LEMMA ChainSent ==
    ASSUME NEW c \in Seq(CommandFrames), NEW next, NEW pos, NEW g, Chain(c, next, pos, g),
           NEW f \in CommandFrames, f.good, f.seq = next \/ f.cmd = "HELLO",
           Fits(f, pos[Len(c) + 1])
    PROVE  \E pos2 : /\ Chain(Append(c, f), NextSeq(f.seq), pos2, g)
                     /\ \A i \in 1 .. Len(c) + 1 : pos2[i] = pos[i]
                     /\ pos2[Len(c) + 2] = After(f, pos[Len(c) + 1])
<1> DEFINE n == Len(c)
           d == Append(c, f)
           p == [i \in 1 .. n + 2 |-> IF i = n + 2 THEN After(f, pos[n + 1]) ELSE pos[i]]
<1>1. n \in Nat
  BY LenProperties
<1>2. d \in Seq(CommandFrames) /\ Len(d) = n + 1 /\ d[n + 1] = f /\ \A i \in 1 .. n : d[i] = c[i]
  BY AppendProperties
<1>3. \A i \in 1 .. n + 1 : pos[i] \in 0 .. Len(Source)
  BY <1>1 DEF Chain
<1>4. After(f, pos[n + 1]) \in 0 .. Len(Source)
  BY <1>1, <1>3, AfterTyped
<1>5. p \in [1 .. Len(d) + 1 -> 0 .. Len(Source)]
  BY <1>1, <1>2, <1>3, <1>4
<1>6. g \in 0 .. Len(d) + 1
  BY <1>1, <1>2 DEF Chain
<1>7. \A i \in 1 .. n + 1 :
         \A s \in 0 .. Modulus : s \in SeqsAt(c, next, i) => s \in SeqsAt(d, NextSeq(f.seq), i)
  BY <1>1, <1>2 DEF SeqsAt, SeqAt
<1>8. SeqsAt(d, NextSeq(f.seq), n + 2) = {NextSeq(f.seq)}
  BY <1>1, <1>2 DEF SeqsAt, SeqAt
<1>9. \A i \in 1 .. n + 1 : p[i] = pos[i]
  BY <1>1
<1>10. p[n + 2] = After(f, pos[n + 1])
  BY <1>1
<1> HIDE DEF p, d
<1>11. ASSUME NEW i \in 1 .. n + 1
       PROVE  InPlace(d, NextSeq(f.seq), p, g, i)
  <2>1. CASE i \in 1 .. n
    <3>1. i + 1 \in 1 .. n + 1 /\ d[i] = c[i] /\ p[i] = pos[i] /\ p[i + 1] = pos[i + 1]
      BY <1>1, <1>2, <1>9, <2>1
    <3>2. NextSeq(c[i].seq) \in SeqsAt(c, next, i + 1) =>
             NextSeq(c[i].seq) \in SeqsAt(d, NextSeq(f.seq), i + 1)
      BY <1>7, <2>1, <3>1, NextTyped
    <3>3. InPlace(c, next, pos, g, i)
      BY <2>1 DEF Chain
    <3>4. QED
      BY <3>1, <3>2, <3>3 DEF InPlace
  <2>2. CASE i = n + 1
    <3>1. i + 1 = n + 2 /\ d[i] = f /\ p[i] = pos[n + 1]
      BY <1>1, <1>2, <1>9, <2>2
    <3>2. QED
      BY <1>8, <1>10, <3>1 DEF InPlace
  <2>3. QED
    BY <1>1, <2>1, <2>2
<1>12. Chain(d, NextSeq(f.seq), p, g)
  BY <1>1, <1>2, <1>5, <1>6, <1>11 DEF Chain
<1>13. QED
  BY <1>9, <1>10, <1>12 DEF d

LEMMA ChainTaken ==
    ASSUME NEW c \in Seq(CommandFrames), c # <<>>, NEW next, NEW pos, NEW g,
           Chain(c, next, pos, g)
    PROVE  /\ SeqsAt(Tail(c), next, 1) = SeqsAt(c, next, 2)
           /\ \E pos2 : /\ Chain(Tail(c), next, pos2, IF g = 0 THEN 0 ELSE g - 1)
                        /\ \A i \in 1 .. Len(c) : pos2[i] = pos[i + 1]
<1> DEFINE n == Len(c)
           d == Tail(c)
           p == [i \in 1 .. n |-> pos[i + 1]]
           h == IF g = 0 THEN 0 ELSE g - 1
<1>1. n \in Nat \ {0}
  BY EmptySeq
<1>2. d \in Seq(CommandFrames) /\ Len(d) = n - 1 /\ \A i \in 1 .. n - 1 : d[i] = c[i + 1]
  BY HeadTailProperties
<1>3. p \in [1 .. Len(d) + 1 -> 0 .. Len(Source)]
  BY <1>1, <1>2 DEF Chain
<1>4. h \in 0 .. Len(d) + 1
  BY <1>1, <1>2 DEF Chain
<1>5. \A i \in 1 .. n : SeqsAt(d, next, i) = SeqsAt(c, next, i + 1)
  BY <1>1, <1>2 DEF SeqsAt, SeqAt
<1>6. \A i \in 1 .. n : p[i] = pos[i + 1]
  OBVIOUS
<1>7. \A i \in 1 .. n - 1 : i + 1 \in 1 .. n /\ (i + 1 = g <=> i = h) /\ (i + 2 = g <=> i + 1 = h)
  BY <1>1 DEF Chain
<1> HIDE DEF p, d, h
<1>8. ASSUME NEW i \in 1 .. n - 1
      PROVE  InPlace(d, next, p, h, i)
  <2>1. PICK k \in 1 .. n : k = i + 1
    BY <1>7
  <2>2. d[i] = c[k] /\ p[i] = pos[k] /\ p[i + 1] = pos[k + 1]
        /\ SeqsAt(d, next, i + 1) = SeqsAt(c, next, k + 1)
    BY <1>1, <1>2, <1>5, <1>6, <2>1
  <2>3. (k = g <=> i = h) /\ (k + 1 = g <=> i + 1 = h)
    BY <1>1, <1>7, <2>1, i + 2 = k + 1
  <2>4. InPlace(c, next, pos, g, k)
    BY DEF Chain
  <2>5. QED
    BY <2>2, <2>3, <2>4 DEF InPlace
<1>9. Chain(d, next, p, h)
  BY <1>2, <1>3, <1>4, <1>8 DEF Chain
<1>10. SeqsAt(d, next, 1) = SeqsAt(c, next, 2)
  BY <1>1, <1>5
<1>11. QED
  BY <1>6, <1>9, <1>10 DEF d, h

LEMMA ChainLost ==
    ASSUME NEW c \in Seq(CommandFrames), NEW i \in 1 .. Len(c), NEW next, NEW pos,
           Chain(c, next, pos, 0)
    PROVE  \E pos2 : /\ Chain(RemoveAt(c, i), next, pos2, i)
                     /\ \A j \in 1 .. Len(c) : pos2[j] = IF j < i THEN pos[j] ELSE pos[j + 1]
<1> DEFINE n == Len(c)
           d == RemoveAt(c, i)
           p == [j \in 1 .. n |-> IF j < i THEN pos[j] ELSE pos[j + 1]]
<1>1. n \in Nat
  BY LenProperties
<1>2. /\ d \in Seq(CommandFrames) /\ Len(d) = n - 1
      /\ \A j \in 1 .. n - 1 : d[j] = IF j < i THEN c[j] ELSE c[j + 1]
  BY RemovedElements
<1>3. p \in [1 .. Len(d) + 1 -> 0 .. Len(Source)]
  BY <1>1, <1>2 DEF Chain
<1>4. \A j \in 1 .. n : p[j] = IF j < i THEN pos[j] ELSE pos[j + 1]
  OBVIOUS
<1>5. \A j \in 1 .. n :
         SeqsAt(d, next, j) = IF j < i THEN SeqsAt(c, next, j) ELSE SeqsAt(c, next, j + 1)
  <2>1. \A j \in 1 .. n :
           SeqAt(d, next, j) = IF j < i THEN SeqAt(c, next, j) ELSE SeqAt(c, next, j + 1)
    BY <1>1, <1>2 DEF SeqAt
  <2>2. \A j \in 1 .. n :
           /\ j <= Len(d) <=> IF j < i THEN j <= Len(c) ELSE j + 1 <= Len(c)
           /\ j <= Len(d) => d[j] = IF j < i THEN c[j] ELSE c[j + 1]
    BY <1>1, <1>2
  <2> HIDE DEF d
  <2>3. QED
    BY <2>1, <2>2 DEF SeqsAt
<1> HIDE DEF p, d
<1>6. ASSUME NEW j \in 1 .. n - 1
      PROVE  InPlace(d, next, p, i, j)
  <2>1. PICK k \in 1 .. n : k = IF j < i THEN j ELSE j + 1
    BY <1>1
  <2>2. d[j] = c[k] /\ p[j] = pos[k]
    <3>1. j \in 1 .. n
      BY <1>1
    <3>2. CASE j < i
      BY <1>2, <1>4, <2>1, <3>1, <3>2
    <3>3. CASE ~(j < i)
      BY <1>2, <1>4, <2>1, <3>1, <3>3
    <3>4. QED
      BY <3>2, <3>3
  <2>3. /\ Fits(c[k], pos[k]) /\ c[k].good
        /\ NextSeq(c[k].seq) \in SeqsAt(c, next, k + 1) /\ pos[k + 1] = After(c[k], pos[k])
    <3>1. k # 0 /\ k + 1 # 0
      BY <1>1
    <3>2. QED
      BY <3>1 DEF Chain, InPlace
  <2>4. j + 1 # i => SeqsAt(d, next, j + 1) = SeqsAt(c, next, k + 1) /\ p[j + 1] = pos[k + 1]
    <3>1. ASSUME j + 1 # i PROVE j + 1 \in 1 .. n /\ (k + 1 = IF j + 1 < i THEN j + 1 ELSE j + 2)
      BY <1>1, <2>1, <3>1
    <3>2. QED
      BY <1>1, <1>4, <1>5, <3>1
  <2>5. QED
    BY <2>2, <2>3, <2>4 DEF InPlace
<1>7. Chain(d, next, p, i)
  BY <1>1, <1>2, <1>3, <1>6 DEF Chain
<1>8. QED
  BY <1>4, <1>7 DEF d

LEMMA ChainDamaged ==
    ASSUME NEW c \in Seq(CommandFrames), NEW i \in 1 .. Len(c), NEW next, NEW pos,
           Chain(c, next, pos, 0)
    PROVE  /\ Chain(Damaged(c, i), next, pos, i)
           /\ Len(Damaged(c, i)) = Len(c) /\ Damaged(c, i) \in Seq(CommandFrames)
           /\ ~Damaged(c, i)[i].good
           /\ \A j \in 1 .. Len(c) : Damaged(c, i)[j].cmd = c[j].cmd
<1> DEFINE d == Damaged(c, i)
           e == [c[i] EXCEPT !.good = FALSE]
<1>1. Len(c) \in Nat
  BY LenProperties
<1>2. c[i] \in CommandFrames
  BY ElementOfSeq
<1>3. e \in CommandFrames /\ e.cmd = c[i].cmd /\ e.seq = c[i].seq /\ e.payload = c[i].payload
      /\ e.good = FALSE
  BY <1>2 DEF CommandFrames
<1> HIDE DEF e
<1>4. d = [c EXCEPT ![i] = e]
  BY DEF Damaged, e
<1>5. /\ d \in Seq(CommandFrames) /\ Len(d) = Len(c)
      /\ \A j \in 1 .. Len(c) : d[j] = IF j = i THEN e ELSE c[j]
  BY <1>3, <1>4, ExceptSeq
<1> HIDE DEF d
<1>6. \A j \in 1 .. Len(c) : /\ d[j].cmd = c[j].cmd /\ d[j].seq = c[j].seq
                             /\ d[j].payload = c[j].payload /\ (j # i => d[j].good = c[j].good)
  BY <1>3, <1>5
<1>7. \A j \in 1 .. Len(c) + 1 : SeqsAt(d, next, j) = SeqsAt(c, next, j)
  <2>1. \A j \in 1 .. Len(c) + 1 : SeqAt(d, next, j) = SeqAt(c, next, j)
    BY <1>1, <1>5, <1>6 DEF SeqAt
  <2>2. \A j \in 1 .. Len(c) + 1 : j <= Len(c) => d[j].cmd = c[j].cmd
    BY <1>1, <1>6
  <2>3. QED
    BY <1>5, <2>1, <2>2 DEF SeqsAt
<1>8. ASSUME NEW j \in 1 .. Len(c)
      PROVE  InPlace(d, next, pos, i, j)
  <2>1. /\ Fits(c[j], pos[j]) /\ c[j].good
        /\ NextSeq(c[j].seq) \in SeqsAt(c, next, j + 1) /\ pos[j + 1] = After(c[j], pos[j])
    <3>1. j # 0 /\ j + 1 # 0
      BY <1>1
    <3>2. QED
      BY <3>1 DEF Chain, InPlace
  <2>2. Fits(d[j], pos[j]) /\ After(d[j], pos[j]) = After(c[j], pos[j])
    BY <1>6, <2>1 DEF Fits, After
  <2>3. SeqsAt(d, next, j + 1) = SeqsAt(c, next, j + 1)
    BY <1>1, <1>7
  <2>4. QED
    BY <1>6, <2>1, <2>2, <2>3 DEF InPlace
<1>9. Chain(d, next, pos, i)
  BY <1>1, <1>5, <1>8 DEF Chain
<1>10. QED
  BY <1>3, <1>5, <1>6, <1>9 DEF d

\* What the shape says of the first and the last frame, and what becomes of it.
LEMMA KindGrows ==
    ASSUME NEW cmd, NEW n \in Nat, NEW i \in 1 .. n, NEW old \in 0 .. 1, NEW begin \in 0 .. 1,
           NEW end \in 0 .. 1
    PROVE  /\ n = old /\ Kind(cmd, i, n, old, 0, 0, 0) => Kind(cmd, i, n + 1, old, 1, 0, 0)
           /\ Kind(cmd, i, n, old, begin, 0, 0) => Kind(cmd, i, n + 1, old, begin, 0, 0)
           /\ Kind(cmd, i, n, old, begin, 0, 0) => Kind(cmd, i, n + 1, old, begin, 1, 0)
           /\ Kind(cmd, i, n, old, begin, end, 0) => Kind(cmd, i, n + 1, old, begin, end, 1)
<1>1. n = old /\ Kind(cmd, i, n, old, 0, 0, 0) => Kind(cmd, i, n + 1, old, 1, 0, 0)
  BY DEF Kind
<1>2. Kind(cmd, i, n, old, begin, 0, 0) => Kind(cmd, i, n + 1, old, begin, 0, 0)
  BY DEF Kind
<1>3. Kind(cmd, i, n, old, begin, 0, 0) => Kind(cmd, i, n + 1, old, begin, 1, 0)
  BY DEF Kind
<1>4. Kind(cmd, i, n, old, begin, end, 0) => Kind(cmd, i, n + 1, old, begin, end, 1)
  BY DEF Kind
<1>5. QED
  BY <1>1, <1>2, <1>3, <1>4

LEMMA KindShifts ==
    ASSUME NEW cmd, NEW n \in Nat, NEW i \in 1 .. n - 1,
           NEW begin \in 0 .. 1, NEW end \in 0 .. 1, NEW abort \in 0 .. 1
    PROVE  /\ Kind(cmd, i + 1, n, 1, begin, end, abort) => Kind(cmd, i, n - 1, 0, begin, end, abort)
           /\ Kind(cmd, i + 1, n, 0, 1, end, abort) => Kind(cmd, i, n - 1, 0, 0, end, abort)
           /\ Kind(cmd, i + 1, n, 0, 0, end, abort) => Kind(cmd, i, n - 1, 0, 0, end, abort)
           /\ Kind(cmd, i, n, 0, 0, end, 0) => Kind(cmd, i, n - 1, 0, 0, 0, 0)
           /\ Kind(cmd, i, n, 0, 0, end, 0) /\ i < n - 1 => Kind(cmd, i, n - 1, 0, 0, end, 0)
<1>1. Kind(cmd, i + 1, n, 1, begin, end, abort) => Kind(cmd, i, n - 1, 0, begin, end, abort)
  BY DEF Kind
<1>2. Kind(cmd, i + 1, n, 0, 1, end, abort) => Kind(cmd, i, n - 1, 0, 0, end, abort)
  BY DEF Kind
<1>3. Kind(cmd, i + 1, n, 0, 0, end, abort) => Kind(cmd, i, n - 1, 0, 0, end, abort)
  BY DEF Kind
<1>4. Kind(cmd, i, n, 0, 0, end, 0) => Kind(cmd, i, n - 1, 0, 0, 0, 0)
  BY DEF Kind
<1>5. Kind(cmd, i, n, 0, 0, end, 0) /\ i < n - 1 => Kind(cmd, i, n - 1, 0, 0, end, 0)
  BY DEF Kind
<1>6. QED
  BY <1>1, <1>2, <1>3, <1>4, <1>5

LEMMA ShapeSent ==
    ASSUME NEW c \in Seq(CommandFrames), NEW f \in CommandFrames,
           NEW old \in 0 .. 1, NEW begin \in 0 .. 1, NEW end \in 0 .. 1
    PROVE  /\ Shape(c, old, 0, 0, 0) /\ Len(c) = old /\ f.cmd = "PUT_FILE_BEGIN"
                 => Shape(Append(c, f), old, 1, 0, 0)
           /\ Shape(c, old, begin, 0, 0) /\ f.cmd = "PUT_FILE_DATA"
                 => Shape(Append(c, f), old, begin, 0, 0)
           /\ Shape(c, old, begin, 0, 0) /\ f.cmd = "PUT_FILE_END"
                 => Shape(Append(c, f), old, begin, 1, 0)
           /\ Shape(c, old, begin, end, 0) /\ f.cmd = "PUT_FILE_ABORT"
                 => Shape(Append(c, f), old, begin, end, 1)
<1> DEFINE d == Append(c, f)
<1>1. PICK n \in Nat : n = Len(c)
  BY LenProperties
<1>2. Len(d) = n + 1 /\ d[n + 1] = f /\ \A i \in 1 .. n : d[i] = c[i]
  BY <1>1, AppendProperties
<1>3. \A i \in 1 .. n + 1 : i \in 1 .. n \/ i = n + 1
  BY <1>1
<1> HIDE DEF d
<1>4. ASSUME Shape(c, old, 0, 0, 0), n = old, f.cmd = "PUT_FILE_BEGIN"
      PROVE  Shape(d, old, 1, 0, 0)
  <2>1. \A i \in 1 .. n : Kind(d[i].cmd, i, n + 1, old, 1, 0, 0)
    BY <1>1, <1>2, <1>4, KindGrows DEF Shape
  <2>2. Kind(f.cmd, n + 1, n + 1, old, 1, 0, 0)
    BY <1>4 DEF Kind
  <2>3. QED
    BY <1>1, <1>2, <1>3, <1>4, <2>1, <2>2 DEF Shape
<1>5. ASSUME Shape(c, old, begin, 0, 0), f.cmd = "PUT_FILE_DATA"
      PROVE  Shape(d, old, begin, 0, 0)
  <2>1. \A i \in 1 .. n : Kind(d[i].cmd, i, n + 1, old, begin, 0, 0)
    BY <1>1, <1>2, <1>5, KindGrows DEF Shape
  <2>2. Kind(f.cmd, n + 1, n + 1, old, begin, 0, 0) /\ old + begin <= n
    BY <1>1, <1>5 DEF Kind, Shape
  <2>3. QED
    BY <1>1, <1>2, <1>3, <1>5, <2>1, <2>2 DEF Shape
<1>6. ASSUME Shape(c, old, begin, 0, 0), f.cmd = "PUT_FILE_END"
      PROVE  Shape(d, old, begin, 1, 0)
  <2>1. \A i \in 1 .. n : Kind(d[i].cmd, i, n + 1, old, begin, 1, 0)
    BY <1>1, <1>2, <1>6, KindGrows DEF Shape
  <2>2. Kind(f.cmd, n + 1, n + 1, old, begin, 1, 0) /\ old + begin <= n
    BY <1>1, <1>6 DEF Kind, Shape
  <2>3. QED
    BY <1>1, <1>2, <1>3, <1>6, <2>1, <2>2 DEF Shape
<1>7. ASSUME Shape(c, old, begin, end, 0), f.cmd = "PUT_FILE_ABORT"
      PROVE  Shape(d, old, begin, end, 1)
  <2>1. \A i \in 1 .. n : Kind(d[i].cmd, i, n + 1, old, begin, end, 1)
    BY <1>1, <1>2, <1>7, KindGrows DEF Shape
  <2>2. Kind(f.cmd, n + 1, n + 1, old, begin, end, 1) /\ old + begin + end <= n
    BY <1>1, <1>7 DEF Kind, Shape
  <2>3. QED
    BY <1>1, <1>2, <1>3, <1>7, <2>1, <2>2 DEF Shape
<1>8. QED
  BY <1>1, <1>4, <1>5, <1>6, <1>7 DEF d

LEMMA ShapeTaken ==
    ASSUME NEW c \in Seq(CommandFrames), c # <<>>, NEW old \in 0 .. 1, NEW begin \in 0 .. 1,
           NEW end \in 0 .. 1, NEW abort \in 0 .. 1, Shape(c, old, begin, end, abort)
    PROVE  /\ Head(c) = c[1] /\ Head(c) \in CommandFrames
           /\ Tail(c) \in Seq(CommandFrames) /\ Len(Tail(c)) = Len(c) - 1 /\ Len(c) \in Nat \ {0}
           /\ \/ /\ old = 1 /\ Head(c).cmd = "PUT_FILE_ABORT"
                 /\ Shape(Tail(c), 0, begin, end, abort)
              \/ /\ old = 0 /\ begin = 1 /\ Head(c).cmd = "PUT_FILE_BEGIN"
                 /\ Shape(Tail(c), 0, 0, end, abort)
              \/ /\ old = 0 /\ begin = 0 /\ Len(c) > end + abort /\ Head(c).cmd = "PUT_FILE_DATA"
                 /\ Shape(Tail(c), 0, 0, end, abort)
              \/ /\ old = 0 /\ begin = 0 /\ end = 1 /\ Len(c) = 1 + abort
                 /\ Head(c).cmd = "PUT_FILE_END" /\ Shape(Tail(c), 0, 0, 0, abort)
              \/ /\ old = 0 /\ begin = 0 /\ end = 0 /\ abort = 1 /\ Len(c) = 1
                 /\ Head(c).cmd = "PUT_FILE_ABORT" /\ Shape(Tail(c), 0, 0, 0, 0)
<1> DEFINE d == Tail(c)
<1>1. PICK n \in Nat : n = Len(c) /\ n > 0
  BY EmptySeq
<1>2. /\ Head(c) = c[1] /\ Head(c) \in CommandFrames /\ d \in Seq(CommandFrames)
      /\ Len(d) = n - 1 /\ \A i \in 1 .. n - 1 : d[i] = c[i + 1]
  BY <1>1, HeadTailProperties
<1>3. \A i \in 1 .. n - 1 : i + 1 \in 1 .. n
  BY <1>1
<1>4. Kind(c[1].cmd, 1, n, old, begin, end, abort) /\ old + begin + end + abort <= n
  BY <1>1 DEF Shape
<1>5. \A i \in 1 .. n - 1 : Kind(d[i].cmd, i + 1, n, old, begin, end, abort)
  BY <1>1, <1>2, <1>3 DEF Shape
<1> HIDE DEF d
<1>6. CASE old = 1
  <2>1. Head(c).cmd = "PUT_FILE_ABORT"
    BY <1>2, <1>4, <1>6 DEF Kind
  <2>2. \A i \in 1 .. n - 1 : Kind(d[i].cmd, i, n - 1, 0, begin, end, abort)
    BY <1>5, <1>6, KindShifts
  <2>3. Shape(d, 0, begin, end, abort)
    BY <1>1, <1>2, <1>4, <1>6, <2>2 DEF Shape
  <2>4. QED
    BY <1>1, <1>2, <1>6, <2>1, <2>3 DEF d
<1>7. CASE old = 0 /\ begin = 1
  <2>1. Head(c).cmd = "PUT_FILE_BEGIN"
    BY <1>2, <1>4, <1>7 DEF Kind
  <2>2. \A i \in 1 .. n - 1 : Kind(d[i].cmd, i, n - 1, 0, 0, end, abort)
    BY <1>5, <1>7, KindShifts
  <2>3. Shape(d, 0, 0, end, abort)
    BY <1>1, <1>2, <1>4, <1>7, <2>2 DEF Shape
  <2>4. QED
    BY <1>1, <1>2, <1>7, <2>1, <2>3 DEF d
<1>8. CASE old = 0 /\ begin = 0 /\ n > end + abort
  <2>1. Head(c).cmd = "PUT_FILE_DATA"
    BY <1>2, <1>4, <1>8 DEF Kind
  <2>2. \A i \in 1 .. n - 1 : Kind(d[i].cmd, i, n - 1, 0, 0, end, abort)
    BY <1>5, <1>8, KindShifts
  <2>3. Shape(d, 0, 0, end, abort)
    BY <1>1, <1>2, <1>4, <1>8, <2>2 DEF Shape
  <2>4. QED
    BY <1>1, <1>2, <1>8, <2>1, <2>3 DEF d
<1>9. CASE old = 0 /\ begin = 0 /\ end = 1 /\ n = 1 + abort
  <2>1. Head(c).cmd = "PUT_FILE_END"
    BY <1>2, <1>4, <1>9 DEF Kind
  <2>2. \A i \in 1 .. n - 1 : Kind(d[i].cmd, i, n - 1, 0, 0, 0, abort)
    BY <1>5, <1>9 DEF Kind
  <2>3. Shape(d, 0, 0, 0, abort)
    BY <1>1, <1>2, <1>4, <1>9, <2>2 DEF Shape
  <2>4. QED
    BY <1>1, <1>2, <1>9, <2>1, <2>3 DEF d
<1>10. CASE old = 0 /\ begin = 0 /\ end = 0 /\ abort = 1 /\ n = 1
  <2>1. Head(c).cmd = "PUT_FILE_ABORT"
    BY <1>2, <1>4, <1>10 DEF Kind
  <2>2. Shape(d, 0, 0, 0, 0)
    BY <1>1, <1>2, <1>10 DEF Shape
  <2>3. QED
    BY <1>1, <1>2, <1>10, <2>1, <2>2 DEF d
<1>11. old = 1 \/ (old = 0 /\ begin = 1) \/ (old = 0 /\ begin = 0 /\ n > end + abort)
       \/ (old = 0 /\ begin = 0 /\ end = 1 /\ n = 1 + abort)
       \/ (old = 0 /\ begin = 0 /\ end = 0 /\ abort = 1 /\ n = 1)
  BY <1>1, <1>4
<1>12. QED
  BY <1>6, <1>7, <1>8, <1>9, <1>10, <1>11

\* Of DATA and an END, one is lost, or any is damaged.
LEMMA ShapeLost ==
    ASSUME NEW c \in Seq(CommandFrames), NEW i \in 1 .. Len(c), NEW end \in 0 .. 1,
           Shape(c, 0, 0, end, 0)
    PROVE  Shape(RemoveAt(c, i), 0, 0, IF i = Len(c) THEN 0 ELSE end, 0)
<1> DEFINE d == RemoveAt(c, i)
<1>1. PICK n \in Nat : n = Len(c)
  BY LenProperties
<1>2. Len(d) = n - 1 /\ \A j \in 1 .. n - 1 : d[j] = IF j < i THEN c[j] ELSE c[j + 1]
  BY <1>1, RemovedElements
<1>3. \A j \in 1 .. n - 1 : j \in 1 .. n /\ j + 1 \in 1 .. n
  BY <1>1
<1>4. \A j \in 1 .. n : Kind(c[j].cmd, j, n, 0, 0, end, 0)
  BY <1>1 DEF Shape
<1>5. i \in 1 .. n /\ end <= n
  BY <1>1 DEF Shape
<1> HIDE DEF d
<1>6. CASE i = n
  <2>1. \A j \in 1 .. n - 1 : d[j] = c[j]
    BY <1>1, <1>2, <1>6
  <2>2. \A j \in 1 .. n - 1 : Kind(d[j].cmd, j, n - 1, 0, 0, 0, 0)
    BY <1>3, <1>4, <2>1, KindShifts
  <2>3. Shape(d, 0, 0, 0, 0)
    BY <1>1, <1>2, <1>5, <2>2 DEF Shape
  <2>4. QED
    BY <1>1, <1>6, <2>3 DEF d
<1>7. CASE i < n
  <2>1. ASSUME NEW j \in 1 .. n - 1 PROVE Kind(d[j].cmd, j, n - 1, 0, 0, end, 0)
    <3>1. CASE j < i
      <4>1. j < n - 1 /\ d[j] = c[j] /\ Kind(c[j].cmd, j, n, 0, 0, end, 0)
        BY <1>2, <1>3, <1>4, <1>5, <1>7, <3>1
      <4>2. QED
        BY <1>1, <4>1, KindShifts
    <3>2. CASE ~(j < i)
      <4>1. d[j] = c[j + 1] /\ Kind(c[j + 1].cmd, j + 1, n, 0, 0, end, 0)
        BY <1>2, <1>3, <1>4, <1>5, <1>7, <3>2
      <4>2. QED
        BY <1>1, <4>1, KindShifts
    <3>3. QED
      BY <3>1, <3>2
  <2>2. Shape(d, 0, 0, end, 0)
    BY <1>1, <1>2, <1>5, <1>7, <2>1 DEF Shape
  <2>3. QED
    BY <1>1, <1>5, <1>7, <2>2 DEF d
<1>8. QED
  BY <1>1, <1>5, <1>6, <1>7

LEMMA ShapeDamaged ==
    ASSUME NEW c, NEW d, Len(d) = Len(c), \A j \in 1 .. Len(c) : d[j].cmd = c[j].cmd,
           NEW old, NEW begin, NEW end, NEW abort, Shape(c, old, begin, end, abort)
    PROVE  Shape(d, old, begin, end, abort)
BY DEF Shape

-----------------------------------------------------------------------------
(***************************************************************************)
(* What the device makes of a command of this upload.                      *)
(***************************************************************************)
LEMMA TargetPath ==
    /\ Target \in PutNames /\ Target \in PutPaths /\ Target \in Names /\ Target \in UserNames
    /\ Target \notin BenchmarkPaths \cup OffCardPaths \cup LongPaths
    /\ TempOf[Target] \in UploadNames /\ TempOf[Target] # Target
BY TargetAssumption, PathAssumption DEF PutPaths, UserNames

LEMMA BeginIs ==
    ASSUME IInv, OneSession, PutFileBegin(Target, Len(Source))
    PROVE  /\ OneSession'
           /\ transferActive => /\ reply' = <<"ERR_TRANSFER_ACTIVE">>
                                /\ UNCHANGED <<transferActive, received>>
           /\ ~transferActive =>
                 \/ reply' = <<"ACK">> /\ transferActive' /\ received' = <<>>
                 \/ ~transferActive' /\ reply' \in {<<"ERR_DISK_FULL">>, <<"ERR_IO_ERROR">>}
<1>1. CASE transferActive /\ Refuse("ERR_TRANSFER_ACTIVE")
  BY <1>1 DEF OneSession, Refuse, Sends, cardVars, sessionVars
<1>2. CASE BeginTooLong(Target, Len(Source)) \/ BeginBenchmark(Target, Len(Source))
  BY <1>2, TargetPath DEF BeginTooLong, BeginBenchmark
<1>3. CASE BeginRefused(Target, Len(Source))
  <2>1. PICK e \in BeginRefusal(Target, Len(Source)) : Sends(e)
    BY <1>3 DEF BeginRefused
  <2>2. e \in {"ERR_DISK_FULL", "ERR_IO_ERROR"}
    BY <2>1, TargetPath DEF BeginRefusal, OneSession
  <2>3. QED
    BY <1>3, <2>1, <2>2 DEF BeginRefused, Idle, Sends, OneSession, cardVars
<1>4. CASE BeginAccepted(Target, Len(Source))
  BY <1>4 DEF BeginAccepted, Idle, Sends, OneSession
<1>5. QED
  BY <1>1, <1>2, <1>3, <1>4 DEF PutFileBegin

LEMMA DataIs ==
    ASSUME "write" \notin Faults, IInv, OneSession, NEW payload \in Payloads,
           PutFileData(payload)
    PROVE  /\ OneSession'
           /\ transferActive /\ Len(received) + Len(payload) <= Len(Source) =>
                 /\ reply' = <<>> /\ transferActive'
                 /\ received' = received \o payload
<1>1. payload \in Seq(Bytes) /\ received \in Seq(Bytes)
  BY DEF IInv, TypeOK, Data
<1>2. Len(payload) \in Nat /\ Len(received) \in Nat
  BY <1>1, LenProperties
<1>3. transferActive /\ Len(received) + Len(payload) <= Len(Source) => ~TooMuch(payload)
  BY <1>2, SourceTyped DEF TooMuch, OneSession, IInv, SessionConsistent
<1>4. transferActive => transferFile
  BY DEF OneSession, IInv, SessionConsistent
<1>5. CASE (~transferActive \/ (~benchmarkMode /\ ~transferFile)) /\ Refuse("ERR_NO_TRANSFER")
  BY <1>4, <1>5 DEF OneSession, Refuse, cardVars, sessionVars
<1>6. CASE TooMuch(payload) /\ AbortActiveTransfer(files)
  BY <1>3, <1>6 DEF OneSession, AbortActiveTransfer
<1>7. CASE /\ reply' = <<>> /\ received' = received \o payload
           /\ UNCHANGED <<mounted, transferActive, transferTotal, transferPath, benchmarkMode>>
  BY <1>7 DEF OneSession
<1>8. QED
  BY <1>5, <1>6, <1>7 DEF PutFileData, cardVars, OneSession

LEMMA EndIs ==
    ASSUME "app_mount" \notin Faults, IInv, OneSession, PutFileEnd
    PROVE  /\ OneSession' /\ ~transferActive'
           /\ transferActive /\ Len(received) # Len(Source) =>
                 reply' = <<"ERR_IO_ERROR">> /\ ~UploadComplete
           /\ transferActive /\ received = Source =>
                 /\ UploadComplete
                 /\ \/ reply' = <<"ACK">> /\ files'[Target] = Source
                    \/ reply' = <<"ERR_IO_ERROR">>
<1>1. UploadComplete <=> transferBytes = transferTotal
  BY DEF UploadComplete, IInv, SessionConsistent
<1>2. transferActive => (UploadComplete <=> Len(received) = Len(Source))
  BY <1>1 DEF OneSession, IInv, SessionConsistent
<1>3. CASE ~transferActive /\ Refuse("ERR_NO_TRANSFER")
  BY <1>3 DEF OneSession, Refuse, cardVars, sessionVars
<1>4. ASSUME NEW fs, EndFails(fs)
      PROVE  OneSession' /\ ~transferActive' /\ reply' = <<"ERR_IO_ERROR">>
  BY <1>4 DEF EndFails, AbortActiveTransfer, OneSession, Sends
<1>5. CASE transferActive /\ ~UploadComplete /\ EndFails(files)
  BY <1>2, <1>4, <1>5
<1>6. CASE transferActive /\ UploadComplete /\ (CloseFails \/ TargetStays \/ RenameFails)
  BY <1>2, <1>4, <1>6 DEF CloseFails, TargetStays, RenameFails
<1>7. CASE transferActive /\ UploadComplete /\ CommitBenchmark
  BY <1>7 DEF CommitBenchmark, OneSession
<1>8. CASE transferActive /\ UploadComplete /\ CommitUpload
  <2>1. transferPath = Target /\ transferTempPath = TempOf[Target]
        /\ files[TempOf[Target]] = received /\ files \in [Names -> Entry]
    BY <1>8, UploadOnCard
       DEF OneSession, IInv, SessionConsistent, PartialFile, TypeOK
  <2>2. files'[Target] = received
    BY <1>8, <2>1, TargetPath DEF CommitUpload, TargetRemoved
  <2>3. OneSession' /\ ~transferActive' /\ reply' = <<"ACK">>
    BY <1>8 DEF CommitUpload, EndSession, OneSession, Sends
  <2>4. QED
    BY <1>2, <1>8, <2>2, <2>3
<1>9. QED
  BY <1>3, <1>5, <1>6, <1>7, <1>8 DEF PutFileEnd

LEMMA AbortIs ==
    ASSUME IInv, OneSession, PutFileAbort
    PROVE  OneSession' /\ ~transferActive' /\ reply' = <<"ACK">>
BY DEF PutFileAbort, AbortActiveTransfer, OneSession, Sends

\* A handler of this upload sends one answer or none.
LEMMA AnswersOnce ==
    ASSUME NEW f \in CommandFrames, f.cmd # "HELLO", Dispatch(f)
    PROVE  reply' = <<>> \/ \E e \in Replies : reply' = <<e>>
<1>1. "ACK" \in Replies /\ "ERR_IO_ERROR" \in Replies /\ "ERR_NO_TRANSFER" \in Replies
      /\ "ERR_TRANSFER_ACTIVE" \in Replies /\ "ERR_PATH_TOO_LONG" \in Replies
  BY DEF Replies, Errors
<1>2. CASE PutFileBegin(Target, Len(Source))
  <2>1. \A e \in BeginRefusal(Target, Len(Source)) : e \in Replies
    BY DEF BeginRefusal, Replies, Errors
  <2>2. QED
    BY <1>1, <1>2, <2>1
       DEF PutFileBegin, Refuse, Sends, BeginTooLong, BeginBenchmark, BeginRefused, BeginAccepted
<1>3. CASE PutFileData(f.payload)
  BY <1>1, <1>3 DEF PutFileData, Refuse, Sends
<1>4. CASE PutFileEnd
  BY <1>1, <1>4
     DEF PutFileEnd, Refuse, Sends, EndFails, CommitBenchmark, CloseFails, TargetStays, RenameFails,
         CommitUpload
<1>5. CASE PutFileAbort
  BY <1>1, <1>5 DEF PutFileAbort, Sends
<1>6. QED
  BY <1>2, <1>3, <1>4, <1>5 DEF Dispatch

LEMMA DispatchAnswers ==
    ASSUME SystemTypeOK, NEW f \in CommandFrames, f.cmd # "HELLO", Dispatches(f)
    PROVE  \/ reply' = <<>> /\ replies' = replies /\ deviceTx' = deviceTx
           \/ \E e \in Replies :
                 /\ reply' = <<e>> /\ deviceTx' = NextSeq(deviceTx)
                 /\ replies' = Append(replies,
                                      Reply(IF e \in Errors THEN "NACK" ELSE "ACK", deviceTx))
<1>1. deviceTx \in 0 .. Modulus - 1 /\ deviceTx \in Nat /\ replies \in Seq(ReplyFrames)
  BY SeqWraps DEF SystemTypeOK
<1>2. deviceTx % Modulus = deviceTx
  BY <1>1, LinkAssumption
<1>3. CASE reply' = <<>>
  <2>1. Numbered(reply', deviceTx) = <<>>
    BY <1>3 DEF Numbered
  <2>2. Len(reply') = 0
    BY <1>3
  <2>3. deviceTx + 0 = deviceTx
    BY <1>1
  <2>4. replies \o <<>> = replies
    BY <1>1, ConcatEmptySeq
  <2>5. QED
    BY <1>2, <1>3, <2>1, <2>2, <2>3, <2>4 DEF Dispatches
<1>4. ASSUME NEW e \in Replies, reply' = <<e>>
      PROVE  /\ deviceTx' = NextSeq(deviceTx)
             /\ replies' = Append(replies, Reply(IF e \in Errors THEN "NACK" ELSE "ACK", deviceTx))
  <2> DEFINE r == Reply(IF e \in Errors THEN "NACK" ELSE "ACK", deviceTx)
  <2>1. DOMAIN reply' = {1} /\ reply'[1] = e /\ Len(reply') = 1
    BY <1>4
  <2>2. deviceTx + 1 - 1 = deviceTx
    BY <1>1
  <2>3. Numbered(reply', deviceTx) = [i \in {1} |-> r]
    BY <1>2, <2>1, <2>2 DEF Numbered
  <2>4. r \in ReplyFrames
    BY <1>1 DEF Reply, ReplyFrames
  <2> HIDE DEF r
  <2>5. [i \in {1} |-> r] = <<r>>
    OBVIOUS
  <2>6. Append(replies, r) = replies \o <<r>>
    BY <1>1, <2>4, AppendIsConcat
  <2>7. replies' = replies \o Numbered(reply', deviceTx)
    BY DEF Dispatches
  <2>8. deviceTx' = NextSeq(deviceTx)
    BY <2>1 DEF Dispatches, NextSeq
  <2>9. QED
    BY <2>3, <2>5, <2>6, <2>7, <2>8 DEF r
<1>5. QED
  BY <1>3, <1>4, AnswersOnce DEF Dispatches

-----------------------------------------------------------------------------
(***************************************************************************)
(* The frames under way, step by step.                                     *)
(***************************************************************************)
LEMMA UnderWayTyped ==
    ASSUME SystemTypeOK, NEW pos, NEW g, UnderWay(pos, g)
    PROVE  /\ commands \in Seq(CommandFrames) /\ Len(commands) \in Nat
           /\ g \in 0 .. Len(commands) + 1
           /\ \A i \in 1 .. Len(commands) + 1 : pos[i] \in 0 .. Len(Source)
           /\ \A i \in 1 .. Len(commands) : /\ InPlace(commands, hostTx, pos, g, i)
                                            /\ commands[i] \in CommandFrames
<1>1. commands \in Seq(CommandFrames) /\ Len(commands) \in Nat
  BY LenProperties DEF SystemTypeOK
<1>2. \A i \in 1 .. Len(commands) : commands[i] \in CommandFrames
  BY <1>1, ElementOfSeq
<1>3. QED
  BY <1>1, <1>2 DEF UnderWay, Chain

\* Unless a frame before it went wrong, the device accepts the next one; and
\* once it has answered the one that comes out of place, the rest are in place.
LEMMA UnderWayTaken ==
    ASSUME SystemTypeOK, DeviceStep, NEW pos, NEW g, UnderWay(pos, g)
    PROVE  /\ g # 1 => Head(commands).good /\ Accepts(Head(commands))
           /\ g # 2 => pos[2] = After(Head(commands), pos[1])
           /\ Fits(Head(commands), pos[1])
           /\ \E pos2 : /\ UnderWay(pos2, IF g = 0 THEN 0 ELSE g - 1)'
                        /\ \A i \in 1 .. Len(commands) : pos2[i] = pos[i + 1]
<1> DEFINE n == Len(commands)
           h == IF g = 0 THEN 0 ELSE g - 1
<1>1. /\ commands \in Seq(CommandFrames) /\ commands # <<>> /\ n \in Nat \ {0}
      /\ Head(commands) = commands[1] /\ Len(Tail(commands)) = n - 1
  BY EmptySeq, HeadTailProperties DEF SystemTypeOK, DeviceStep
<1>2. InPlace(commands, hostTx, pos, g, 1) /\ g \in 0 .. n + 1
  BY <1>1, UnderWayTyped
<1>3. /\ Fits(Head(commands), pos[1])
      /\ g # 1 => Head(commands).good
      /\ g # 2 => /\ NextSeq(Head(commands).seq) \in SeqsAt(commands, hostTx, 2)
                  /\ pos[2] = After(Head(commands), pos[1])
  BY <1>1, <1>2 DEF InPlace
<1>4. Head(commands).cmd = "HELLO" \/ SeqsAt(commands, hostTx, 1) = {Head(commands).seq}
  BY <1>1 DEF SeqsAt, SeqAt
<1>5. g # 1 => Accepts(Head(commands))
  BY <1>3, <1>4 DEF UnderWay, Accepts
<1>6. PICK pos2 : /\ Chain(Tail(commands), hostTx, pos2, h)
                  /\ \A i \in 1 .. n : pos2[i] = pos[i + 1]
  BY <1>1, ChainTaken DEF UnderWay
<1>7. commands' = Tail(commands) /\ hostTx' = hostTx /\ hostPc' = hostPc /\ sent' = sent
  BY DEF DeviceStep, hostVars
<1>8. h # 1 => deviceRx' \in {NoSeq} \cup SeqsAt(commands', hostTx', 1)
  <2>1. CASE Rejects
    BY <2>1 DEF Rejects
  <2>2. CASE Dispatches(Head(commands))
    <3>1. h # 1 => g # 2
      BY <1>2
    <3>2. SeqsAt(commands', hostTx', 1) = SeqsAt(commands, hostTx, 2)
      BY <1>1, <1>7, ChainTaken DEF UnderWay
    <3>3. QED
      BY <1>3, <2>2, <3>1, <3>2 DEF Dispatches
  <2>3. QED
    BY <2>1, <2>2 DEF DeviceStep
<1>9. pos2[Len(commands') + 1] = pos[n + 1]
  BY <1>1, <1>6, <1>7
<1>10. UnderWay(pos2, h)'
  BY <1>6, <1>7, <1>8, <1>9 DEF UnderWay, Sending, Starting
<1>11. QED
  BY <1>3, <1>5, <1>6, <1>10

\* One frame more, behind the others.
Longer(pos, g) ==
    /\ Len(commands') = Len(commands) + 1 /\ commands' # <<>>
    /\ \A i \in 1 .. Len(commands) : commands'[i] = commands[i]
    /\ \E pos2 : /\ UnderWay(pos2, g)'
                 /\ \A i \in 1 .. Len(commands) + 1 : pos2[i] = pos[i]

\* The frame is the host's next one, or a HELLO, which starts the numbers again.
LEMMA UnderWayGrows ==
    ASSUME SystemTypeOK, NEW f \in CommandFrames, f.good, f.seq = hostTx \/ f.cmd = "HELLO",
           commands' = Append(commands, f), hostTx' = NextSeq(f.seq), UNCHANGED deviceRx,
           NEW pos, NEW g, UnderWay(pos, g), Fits(f, pos[Len(commands) + 1]),
           Sending' => sent' = After(f, pos[Len(commands) + 1]),
           Starting' => After(f, pos[Len(commands) + 1]) = 0
    PROVE  Longer(pos, g)
<1> DEFINE n == Len(commands)
<1>1. commands \in Seq(CommandFrames) /\ n \in Nat /\ deviceRx \in 0 .. Modulus
  BY LenProperties DEF SystemTypeOK
<1>2. Len(commands') = n + 1 /\ commands' # <<>> /\ commands'[n + 1] = f
      /\ \A i \in 1 .. n : commands'[i] = commands[i]
  BY <1>1, AppendProperties
<1>3. PICK pos2 : /\ Chain(commands', hostTx', pos2, g)
                  /\ \A i \in 1 .. n + 1 : pos2[i] = pos[i]
                  /\ pos2[n + 2] = After(f, pos[n + 1])
  BY <1>1, ChainSent DEF UnderWay
<1>4. deviceRx \in SeqsAt(commands, hostTx, 1) => deviceRx \in SeqsAt(commands', hostTx', 1)
  BY <1>1, <1>2 DEF SeqsAt, SeqAt
<1>5. Len(commands') + 1 = n + 2
  BY <1>1, <1>2
<1>6. UnderWay(pos2, g)'
  BY <1>3, <1>4, <1>5 DEF UnderWay
<1>7. QED
  BY <1>2, <1>3, <1>6 DEF Longer

LEMMA UnderWaySent ==
    ASSUME SystemTypeOK, NEW cmd, NEW payload, Send(cmd, payload), UNCHANGED deviceRx,
           Frame(cmd, hostTx, payload) \in CommandFrames, NEW pos, NEW g, UnderWay(pos, g),
           Fits(Frame(cmd, hostTx, payload), pos[Len(commands) + 1]),
           Sending' => sent' = After(Frame(cmd, hostTx, payload), pos[Len(commands) + 1]),
           Starting' => After(Frame(cmd, hostTx, payload), pos[Len(commands) + 1]) = 0
    PROVE  Longer(pos, g)
<1> DEFINE f == Frame(cmd, hostTx, payload)
<1>1. f.good /\ f.seq = hostTx
  BY DEF Frame
<1>2. commands' = Append(commands, f) /\ hostTx' = NextSeq(f.seq)
  BY <1>1 DEF Send
<1> HIDE DEF f
<1>3. QED
  BY <1>1, <1>2, UnderWayGrows DEF f

LEMMA BeginGrows ==
    ASSUME SystemTypeOK, SendBegin, NEW pos, NEW g, UnderWay(pos, g)
    PROVE  Longer(pos, g)
<1> DEFINE f == Frame("PUT_FILE_BEGIN", hostTx, <<>>)
<1>1. /\ hostPc = "begin" /\ hostPc' = "wait_begin" /\ sent' = 0
      /\ Send("PUT_FILE_BEGIN", <<>>) /\ deviceRx' = deviceRx
  BY DEF SendBegin, deviceSeqVars
<1>2. f \in CommandFrames /\ f.cmd = "PUT_FILE_BEGIN"
  BY DEF Frame, CommandFrames, SystemTypeOK
<1>3. pos[Len(commands) + 1] = 0
  BY <1>1 DEF UnderWay, Starting
<1>4. Fits(f, pos[Len(commands) + 1]) /\ After(f, pos[Len(commands) + 1]) = 0
  BY <1>2, <1>3 DEF Fits, After
<1> HIDE DEF f
<1>5. QED
  BY <1>1, <1>2, <1>4, UnderWaySent DEF f, Longer

LEMMA DataGrows ==
    ASSUME SystemTypeOK, SendData, NEW pos, NEW g, UnderWay(pos, g)
    PROVE  Longer(pos, g)
<1> DEFINE payload == SubSeq(Source, sent + 1, ReadTo)
           f == Frame("PUT_FILE_DATA", hostTx, payload)
<1>1. /\ hostPc = "data" /\ sent < Len(Source) /\ Send("PUT_FILE_DATA", payload)
      /\ hostPc' = "data" => sent' = ReadTo
      /\ hostPc' \in {"data", "abort"} /\ deviceRx' = deviceRx
  BY DEF SendData, deviceSeqVars
<1>2. payload \in Payloads
  BY <1>1, Read
<1>3. f \in CommandFrames /\ f.cmd = "PUT_FILE_DATA" /\ f.payload = payload
  BY <1>2 DEF Frame, CommandFrames, SystemTypeOK
<1>4. ReadTo = ReadEnd(sent)
  BY DEF ReadTo, ReadEnd
<1>5. pos[Len(commands) + 1] = sent
  BY <1>1 DEF UnderWay, Sending
<1>6. Fits(f, pos[Len(commands) + 1]) /\ After(f, pos[Len(commands) + 1]) = ReadTo
  BY <1>1, <1>3, <1>4, <1>5 DEF Fits, After
<1>7. (Sending' => sent' = ReadTo) /\ ~Starting'
  BY <1>1 DEF Sending, Starting
<1> HIDE DEF f, payload
<1>8. QED
  BY <1>1, <1>3, <1>6, <1>7, UnderWaySent DEF f, Longer

LEMMA EndGrows ==
    ASSUME SystemTypeOK, SendEnd, NEW pos, NEW g, UnderWay(pos, g)
    PROVE  Longer(pos, g)
<1> DEFINE f == Frame("PUT_FILE_END", hostTx, <<>>)
<1>1. /\ hostPc = "data" /\ hostPc' = "wait_end" /\ sent = Len(Source) /\ sent' = sent
      /\ Send("PUT_FILE_END", <<>>) /\ deviceRx' = deviceRx
  BY DEF SendEnd, deviceSeqVars
<1>2. f \in CommandFrames /\ f.cmd = "PUT_FILE_END"
  BY DEF Frame, CommandFrames, SystemTypeOK
<1>3. pos[Len(commands) + 1] = sent
  BY <1>1 DEF UnderWay, Sending
<1>4. Fits(f, pos[Len(commands) + 1]) /\ After(f, pos[Len(commands) + 1]) = sent'
  BY <1>1, <1>2, <1>3 DEF Fits, After
<1>5. ~Starting'
  BY <1>1 DEF Starting
<1> HIDE DEF f
<1>6. QED
  BY <1>1, <1>2, <1>4, <1>5, UnderWaySent DEF f, Longer

LEMMA AbortGrows ==
    ASSUME SystemTypeOK, SendAbort, NEW pos, NEW g, UnderWay(pos, g)
    PROVE  Longer(pos, g)
<1> DEFINE f == Frame("PUT_FILE_ABORT", hostTx, <<>>)
<1>1. Send("PUT_FILE_ABORT", <<>>) /\ deviceRx' = deviceRx /\ ~Sending'
  BY DEF SendAbort, deviceSeqVars, Sending
<1>2. f \in CommandFrames /\ f.cmd = "PUT_FILE_ABORT"
  BY DEF Frame, CommandFrames, SystemTypeOK
<1>3. \A p : Fits(f, p) /\ After(f, p) = 0
  BY <1>2 DEF Fits, After
<1> HIDE DEF f
<1>4. QED
  BY <1>1, <1>2, <1>3, UnderWaySent DEF f, Longer

LEMMA UnderWayStays ==
    ASSUME NEW pos, NEW g, UnderWay(pos, g), UNCHANGED <<commands, hostTx, deviceRx>>,
           Sending' => Sending /\ sent' = sent, Starting' => Starting
    PROVE  UnderWay(pos, g)'
BY DEF UnderWay

LEMMA UnderWayLost ==
    ASSUME SystemTypeOK, NEW pos, UnderWay(pos, 0), NEW i \in 1 .. Len(commands),
           commands' = RemoveAt(commands, i), UNCHANGED <<hostTx, deviceRx, hostPc, sent>>
    PROVE  \E pos2 : /\ UnderWay(pos2, i)'
                     /\ \A j \in 1 .. Len(commands) :
                           pos2[j] = IF j < i THEN pos[j] ELSE pos[j + 1]
<1> DEFINE n == Len(commands)
<1>1. commands \in Seq(CommandFrames) /\ n \in Nat
  BY LenProperties DEF SystemTypeOK
<1>2. PICK pos2 : /\ Chain(commands', hostTx, pos2, i)
                  /\ \A j \in 1 .. n : pos2[j] = IF j < i THEN pos[j] ELSE pos[j + 1]
  BY <1>1, ChainLost DEF UnderWay
<1>3. Len(commands') = n - 1 /\ \A j \in 1 .. n - 1 : commands'[j] = IF j < i THEN commands[j] ELSE commands[j + 1]
  BY <1>1, RemovedElements
<1>4. i # 1 => SeqsAt(commands', hostTx', 1) = SeqsAt(commands, hostTx, 1)
  <2>1. i # 1 => 1 <= Len(commands') /\ 1 <= Len(commands) /\ commands'[1] = commands[1]
    BY <1>1, <1>3
  <2>2. QED
    BY <2>1 DEF SeqsAt, SeqAt
<1>5. pos2[Len(commands') + 1] = pos[n + 1]
  <2>1. Len(commands') + 1 = n /\ n \in 1 .. n /\ ~(n < i)
    BY <1>1, <1>3
  <2>2. QED
    BY <1>2, <2>1
<1>6. UnderWay(pos2, i)'
  BY <1>2, <1>4, <1>5 DEF UnderWay, Sending, Starting
<1>7. QED
  BY <1>2, <1>6

LEMMA UnderWayDamaged ==
    ASSUME SystemTypeOK, NEW pos, UnderWay(pos, 0), NEW i \in 1 .. Len(commands),
           commands' = Damaged(commands, i), UNCHANGED <<hostTx, deviceRx, hostPc, sent>>
    PROVE  /\ UnderWay(pos, i)'
           /\ Len(commands') = Len(commands) /\ ~commands'[i].good
           /\ \A j \in 1 .. Len(commands) : commands'[j].cmd = commands[j].cmd
<1>1. commands \in Seq(CommandFrames) /\ Len(commands) \in Nat
  BY LenProperties DEF SystemTypeOK
<1>2. /\ Chain(commands', hostTx', pos, i)
      /\ Len(commands') = Len(commands) /\ ~commands'[i].good
      /\ \A j \in 1 .. Len(commands) : commands'[j].cmd = commands[j].cmd
  BY <1>1, ChainDamaged DEF UnderWay
<1>3. i # 1 => SeqsAt(commands', hostTx', 1) = SeqsAt(commands, hostTx, 1)
  <2>1. ASSUME i # 1, 1 <= Len(commands) PROVE commands'[1] = commands[1]
    BY <1>1, <2>1 DEF Damaged
  <2>2. QED
    BY <1>1, <1>2, <2>1 DEF SeqsAt, SeqAt
<1>4. QED
  BY <1>2, <1>3 DEF UnderWay, Sending, Starting

-----------------------------------------------------------------------------
(***************************************************************************)
(* The answers come in their turn.                                         *)
(***************************************************************************)
LEMMA ReplyTaken ==
    ASSUME SystemTypeOK, AnswersInTurn, TakeReply
    PROVE  /\ Verdict = replies[1].kind /\ replies[1].kind \in {"ACK", "NACK"}
           /\ Len(replies) \in Nat \ {0} /\ Len(replies') = Len(replies) - 1
           /\ \A i \in 1 .. Len(replies') : i + 1 \in 1 .. Len(replies) /\ replies'[i] = replies[i + 1]
           /\ deviceTx' = deviceTx => AnswersInTurn'
<1>1. /\ replies \in Seq(ReplyFrames) /\ replies # <<>> /\ Len(replies) \in Nat \ {0}
      /\ replies' = Tail(replies) /\ Head(replies) = replies[1] /\ replies[1] \in ReplyFrames
  BY EmptySeq, HeadTailProperties DEF SystemTypeOK, TakeReply
<1>2. /\ Len(replies') = Len(replies) - 1
      /\ \A i \in 1 .. Len(replies) - 1 : replies'[i] = replies[i + 1]
  BY <1>1, HeadTailProperties
<1>3. 1 \in 1 .. Len(replies)
  BY <1>1
<1>4. SeqAt(replies, deviceTx, 1) = replies[1].seq
  BY <1>3 DEF SeqAt
<1>5. replies[1].good /\ hostRx = replies[1].seq
      /\ SeqAt(replies, deviceTx, 2) = NextSeq(replies[1].seq)
  BY <1>3, <1>4 DEF AnswersInTurn
<1>6. Verdict = replies[1].kind /\ replies[1].kind \in {"ACK", "NACK"}
  BY <1>1, <1>5 DEF Verdict, ReplyFrames
<1>7. hostRx' = NextSeq(replies[1].seq)
  BY <1>1, <1>6 DEF TakeReply
<1>8. ASSUME deviceTx' = deviceTx PROVE AnswersInTurn'
  <2>1. \A i \in 1 .. Len(replies) : SeqAt(replies', deviceTx', i) = SeqAt(replies, deviceTx, i + 1)
    BY <1>1, <1>2, <1>8 DEF SeqAt
  <2>2. SeqAt(replies', deviceTx', 1) = hostRx'
    BY <1>3, <1>5, <1>7, <2>1
  <2>3. ASSUME NEW i \in 1 .. Len(replies')
        PROVE  replies'[i].good /\ SeqAt(replies', deviceTx', i + 1) = NextSeq(replies'[i].seq)
    <3>1. i + 1 \in 1 .. Len(replies) /\ replies'[i] = replies[i + 1]
      BY <1>1, <1>2
    <3>2. SeqAt(replies', deviceTx', i + 1) = SeqAt(replies, deviceTx, (i + 1) + 1)
      BY <2>1, <3>1
    <3>3. QED
      BY <3>1, <3>2 DEF AnswersInTurn
  <2>4. QED
    BY <2>2, <2>3 DEF AnswersInTurn
<1>9. \A i \in 1 .. Len(replies') : i + 1 \in 1 .. Len(replies) /\ replies'[i] = replies[i + 1]
  BY <1>1, <1>2
<1>10. QED
  BY <1>1, <1>2, <1>6, <1>8, <1>9

LEMMA ReplySent ==
    ASSUME SystemTypeOK, AnswersInTurn, NEW kind \in {"ACK", "NACK"}, UNCHANGED hostRx,
           replies' = Append(replies, Reply(kind, deviceTx)), deviceTx' = NextSeq(deviceTx)
    PROVE  /\ AnswersInTurn' /\ Len(replies) \in Nat /\ Len(replies') = Len(replies) + 1
           /\ \A i \in 1 .. Len(replies) : replies'[i] = replies[i]
           /\ replies'[Len(replies) + 1].kind = kind
<1> DEFINE r == Reply(kind, deviceTx)
<1>1. replies \in Seq(ReplyFrames) /\ Len(replies) \in Nat
  BY LenProperties DEF SystemTypeOK
<1>2. r \in ReplyFrames /\ r.good /\ r.seq = deviceTx /\ r.kind = kind
  BY DEF Reply, ReplyFrames, SystemTypeOK
<1> HIDE DEF r
<1>3. /\ Len(replies') = Len(replies) + 1 /\ replies'[Len(replies) + 1] = r
      /\ \A i \in 1 .. Len(replies) : replies'[i] = replies[i]
  BY <1>1, <1>2, AppendProperties DEF r
<1>4. \A i \in 1 .. Len(replies) + 1 : SeqAt(replies', deviceTx', i) = SeqAt(replies, deviceTx, i)
  BY <1>1, <1>2, <1>3 DEF SeqAt
<1>5. SeqAt(replies', deviceTx', Len(replies) + 2) = NextSeq(deviceTx)
  BY <1>1, <1>3 DEF SeqAt
<1>6. ASSUME NEW i \in 1 .. Len(replies')
      PROVE  replies'[i].good /\ SeqAt(replies', deviceTx', i + 1) = NextSeq(replies'[i].seq)
  <2>1. CASE i \in 1 .. Len(replies)
    <3>1. SeqAt(replies', deviceTx', i + 1) = SeqAt(replies, deviceTx, i + 1)
      BY <1>1, <1>4, <2>1
    <3>2. QED
      BY <1>3, <2>1, <3>1 DEF AnswersInTurn
  <2>2. CASE i = Len(replies) + 1
    <3>1. i + 1 = Len(replies) + 2
      BY <1>1, <2>2
    <3>2. QED
      BY <1>2, <1>3, <1>5, <2>2, <3>1
  <2>3. QED
    BY <1>1, <1>3, <2>1, <2>2
<1>7. SeqAt(replies', deviceTx', 1) = hostRx'
  BY <1>1, <1>4 DEF AnswersInTurn
<1>8. QED
  BY <1>1, <1>2, <1>3, <1>6, <1>7 DEF AnswersInTurn

-----------------------------------------------------------------------------
(***************************************************************************)
(* What holds however many commands are lost or damaged.                   *)
(***************************************************************************)
InTurn ==
    /\ ~Connected => attempt = 1
    /\ Connected => OneUpload /\ AnswersInTurn

\* One step of the device: it answers a command once, or not at all.
LEMMA DeviceAnswers ==
    ASSUME "write" \notin Faults, "app_mount" \notin Faults, SystemTInv, Connected,
           OneUpload, AnswersInTurn, DeviceStep
    PROVE  /\ Head(commands).cmd # "HELLO" /\ Head(commands) \in CommandFrames
           /\ OneUpload' /\ AnswersInTurn'
           /\ UNCHANGED hostVars
           /\ \/ reply' = <<>> /\ replies' = replies /\ Dispatches(Head(commands))
              \/ \E kind \in {"ACK", "NACK"} :
                    /\ replies' = Append(replies, Reply(kind, deviceTx))
                    /\ deviceTx' = NextSeq(deviceTx)
                    /\ \/ Rejects /\ kind = "NACK" /\ UNCHANGED <<vars, faults>>
                       \/ /\ Dispatches(Head(commands))
                          /\ \E e \in Replies :
                               reply' = <<e>> /\ kind = (IF e \in Errors THEN "NACK" ELSE "ACK")
<1> DEFINE f == Head(commands)
<1>1. /\ commands \in Seq(CommandFrames) /\ f \in CommandFrames /\ f = commands[1]
      /\ Len(commands) \in Nat \ {0}
      /\ Len(commands') = Len(commands) - 1
      /\ \A i \in 1 .. Len(commands) - 1 : commands'[i] = commands[i + 1]
  BY EmptySeq, HeadTailProperties DEF DeviceStep, SystemTInv, SystemTypeOK
<1>2. \A i \in 1 .. Len(commands') : i + 1 \in 1 .. Len(commands)
  BY <1>1
<1>3. f.cmd # "HELLO" /\ \A i \in 1 .. Len(commands') : commands'[i].cmd # "HELLO"
  BY <1>1, <1>2 DEF OneUpload
<1>4. UNCHANGED hostVars /\ UNCHANGED hostRx
  BY DEF DeviceStep, hostVars
<1>5. CASE Rejects
  <2>1. OneSession'
    BY <1>5 DEF Rejects, OneUpload, OneSession, vars, cardVars, sessionVars
  <2>2. replies' = Append(replies, Reply("NACK", deviceTx)) /\ deviceTx' = NextSeq(deviceTx)
        /\ UNCHANGED <<vars, faults>>
    BY <1>5 DEF Rejects
  <2>3. AnswersInTurn'
    BY <1>4, <2>2, ReplySent DEF SystemTInv
  <2>4. QED
    BY <1>1, <1>3, <1>4, <1>5, <2>1, <2>2, <2>3 DEF OneUpload
<1>6. CASE Dispatches(f)
  <2>1. OneSession'
    <3>1. f.cmd = "PUT_FILE_DATA" => f.payload \in Payloads
      BY <1>1 DEF CommandFrames
    <3>2. QED
      BY <1>3, <1>6, <3>1, BeginIs, DataIs, EndIs, AbortIs
         DEF Dispatches, Dispatch, OneUpload, SystemTInv
  <2>2. CASE reply' = <<>> /\ replies' = replies /\ deviceTx' = deviceTx
    <3>1. AnswersInTurn'
      BY <1>4, <2>2 DEF AnswersInTurn
    <3>2. QED
      BY <1>1, <1>3, <1>4, <1>6, <2>1, <2>2, <3>1 DEF OneUpload
  <2>3. ASSUME NEW e \in Replies, reply' = <<e>>, deviceTx' = NextSeq(deviceTx),
               NEW kind \in {"ACK", "NACK"}, kind = (IF e \in Errors THEN "NACK" ELSE "ACK"),
               replies' = Append(replies, Reply(kind, deviceTx))
        PROVE  AnswersInTurn'
    BY <1>4, <2>3, ReplySent DEF SystemTInv
  <2>4. QED
    BY <1>1, <1>3, <1>4, <1>6, <2>1, <2>2, <2>3, DispatchAnswers DEF OneUpload, SystemTInv
<1>7. QED
  BY <1>5, <1>6 DEF DeviceStep

LEMMA LineKeepsTurn ==
    ASSUME LinkFaults \subseteq {"lose_command", "corrupt_command"}, SystemTInv, InTurn, LineFault
    PROVE  InTurn' /\ UNCHANGED replies
<1>1. /\ UNCHANGED <<replies, hostPc, hostRx, attempt, mounted, benchmarkMode>>
      /\ UNCHANGED <<transferActive, transferPath, transferTotal, deviceTx>>
      /\ (\E i \in DOMAIN commands : commands' = RemoveAt(commands, i))
         \/ (\E i \in DOMAIN commands : commands' = Damaged(commands, i))
  BY DEF LineFault, MayFail, vars, cardVars, sessionVars, deviceSeqVars, hostVars
<1>2. commands \in Seq(CommandFrames) /\ DOMAIN commands = 1 .. Len(commands)
      /\ Len(commands) \in Nat
  BY LenProperties DEF SystemTInv, SystemTypeOK
<1>3. ASSUME \A i \in 1 .. Len(commands) : commands[i].cmd # "HELLO"
      PROVE  \A i \in 1 .. Len(commands') : commands'[i].cmd # "HELLO"
  <2>1. ASSUME NEW i \in 1 .. Len(commands), commands' = RemoveAt(commands, i),
               NEW j \in 1 .. Len(commands')
        PROVE  commands'[j].cmd # "HELLO"
    <3>1. Len(commands') = Len(commands) - 1
          /\ commands'[j] = IF j < i THEN commands[j] ELSE commands[j + 1]
      BY <1>2, <2>1, RemovedElements
    <3>2. j \in 1 .. Len(commands) /\ j + 1 \in 1 .. Len(commands)
      BY <1>2, <3>1
    <3>3. QED
      BY <1>3, <3>1, <3>2
  <2>2. ASSUME NEW i \in 1 .. Len(commands), commands' = Damaged(commands, i),
               NEW j \in 1 .. Len(commands')
        PROVE  commands'[j].cmd # "HELLO"
    <3>1. commands[i] \in CommandFrames
      BY <1>2, ElementOfSeq
    <3>2. PICK e : e = [commands[i] EXCEPT !.good = FALSE]
      OBVIOUS
    <3>3. e \in CommandFrames /\ e.cmd = commands[i].cmd
      BY <3>1, <3>2 DEF CommandFrames
    <3>4. commands' = [commands EXCEPT ![i] = e]
      BY <2>2, <3>2 DEF Damaged
    <3>5. Len(commands') = Len(commands) /\ commands'[j] = IF j = i THEN e ELSE commands[j]
      BY <1>2, <3>3, <3>4, ExceptSeq
    <3>6. QED
      BY <1>3, <3>3, <3>5
  <2>3. QED
    BY <1>1, <1>2, <2>1, <2>2
<1>4. QED
  BY <1>1, <1>3 DEF InTurn, Connected, OneUpload, OneSession, AnswersInTurn

LEMMA HostKeepsTurn ==
    ASSUME LinkFaults \subseteq {"lose_command", "corrupt_command"}, SystemTInv, Handshake',
           InTurn, HostStep \/ HostRestart
    PROVE  InTurn'
<1>1. /\ UNCHANGED <<mounted, benchmarkMode, transferActive, transferPath, transferTotal>>
      /\ OneSession' = OneSession /\ UNCHANGED <<deviceTx, deviceRx>>
  BY DEF HostStep, HostRestart, SendHello, WaitHello, SendBegin, WaitBegin, SendData, SendEnd,
         WaitEnd, SendAbort, WaitAbort, vars, cardVars, sessionVars, deviceSeqVars, OneSession
<1>2. CASE HostRestart
  BY <1>2 DEF HostRestart, InTurn, Connected
<1>3. CASE SendHello
  BY <1>3 DEF SendHello, InTurn, Connected
<1>4. CASE WaitHello
  <2>1. attempt' = 1
    BY <1>4 DEF WaitHello, InTurn, Connected
  <2>2. CASE hostPc' = "hello"
    BY <2>1, <2>2 DEF InTurn, Connected
  <2>3. CASE hostPc' = "begin"
    <3>1. /\ commands' = <<>> /\ replies' = <<>> /\ ~transferActive' /\ mounted'
          /\ deviceTx' = NextSeq(0) /\ hostRx' = NextSeq(0)
      BY <2>1, <2>3 DEF Handshake, Greeted
    <3>2. ~benchmarkMode'
      BY <1>1, <3>1 DEF SystemTInv, IInv, SessionConsistent
    <3>3. OneUpload'
      BY <3>1, <3>2 DEF OneUpload, OneSession
    <3>4. AnswersInTurn'
      BY <3>1 DEF AnswersInTurn, SeqAt
    <3>5. QED
      BY <2>3, <3>3, <3>4 DEF InTurn, Connected
  <2>4. QED
    BY <1>4, <2>2, <2>3 DEF WaitHello
<1>5. ASSUME Connected, Connected', NEW cmd, cmd # "HELLO", NEW payload, Send(cmd, payload),
             Frame(cmd, hostTx, payload) \in CommandFrames,
             UNCHANGED <<replies, hostRx>> \/ TakeReply
      PROVE  InTurn'
  <2>1. commands \in Seq(CommandFrames)
    BY DEF SystemTInv, SystemTypeOK
  <2>2. commands' = Append(commands, Frame(cmd, hostTx, payload))
        /\ Frame(cmd, hostTx, payload).cmd = cmd
    BY <1>5 DEF Send, Frame
  <2>3. Len(commands) \in Nat /\ Len(commands') = Len(commands) + 1
        /\ commands'[Len(commands) + 1].cmd # "HELLO"
        /\ \A i \in 1 .. Len(commands) : commands'[i] = commands[i]
    BY <1>5, <2>1, <2>2, AppendProperties, LenProperties
  <2>4. OneUpload'
    BY <1>1, <1>5, <2>3 DEF InTurn, OneUpload
  <2>5. AnswersInTurn'
    <3>1. AnswersInTurn
      BY <1>5 DEF InTurn
    <3>2. CASE UNCHANGED <<replies, hostRx>>
      BY <1>1, <3>1, <3>2 DEF AnswersInTurn
    <3>3. CASE TakeReply
      BY <1>1, <3>1, <3>3, ReplyTaken DEF SystemTInv
    <3>4. QED
      BY <1>5, <3>2, <3>3
  <2>6. QED
    BY <1>5, <2>4, <2>5 DEF InTurn
<1>6. hostTx \in 0 .. Modulus - 1
  BY DEF SystemTInv, SystemTypeOK
<1>7. CASE SendBegin \/ SendEnd \/ SendAbort
  <2>1. \A cmd \in {"PUT_FILE_BEGIN", "PUT_FILE_END", "PUT_FILE_ABORT"} :
           Frame(cmd, hostTx, <<>>) \in CommandFrames
    BY <1>6 DEF Frame, CommandFrames
  <2>2. Connected /\ Connected' /\ UNCHANGED <<replies, hostRx>>
    BY <1>7 DEF SendBegin, SendEnd, SendAbort, Connected
  <2>3. QED
    BY <1>5, <1>7, <2>1, <2>2 DEF SendBegin, SendEnd, SendAbort
<1>8. CASE SendData
  <2>1. Frame("PUT_FILE_DATA", hostTx, SubSeq(Source, sent + 1, ReadTo)) \in CommandFrames
    BY <1>6, <1>8, Read DEF Frame, CommandFrames, SendData, SystemTInv
  <2>2. Connected /\ Connected' /\ (UNCHANGED <<replies, hostRx>> \/ TakeReply)
    BY <1>8 DEF SendData, Connected
  <2>3. QED
    BY <1>5, <1>8, <2>1, <2>2 DEF SendData
<1>9. CASE WaitBegin \/ WaitEnd \/ WaitAbort
  <2>1. Connected /\ Connected' /\ UNCHANGED commands /\ (UNCHANGED <<replies, hostRx>> \/ TakeReply)
    BY <1>9 DEF WaitBegin, WaitEnd, WaitAbort, Connected, Answered, Refused, TimesOut
  <2>2. AnswersInTurn /\ OneUpload
    BY <2>1 DEF InTurn
  <2>3. AnswersInTurn'
    <3>1. CASE UNCHANGED <<replies, hostRx>>
      BY <1>1, <2>2, <3>1 DEF AnswersInTurn
    <3>2. QED
      BY <1>1, <2>1, <2>2, <3>1, ReplyTaken DEF SystemTInv
  <2>4. OneUpload'
    BY <1>1, <2>1, <2>2 DEF OneUpload
  <2>5. QED
    BY <2>1, <2>3, <2>4 DEF InTurn
<1>10. QED
  BY <1>2, <1>3, <1>4, <1>7, <1>8, <1>9 DEF HostStep

-----------------------------------------------------------------------------
(***************************************************************************)
(* What a command does to an upload that has come as far as it, or not.    *)
(***************************************************************************)
AnswersWith(kind) ==
    /\ replies' = Append(replies, Reply(kind, deviceTx))
    /\ deviceTx' = NextSeq(deviceTx)

Silent == replies' = replies

LEMMA Chunk ==
    ASSUME NEW p \in 0 .. Len(Source), p < Len(Source)
    PROVE  LET chunk == SubSeq(Source, p + 1, ReadEnd(p)) IN
           /\ chunk \in Payloads /\ Len(chunk) = ReadEnd(p) - p
           /\ SubSeq(Source, 1, p) \o chunk = SubSeq(Source, 1, ReadEnd(p))
<1>1. PICK n \in Nat : n = Len(Source)
  BY SourceTyped
<1>2. PICK q \in 0 .. n : q = ReadEnd(p)
  BY <1>1, AfterTyped
<1>3. p \in 0 .. n /\ p < q /\ q <= p + ChunkSize
  BY <1>1, <1>2, AfterTyped, SourceTyped DEF ReadEnd
<1>4. SubSeq(Source, p + 1, q) \in Payloads
  BY <1>1, <1>3, ChunkAssumption
<1>5. PICK k \in Int : k = p + 1
  BY <1>3
<1>6. Source \in Seq(Bytes)
  BY SourceAssumption
<1>7. Len(SubSeq(Source, k, q)) = q - p
  <2>1. \A i \in k .. q : Source[i] \in Bytes
    BY <1>1, <1>3, <1>5, <1>6, ElementOfSeq
  <2>2. Len(SubSeq(Source, k, q)) = IF k <= q THEN q - k + 1 ELSE 0
    BY <1>2, <2>1, SubSeqProperties
  <2>3. QED
    BY <1>3, <1>5, <2>2
<1>8. SubSeq(Source, 1, p) \o SubSeq(Source, p + 1, q) = SubSeq(Source, 1, q)
  <2>1. 1 \in 1 .. Len(Source) + 1 /\ p \in 1 - 1 .. Len(Source) /\ q \in p .. Len(Source)
    BY <1>1, <1>3
  <2>2. QED
    BY <1>6, <2>1, ConcatAdjacentSubSeq
<1>9. QED
  BY <1>2, <1>4, <1>5, <1>7, <1>8

LEMMA PrefixLength ==
    ASSUME NEW p \in 0 .. Len(Source)
    PROVE  Len(SubSeq(Source, 1, p)) = p
<1>1. PICK n \in Nat : n = Len(Source)
  BY SourceTyped
<1>2. \A i \in 1 .. p : Source[i] \in Bytes
  BY <1>1, SourceAssumption, ElementOfSeq
<1>3. Len(SubSeq(Source, 1, p)) = IF 1 <= p THEN p - 1 + 1 ELSE 0
  BY <1>1, <1>2, SubSeqProperties
<1>4. QED
  BY <1>1, <1>3

LEMMA DataTaken ==
    ASSUME "write" \notin Faults, SystemTInv, OneSession, NEW f \in CommandFrames, Dispatches(f),
           f.cmd = "PUT_FILE_DATA", NEW p \in 0 .. Len(Source), Fits(f, p)
    PROVE  Follows(p) \/ Behind(p) =>
              /\ reply' = <<>>
              /\ Follows(p) => Follows(ReadEnd(p))'
              /\ Behind(p) => Behind(ReadEnd(p))'
<1> SUFFICES ASSUME Follows(p) \/ Behind(p)
             PROVE  /\ reply' = <<>>
                    /\ Follows(p) => Follows(ReadEnd(p))'
                    /\ Behind(p) => Behind(ReadEnd(p))'
  OBVIOUS
<1>1. PICK payload \in Payloads : payload = f.payload
  BY DEF CommandFrames
<1>2. /\ p < Len(Source) /\ payload = SubSeq(Source, p + 1, ReadEnd(p))
      /\ PutFileData(payload)
  BY <1>1 DEF Fits, Dispatches, Dispatch
<1>3. PICK q \in 0 .. Len(Source) : q = ReadEnd(p)
  BY AfterTyped
<1>4. /\ Len(payload) = q - p /\ p < q
      /\ SubSeq(Source, 1, p) \o payload = SubSeq(Source, 1, q)
  BY <1>2, <1>3, Chunk, AfterTyped
<1>5. /\ Len(received) \in Nat /\ received \in Seq(Bytes) /\ payload \in Seq(Bytes)
      /\ Len(Source) \in Nat
  BY LenProperties, SourceTyped DEF SystemTInv, IInv, TypeOK, Data
<1>6. transferActive /\ Len(received) <= p
  BY <1>5 DEF Follows, Behind
<1>7. Len(received) + Len(payload) <= Len(Source)
  BY <1>4, <1>5, <1>6
<1>8. reply' = <<>> /\ transferActive' /\ received' = received \o payload
  BY <1>2, <1>6, <1>7, DataIs DEF SystemTInv
<1>9. Len(received') = Len(received) + Len(payload)
  BY <1>5, <1>8, ConcatProperties
<1>10. ASSUME Follows(p) PROVE Follows(q)'
  <2>1. received' = SubSeq(Source, 1, q)
    BY <1>4, <1>8, <1>10 DEF Follows
  <2>2. QED
    BY <1>8, <2>1, PrefixLength DEF Follows
<1>11. ASSUME Behind(p) PROVE Behind(q)'
  BY <1>4, <1>5, <1>8, <1>9, <1>11 DEF Behind
<1>12. QED
  BY <1>3, <1>8, <1>10, <1>11

LEMMA DeviceOutcome ==
    ASSUME "write" \notin Faults, "app_mount" \notin Faults, SystemTInv, Connected,
           OneUpload, AnswersInTurn, DeviceStep
    PROVE  LET f == Head(commands) IN
           \/ /\ ~Accepts(f) /\ AnswersWith("NACK")
              /\ UNCHANGED <<transferActive, received, files, faults>>
           \/ /\ Dispatches(f) /\ f.cmd = "PUT_FILE_BEGIN" /\ ~transferActive
              /\ \/ AnswersWith("ACK") /\ Follows(0)' /\ UNCHANGED faults
                 \/ AnswersWith("NACK") /\ ~transferActive' /\ faults' = faults + 1
           \/ /\ Dispatches(f) /\ f.cmd = "PUT_FILE_BEGIN" /\ transferActive
              /\ AnswersWith("NACK") /\ UNCHANGED <<transferActive, faults>>
           \/ /\ Dispatches(f) /\ f.cmd = "PUT_FILE_DATA"
              /\ \A p \in 0 .. Len(Source) :
                    Fits(f, p) /\ (Follows(p) \/ Behind(p)) =>
                       /\ Silent /\ UNCHANGED faults
                       /\ Follows(p) => Follows(ReadEnd(p))'
                       /\ Behind(p) => Behind(ReadEnd(p))'
           \/ /\ Dispatches(f) /\ f.cmd = "PUT_FILE_END" /\ ~transferActive'
              /\ Behind(Len(Source)) => AnswersWith("NACK") /\ UNCHANGED faults
              /\ Follows(Len(Source)) =>
                    \/ AnswersWith("ACK") /\ Stored' /\ UNCHANGED faults
                    \/ AnswersWith("NACK") /\ faults' = faults + 1
           \/ /\ Dispatches(f) /\ f.cmd = "PUT_FILE_ABORT" /\ ~transferActive'
              /\ AnswersWith("ACK") /\ UNCHANGED faults
<1> DEFINE f == Head(commands)
<1>1. CASE ~Accepts(f)
  BY <1>1 DEF DeviceStep, Rejects, AnswersWith, vars, cardVars, sessionVars, historyVars
<1>2. CASE Dispatches(f)
  <2>1. f.cmd # "HELLO" /\ f \in CommandFrames
    BY DeviceAnswers
  <2>2. IInv /\ OneSession
    BY DEF SystemTInv, OneUpload
  <2>3. \/ reply' = <<>> /\ replies' = replies
        \/ \E e \in Replies : reply' = <<e>> /\ AnswersWith(IF e \in Errors THEN "NACK" ELSE "ACK")
    BY <1>2, <2>1, DispatchAnswers DEF SystemTInv, AnswersWith
  <2>4. ASSUME NEW e \in Errors \cup {"ACK"}, reply' = <<e>>
        PROVE  AnswersWith(IF e \in Errors THEN "NACK" ELSE "ACK")
    <3>1. <<e>> # <<>> /\ \A d : <<e>> = <<d>> => e = d
      OBVIOUS
    <3>2. QED
      BY <2>3, <2>4, <3>1
  <2>5. /\ reply' = <<"ACK">> => AnswersWith("ACK")
        /\ reply' = <<"ERR_IO_ERROR">> => AnswersWith("NACK")
        /\ reply' = <<"ERR_DISK_FULL">> => AnswersWith("NACK")
        /\ reply' = <<"ERR_TRANSFER_ACTIVE">> => AnswersWith("NACK")
    BY <2>4 DEF Errors
  <2>6. /\ CardFault(f) => faults' = faults + 1
        /\ ~CardFault(f) => UNCHANGED faults
    BY <1>2 DEF Dispatches
  <2>7. /\ reply' \in {<<>>, <<"ACK">>, <<"ERR_TRANSFER_ACTIVE">>} => ~CardFault(f)
        /\ reply' = <<"ERR_DISK_FULL">> => CardFault(f)
        /\ reply' = <<"ERR_IO_ERROR">> =>
              /\ f.cmd = "PUT_FILE_BEGIN" => CardFault(f)
              /\ f.cmd = "PUT_FILE_END" => (CardFault(f) <=> UploadComplete)
    <3>1. \A d, e : <<d>> # <<>> /\ (<<d>> = <<e>> => d = e)
      OBVIOUS
    <3>2. QED
      BY <3>1 DEF CardFault
  <2>8. CASE f.cmd = "PUT_FILE_BEGIN"
    <3>1. PutFileBegin(Target, Len(Source))
      BY <1>2, <2>8 DEF Dispatches, Dispatch
    <3>2. CASE transferActive
      BY <1>2, <2>2, <2>5, <2>6, <2>7, <2>8, <3>1, <3>2, BeginIs
    <3>3. CASE ~transferActive
      <4>1. transferActive' /\ received' = <<>> => Follows(0)'
        <5>1. SubSeq(Source, 1, 0) = <<>> /\ Len(<<>>) = 0
          BY SubSeqEmpty
        <5>2. QED
          BY <5>1 DEF Follows
      <4>2. QED
        BY <1>2, <2>2, <2>5, <2>6, <2>7, <2>8, <3>1, <3>3, <4>1, BeginIs
    <3>4. QED
      BY <3>2, <3>3
  <2>9. CASE f.cmd = "PUT_FILE_DATA"
    <3>1. ASSUME NEW p \in 0 .. Len(Source), Fits(f, p), Follows(p) \/ Behind(p)
          PROVE  /\ Silent /\ UNCHANGED faults
                 /\ Follows(p) => Follows(ReadEnd(p))'
                 /\ Behind(p) => Behind(ReadEnd(p))'
      <4>1. /\ reply' = <<>>
            /\ Follows(p) => Follows(ReadEnd(p))'
            /\ Behind(p) => Behind(ReadEnd(p))'
        BY <1>2, <2>1, <2>2, <2>9, <3>1, DataTaken
      <4>2. Silent
        <5>1. \A e : <<e>> # <<>>
          OBVIOUS
        <5>2. QED
          BY <2>3, <4>1, <5>1 DEF Silent
      <4>3. QED
        BY <2>6, <2>7, <4>1, <4>2
    <3>2. QED
      BY <1>2, <2>9, <3>1
  <2>10. CASE f.cmd = "PUT_FILE_END"
    <3>1. PutFileEnd
      BY <1>2, <2>10 DEF Dispatches, Dispatch
    <3>2. Follows(Len(Source)) => transferActive /\ received = Source
      BY SourceAssumption, SubSeqFull DEF Follows
    <3>3. Behind(Len(Source)) => transferActive /\ Len(received) # Len(Source)
      BY SourceTyped DEF Behind
    <3>4. ~transferActive'
      BY <2>2, <3>1, EndIs
    <3>5. Behind(Len(Source)) => AnswersWith("NACK") /\ UNCHANGED faults
      BY <2>2, <2>5, <2>6, <2>7, <2>10, <3>1, <3>3, EndIs
    <3>6. Follows(Len(Source)) =>
             \/ AnswersWith("ACK") /\ Stored' /\ UNCHANGED faults
             \/ AnswersWith("NACK") /\ faults' = faults + 1
      BY <2>2, <2>5, <2>6, <2>7, <2>10, <3>1, <3>2, EndIs DEF Stored
    <3>7. QED
      BY <1>2, <2>10, <3>4, <3>5, <3>6
  <2>11. CASE f.cmd = "PUT_FILE_ABORT"
    <3>1. PutFileAbort
      BY <1>2, <2>11 DEF Dispatches, Dispatch
    <3>2. QED
      BY <1>2, <2>2, <2>5, <2>6, <2>7, <2>11, <3>1, AbortIs
  <2>12. QED
    BY <1>2, <2>1, <2>8, <2>9, <2>10, <2>11 DEF Dispatches, Dispatch
<1>3. QED
  BY <1>1, <1>2 DEF DeviceStep

-----------------------------------------------------------------------------
(***************************************************************************)
(* What an answer sent or taken makes of the answers under way.            *)
(***************************************************************************)
LEMMA InTurnKept ==
    ASSUME LinkFaults \subseteq {"lose_command", "corrupt_command"},
           Faults \cap {"write", "power", "power_in_command", "app_mount"} = {},
           SystemTInv, Handshake, InTurn, [SystemNext]_systemVars
    PROVE  InTurn'
<1>1. "late" \notin LinkFaults /\ Handshake'
  BY HandshakeKept
<1>2. CASE HostStep \/ HostRestart
  BY <1>1, <1>2, HostKeepsTurn
<1>3. CASE LineFault
  BY <1>3, LineKeepsTurn
<1>4. CASE DeviceStep
  <2>1. UNCHANGED <<hostPc, attempt>>
    BY <1>4 DEF DeviceStep, hostVars
  <2>2. CASE Connected
    BY <1>4, <2>1, <2>2, DeviceAnswers DEF InTurn, Connected
  <2>3. CASE ~Connected
    BY <2>1, <2>3 DEF InTurn, Connected
  <2>4. QED
    BY <2>2, <2>3
<1>5. CASE CardMounted
  BY <1>5 DEF CardMounted, MountSd, Handshake, InTurn, Connected, hostVars
<1>6. CASE DeviceRestart
  BY <1>6 DEF DeviceRestart, PowerLoss
<1>7. CASE UNCHANGED systemVars
  BY <1>7 DEF systemVars, vars, cardVars, sessionVars, lineVars, deviceSeqVars, hostVars, InTurn,
              Connected, OneUpload, OneSession, AnswersInTurn
<1>8. QED
  BY <1>2, <1>3, <1>4, <1>5, <1>6, <1>7 DEF SystemNext, Finished

LEMMA NoAnswerIs ==
    ASSUME SystemTypeOK
    PROVE  /\ Len(replies) \in Nat /\ (NoAnswer <=> Len(replies) = 0)
           /\ Len(commands) \in Nat /\ (commands = <<>> <=> Len(commands) = 0)
           /\ NoAnswer => Acks
BY EmptySeq, LenProperties DEF SystemTypeOK, NoAnswer, Acks

LEMMA AnswersGrow ==
    ASSUME SystemTypeOK, AnswersInTurn, NEW kind \in {"ACK", "NACK"}, UNCHANGED hostRx,
           AnswersWith(kind)
    PROVE  /\ Len(replies) \in Nat /\ Len(replies') = Len(replies) + 1
           /\ kind = "ACK" /\ Acks => Acks'
           /\ kind = "NACK" => \A n \in Nat : Nacks(n) => Nacks(n + 1)'
           /\ kind = "NACK" /\ NoAnswer => Nacks(1)'
           /\ kind = "ACK" /\ Nacks(1) => replies'[1].kind = "NACK" /\ replies'[2].kind = "ACK"
<1>1. /\ Len(replies) \in Nat /\ Len(replies') = Len(replies) + 1
      /\ \A i \in 1 .. Len(replies) : replies'[i] = replies[i]
      /\ replies'[Len(replies) + 1].kind = kind
  BY ReplySent DEF AnswersWith
<1>2. \A i \in 1 .. Len(replies') : i \in 1 .. Len(replies) \/ i = Len(replies) + 1
  BY <1>1
<1>3. kind = "ACK" /\ Acks => Acks'
  BY <1>1, <1>2 DEF Acks
<1>4. ASSUME kind = "NACK", NEW n \in Nat, Nacks(n)
      PROVE  Nacks(n + 1)'
  <2>1. Len(replies') = n + 1 /\ \A i \in 1 .. n + 1 : i \in 1 .. n \/ i = n + 1
    BY <1>1, <1>4 DEF Nacks
  <2>2. QED
    BY <1>1, <1>4, <2>1 DEF Nacks
<1>5. NoAnswer => Nacks(0)
  BY NoAnswerIs DEF Nacks
<1>6. kind = "NACK" /\ NoAnswer => Nacks(1)'
  BY <1>4, <1>5
<1>7. kind = "ACK" /\ Nacks(1) => replies'[1].kind = "NACK" /\ replies'[2].kind = "ACK"
  BY <1>1 DEF Nacks
<1>8. QED
  BY <1>1, <1>3, <1>4, <1>6, <1>7

LEMMA AnswersShrink ==
    ASSUME SystemTypeOK, AnswersInTurn, TakeReply
    PROVE  /\ Len(replies) \in Nat \ {0} /\ Len(replies') = Len(replies) - 1
           /\ Verdict = replies[1].kind
           /\ Acks => Verdict = "ACK" /\ Acks'
           /\ \A n \in Nat : Nacks(n) => Verdict = "NACK" /\ n > 0 /\ Nacks(n - 1)'
<1>1. /\ Verdict = replies[1].kind /\ Len(replies) \in Nat \ {0}
      /\ Len(replies') = Len(replies) - 1
      /\ \A i \in 1 .. Len(replies') : i + 1 \in 1 .. Len(replies) /\ replies'[i] = replies[i + 1]
  BY ReplyTaken
<1>2. Acks => Verdict = "ACK" /\ Acks'
  BY <1>1 DEF Acks
<1>3. ASSUME NEW n \in Nat, Nacks(n)
      PROVE  Verdict = "NACK" /\ n > 0 /\ Nacks(n - 1)'
  BY <1>1, <1>3 DEF Nacks
<1>4. QED
  BY <1>1, <1>2, <1>3

\* A wait that takes no answer in has been answered, unless nothing is under way.
LEMMA WaitOver ==
    ASSUME LinkFaults \subseteq {"lose_command", "corrupt_command"}, SystemTypeOK, AnswersInTurn,
           NEW verdicts, Answered(verdicts) \/ Refused
    PROVE  /\ UNCHANGED faults
           /\ \/ TakeReply /\ Verdict \in {"ACK", "NACK"}
              \/ TimesOut /\ commands = <<>> /\ NoAnswer /\ UNCHANGED <<replies, hostRx>>
<1>1. TakeReply => Verdict \in {"ACK", "NACK"}
  BY ReplyTaken
<1>2. QED
  BY <1>1 DEF Answered, Refused, TimesOut, MayFail, NoAnswer

-----------------------------------------------------------------------------
(***************************************************************************)
(* The device takes a command.                                             *)
(***************************************************************************)
LEMMA DeviceFrame ==
    ASSUME SystemTypeOK, DeviceStep
    PROVE  /\ commands \in Seq(CommandFrames) /\ commands # <<>> /\ Len(commands) \in Nat \ {0}
           /\ commands' = Tail(commands) /\ Len(commands') = Len(commands) - 1
           /\ Len(commands) = 1 => commands' = <<>>
           /\ UNCHANGED <<hostPc, hostTx, hostRx, attempt, sent>> /\ Waiting' = Waiting
           /\ faults \in Nat
<1>1. commands \in Seq(CommandFrames) /\ commands # <<>> /\ commands' = Tail(commands)
  BY DEF DeviceStep, SystemTypeOK
<1>2. Len(commands) \in Nat \ {0} /\ Len(commands') = Len(commands) - 1
      /\ commands' \in Seq(CommandFrames)
  BY <1>1, EmptySeq, HeadTailProperties
<1>3. Len(commands) = 1 => commands' = <<>>
  BY <1>2, EmptySeq
<1>4. QED
  BY <1>1, <1>2, <1>3, LinkAssumption DEF DeviceStep, hostVars, Waiting, SystemTypeOK

LEMMA DeviceOnCourse ==
    ASSUME "write" \notin Faults, "app_mount" \notin Faults, SystemTInv, Connected,
           OneUpload, AnswersInTurn, DeviceStep, faults' <= 1, Undisturbed
    PROVE  Undisturbed' \/ (Refusal' /\ faults' # faults)
<1> DEFINE f == Head(commands)
<1>1. PICK pos : \E old, begin, end, ahead \in 0 .. 1 : OnCourse(pos, old, begin, end, ahead)
  BY DEF Undisturbed
<1>2. PICK old \in 0 .. 1, begin \in 0 .. 1, end \in 0 .. 1, ahead \in 0 .. 1 :
         OnCourse(pos, old, begin, end, ahead)
  BY <1>1
<1>3. SystemTypeOK
  BY DEF SystemTInv
<1>4. UnderWay(pos, 0) /\ Shape(commands, old, begin, end, 0)
  BY <1>2 DEF OnCourse
<1>5. PICK n \in Nat : n = Len(commands) /\ n > 0
  BY <1>3, DeviceFrame
<1>6. PICK m \in Nat : m = Len(replies)
  BY <1>3, NoAnswerIs
<1>7. /\ commands' = Tail(commands) /\ Len(commands') = n - 1 /\ (n = 1 => commands' = <<>>)
      /\ UNCHANGED <<hostPc, hostTx, hostRx, attempt, sent>> /\ Waiting' = Waiting
      /\ faults \in Nat /\ commands \in Seq(CommandFrames) /\ commands # <<>>
  BY <1>3, <1>5, DeviceFrame
<1>8. Accepts(f) /\ pos[2] = After(f, pos[1]) /\ Fits(f, pos[1])
  BY <1>3, <1>4, UnderWayTaken
<1>9. PICK pos2 : UnderWay(pos2, 0)' /\ \A i \in 1 .. n : pos2[i] = pos[i + 1]
  BY <1>3, <1>4, <1>5, UnderWayTaken
<1>10. pos2[1] = After(f, pos[1]) /\ pos[1] \in 0 .. Len(Source)
  BY <1>3, <1>4, <1>5, <1>8, <1>9, UnderWayTyped
<1>11. /\ AnswersWith("ACK") => (Acks => Acks') /\ Len(replies') = m + 1
       /\ AnswersWith("NACK") => (NoAnswer => Nacks(1)')
       /\ Silent => (Acks => Acks') /\ Len(replies') = m
  BY <1>3, <1>6, <1>7, AnswersGrow DEF Silent, Acks
<1>12. m = 0 => NoAnswer
  BY <1>3, <1>6, NoAnswerIs
<1> DEFINE w == IF Waiting THEN 1 ELSE 0
<1>13. /\ Acks /\ m + old + begin + end = ahead + w
       /\ faults = 0 => attempt = 1 /\ ahead = 0 /\ old = 0
       /\ old = 1 \/ begin = 1 \/ hostPc = "begin" => ~transferActive
       /\ \/ hostPc = "begin" /\ begin = 0 /\ n = old
          \/ hostPc = "wait_begin" /\ old <= begin /\ n = old + begin
          \/ hostPc = "data" /\ old = 0 /\ end = 0
          \/ hostPc \in {"wait_end", "ok"} /\ old = 0 /\ end = 1
       /\ old + begin = 0 /\ (hostPc \in {"wait_begin", "data"} \/ end = 1) => Follows(pos[1])
  BY <1>2, <1>5, <1>6 DEF OnCourse
<1>14. w = IF hostPc \in {"wait_begin", "wait_end"} THEN 1 ELSE 0
  BY DEF Waiting
<1>15. ASSUME NEW old2 \in 0 .. 1, NEW begin2 \in 0 .. 1, NEW end2 \in 0 .. 1,
              OnCourse(pos2, old2, begin2, end2, ahead)'
       PROVE  Undisturbed'
  BY <1>15 DEF Undisturbed
<1>16. ASSUME AnswersWith("NACK"), faults' = faults + 1, Len(commands) = 1,
              hostPc \in {"wait_begin", "wait_end"}, m = 0
       PROVE  Refusal' /\ faults' # faults
  <2>1. attempt = 1 /\ Nacks(1)' /\ commands' = <<>>
    BY <1>5, <1>7, <1>11, <1>12, <1>13, <1>16
  <2>2. Refusal'
    BY <1>7, <1>9, <1>16, <2>1 DEF Refusal
  <2>3. QED
    BY <1>7, <1>16, <2>2
<1> HIDE DEF w
<1>17. CASE old = 1 /\ f.cmd = "PUT_FILE_ABORT" /\ Shape(commands', 0, begin, end, 0)
  <2>1. ~transferActive' /\ AnswersWith("ACK") /\ UNCHANGED faults
    BY <1>8, <1>17, DeviceOutcome
  <2>2. OnCourse(pos2, 0, begin, end, ahead)'
    BY <1>5, <1>6, <1>7, <1>9, <1>11, <1>13, <1>14, <1>17, <2>1 DEF OnCourse, w
  <2>3. QED
    BY <1>15, <2>2
<1>18. CASE old = 0 /\ begin = 1 /\ f.cmd = "PUT_FILE_BEGIN" /\ Shape(commands', 0, 0, end, 0)
  <2>1. \/ AnswersWith("ACK") /\ Follows(0)' /\ UNCHANGED faults
        \/ AnswersWith("NACK") /\ faults' = faults + 1
    BY <1>8, <1>13, <1>18, DeviceOutcome
  <2>2. pos2[1] = 0
    BY <1>10, <1>18 DEF After
  <2>3. CASE AnswersWith("ACK") /\ Follows(0)' /\ UNCHANGED faults
    <3>1. OnCourse(pos2, 0, 0, end, ahead)'
      BY <1>5, <1>6, <1>7, <1>9, <1>11, <1>13, <1>14, <1>18, <2>2, <2>3 DEF OnCourse, w
    <3>2. QED
      BY <1>15, <3>1
  <2>4. CASE AnswersWith("NACK") /\ faults' = faults + 1
    <3>1. faults = 0
      BY <1>7, <2>4
    <3>2. hostPc = "wait_begin" /\ n = 1 /\ m = 0
      BY <1>13, <1>14, <1>18, <3>1
    <3>3. QED
      BY <1>5, <1>16, <2>4, <3>2
  <2>5. QED
    BY <2>1, <2>3, <2>4
<1>19. CASE /\ old = 0 /\ begin = 0 /\ n > end /\ f.cmd = "PUT_FILE_DATA"
            /\ Shape(commands', 0, 0, end, 0)
  <2>1. Follows(pos[1])
    BY <1>13, <1>19
  <2>2. Silent /\ UNCHANGED faults /\ Follows(ReadEnd(pos[1]))'
    BY <1>8, <1>10, <1>19, <2>1, DeviceOutcome
  <2>3. pos2[1] = ReadEnd(pos[1])
    BY <1>10, <1>19 DEF After
  <2>4. OnCourse(pos2, 0, 0, end, ahead)'
    BY <1>5, <1>6, <1>7, <1>9, <1>11, <1>13, <1>14, <1>19, <2>2, <2>3 DEF OnCourse, w
  <2>5. QED
    BY <1>15, <2>4
<1>20. CASE /\ old = 0 /\ begin = 0 /\ end = 1 /\ n = 1 /\ f.cmd = "PUT_FILE_END"
            /\ Shape(commands', 0, 0, 0, 0)
  <2>1. Follows(Len(Source))
    BY <1>8, <1>13, <1>20 DEF Fits
  <2>2. \/ AnswersWith("ACK") /\ Stored' /\ UNCHANGED faults
        \/ AnswersWith("NACK") /\ faults' = faults + 1
    BY <1>8, <1>20, <2>1, DeviceOutcome
  <2>3. hostPc \in {"wait_end", "ok"}
    BY <1>13, <1>20
  <2>4. CASE AnswersWith("ACK") /\ Stored' /\ UNCHANGED faults
    <3>1. OnCourse(pos2, 0, 0, 0, ahead)'
      BY <1>5, <1>6, <1>7, <1>9, <1>11, <1>13, <1>14, <1>20, <2>3, <2>4 DEF OnCourse, w
    <3>2. QED
      BY <1>15, <3>1
  <2>5. CASE AnswersWith("NACK") /\ faults' = faults + 1
    <3>1. faults = 0
      BY <1>7, <2>5
    <3>2. hostPc = "wait_end" /\ m = 0
      BY <1>13, <1>14, <1>20, <2>3, <3>1
    <3>3. QED
      BY <1>5, <1>16, <1>20, <2>5, <3>2
  <2>6. QED
    BY <2>2, <2>4, <2>5
<1>21. QED
  BY <1>4, <1>5, <1>7, <1>17, <1>18, <1>19, <1>20, ShapeTaken

\* What every step of the device through frames that follow each other gives.
LEMMA DeviceTakes ==
    ASSUME SystemTInv, Connected, OneUpload, AnswersInTurn, DeviceStep,
           NEW pos, NEW g, UnderWay(pos, g)
    PROVE  LET f == Head(commands) IN
           /\ Len(commands) \in Nat \ {0} /\ f = commands[1] /\ f \in CommandFrames
           /\ pos[1] \in 0 .. Len(Source) /\ Fits(f, pos[1])
           /\ \A i \in 1 .. Len(commands) - 1 : commands'[i] = commands[i + 1]
           /\ g # 1 => Accepts(f)
           /\ g \in 0 .. Len(commands) + 1
           /\ \E pos2 : /\ UnderWay(pos2, IF g = 0 THEN 0 ELSE g - 1)'
                        /\ \A i \in 1 .. Len(commands) : pos2[i] = pos[i + 1]
                        /\ g # 2 => pos2[1] = After(f, pos[1])
<1>1. SystemTypeOK
  BY DEF SystemTInv
<1>2. /\ Len(commands) \in Nat \ {0} /\ Head(commands) = commands[1]
      /\ Head(commands) \in CommandFrames
      /\ \A i \in 1 .. Len(commands) - 1 : commands'[i] = commands[i + 1]
  BY <1>1, DeviceFrame, HeadTailProperties
<1>3. pos[1] \in 0 .. Len(Source) /\ g \in 0 .. Len(commands) + 1
  BY <1>1, <1>2, UnderWayTyped
<1>4. QED
  BY <1>1, <1>2, <1>3, UnderWayTaken

LEMMA DeviceBeginAstray ==
    ASSUME "write" \notin Faults, "app_mount" \notin Faults, SystemTInv, Connected,
           OneUpload, AnswersInTurn, DeviceStep, BeginAstray
    PROVE  Refusal'
<1>1. SystemTypeOK
  BY DEF SystemTInv
<1>2. PICK pos : UnderWay(pos, 1)
  BY DEF BeginAstray
<1>3. Len(commands) = 1 /\ Head(commands) = commands[1] /\ ~commands[1].good
  BY <1>1, <1>2, DeviceTakes DEF BeginAstray
<1>4. ~Accepts(Head(commands))
  BY <1>3 DEF Accepts
<1>5. AnswersWith("NACK")
  BY <1>4, DeviceOutcome DEF AnswersWith, DeviceStep, Rejects
<1>6. PICK pos2 : UnderWay(pos2, 0)'
  BY <1>2, DeviceTakes
<1>7. UNCHANGED <<hostPc, hostRx, attempt>> /\ commands' = <<>>
  BY <1>1, <1>3, DeviceFrame
<1>8. Nacks(1)'
  BY <1>1, <1>5, <1>7, AnswersGrow DEF BeginAstray
<1>9. QED
  BY <1>6, <1>7, <1>8 DEF BeginAstray, Refusal

LEMMA DeviceAstray ==
    ASSUME "write" \notin Faults, "app_mount" \notin Faults, SystemTInv, Connected,
           OneUpload, AnswersInTurn, DeviceStep, Astray
    PROVE  Astray' \/ FallenBehind' \/ Refusal'
<1> DEFINE f == Head(commands)
<1>1. PICK pos : \E g \in 1 .. Len(commands) + 1, end \in 0 .. 1 : GoneAstray(pos, g, end)
  BY DEF Astray
<1>2. PICK g \in 1 .. Len(commands) + 1, end \in 0 .. 1 : GoneAstray(pos, g, end)
  BY <1>1
<1>3. SystemTypeOK /\ hostPc \in {"data", "wait_end"} /\ attempt = 1 /\ NoAnswer
  BY DEF SystemTInv, Astray
<1>4. UnderWay(pos, g) /\ Shape(commands, 0, 0, end, 0)
  BY <1>2 DEF GoneAstray
<1>5. PICK n \in Nat : n = Len(commands) /\ n > 0
  BY <1>3, DeviceFrame
<1>6. /\ f = commands[1] /\ f \in CommandFrames
      /\ pos[1] \in 0 .. Len(Source) /\ Fits(f, pos[1])
      /\ \A i \in 1 .. n - 1 : commands'[i] = commands[i + 1]
      /\ g # 1 => Accepts(f)
  BY <1>4, <1>5, DeviceTakes
<1>7. PICK pos2 : /\ UnderWay(pos2, g - 1)'
                  /\ \A i \in 1 .. n : pos2[i] = pos[i + 1]
                  /\ g # 2 => pos2[1] = After(f, pos[1])
  BY <1>4, <1>5, DeviceTakes
<1>8. /\ commands' = Tail(commands) /\ Len(commands') = n - 1 /\ (n = 1 => commands' = <<>>)
      /\ UNCHANGED <<hostPc, hostRx, attempt>>
      /\ commands \in Seq(CommandFrames) /\ commands # <<>>
  BY <1>3, <1>5, DeviceFrame
<1>9. /\ AnswersWith("NACK") => Nacks(1)'
      /\ Silent => NoAnswer'
  BY <1>3, <1>8, AnswersGrow DEF Silent, NoAnswer
<1>10. \/ n > end /\ f.cmd = "PUT_FILE_DATA" /\ Shape(commands', 0, 0, end, 0)
       \/ end = 1 /\ n = 1 /\ f.cmd = "PUT_FILE_END" /\ Shape(commands', 0, 0, 0, 0)
  BY <1>4, <1>5, <1>8, ShapeTaken
<1>11. /\ hostPc = "data" => end = 0
       /\ hostPc = "wait_end" => (end = 0 /\ g = n + 1) \/ (end = 1 /\ g <= n)
  BY <1>2, <1>5 DEF GoneAstray
<1>12. hostPc = "wait_end" /\ end = 0 /\ g = n + 1 => g # 1
  BY <1>5
<1> DEFINE d == IF g = 1 THEN Len(received) ELSE After(commands[g - 1], pos[g - 1])
<1>13. /\ IF g = 1 THEN transferActive ELSE Follows(pos[1])
       /\ d <= pos[g]
       /\ d = pos[g] => \/ hostPc = "wait_end" /\ end = 0 /\ g = n + 1
                        \/ g <= n /\ ~commands[g].good
       /\ hostPc = "wait_end" /\ ~(end = 1 /\ g <= n) => d = pos[g]
  BY <1>2, <1>5 DEF GoneAstray
<1>14. CASE g = 1
  <2>1. d = Len(received) /\ d \in Nat /\ d <= pos[1] /\ transferActive /\ pos[1] \in Nat
    <3>1. Len(received) \in Nat
      BY LenProperties DEF SystemTInv, IInv, TypeOK, Data
    <3>2. Len(Source) \in Nat
      BY SourceTyped
    <3>3. QED
      BY <1>6, <1>13, <1>14, <3>1, <3>2
  <2>2. pos2[1] = After(f, pos[1]) /\ UnderWay(pos2, 0)'
    BY <1>7, <1>14
  <2>3. end = IF hostPc = "data" THEN 0 ELSE 1
    BY <1>3, <1>5, <1>11, <1>14
  <2>4. CASE f.cmd = "PUT_FILE_DATA" /\ Shape(commands', 0, 0, end, 0)
    <3>1. pos2[1] = ReadEnd(pos[1]) /\ pos[1] < ReadEnd(pos[1]) /\ ReadEnd(pos[1]) \in Nat
      <4>1. Len(Source) \in Nat
        BY SourceTyped
      <4>2. QED
        BY <1>6, <2>2, <2>4, <4>1, AfterTyped DEF Fits, After
    <3>2. Behind(pos2[1])' /\ (NoAnswer' \/ Nacks(1)')
      <4>1. CASE ~Accepts(f)
        <5>1. AnswersWith("NACK") /\ UNCHANGED <<transferActive, received>>
          BY <4>1 DEF DeviceStep, Rejects, AnswersWith, vars, sessionVars, historyVars
        <5>2. QED
          BY <1>9, <2>1, <3>1, <5>1 DEF Behind
      <4>2. CASE Accepts(f)
        <5>1. d # pos[1]
          BY <1>5, <1>6, <1>12, <1>13, <1>14, <4>2 DEF Accepts
        <5>2. Behind(pos[1])
          BY <2>1, <5>1 DEF Behind
        <5>3. QED
          BY <1>6, <1>9, <2>4, <3>1, <4>2, <5>2, DeviceOutcome
      <4>3. QED
        BY <4>1, <4>2
    <3>3. FallenBehind'
      BY <1>3, <1>8, <2>2, <2>3, <2>4, <3>2 DEF FallenBehind
    <3>4. QED
      BY <3>3
  <2>5. CASE end = 1 /\ n = 1 /\ f.cmd = "PUT_FILE_END"
    <3>1. Nacks(1)'
      <4>1. CASE ~Accepts(f)
        BY <1>9, <4>1 DEF DeviceStep, Rejects, AnswersWith
      <4>2. CASE Accepts(f)
        <5>1. d # pos[1]
          BY <1>5, <1>6, <1>12, <1>13, <1>14, <4>2 DEF Accepts
        <5>2. Behind(Len(Source))
          BY <1>6, <2>1, <2>5, <5>1 DEF Behind, Fits
        <5>3. QED
          BY <1>9, <2>5, <4>2, <5>2, DeviceOutcome
      <4>3. QED
        BY <4>1, <4>2
    <3>2. hostPc = "wait_end" /\ commands' = <<>>
      BY <1>3, <1>8, <1>11, <2>5
    <3>3. Refusal'
      BY <1>3, <1>8, <2>2, <3>1, <3>2 DEF Refusal
    <3>4. QED
      BY <3>3
  <2>6. QED
    BY <1>10, <2>4, <2>5
<1>15. CASE g # 1
  <2>1. g - 1 \in 1 .. n /\ g - 1 \in 1 .. Len(commands') + 1 /\ g \in Nat
    BY <1>5, <1>8, <1>15
  <2>2. Accepts(f) /\ Follows(pos[1])
    BY <1>6, <1>13, <1>15
  <2>3. f.cmd = "PUT_FILE_DATA" /\ Shape(commands', 0, 0, end, 0)
    BY <1>3, <1>5, <1>10, <1>11, <1>15, <2>1
  <2>4. Silent /\ Follows(ReadEnd(pos[1]))'
    BY <1>6, <2>2, <2>3, DeviceOutcome
  <2>5. pos2[g - 1] = pos[g]
    <3>1. pos2[g - 1] = pos[(g - 1) + 1] /\ (g - 1) + 1 = g
      BY <1>7, <2>1
    <3>2. QED
      BY <3>1
  <2>6. (IF g - 1 = 1 THEN Len(received)' ELSE After(commands'[(g - 1) - 1], pos2[(g - 1) - 1])) = d
    <3>1. CASE g = 2
      <4>1. d = ReadEnd(pos[1]) /\ g - 1 = 1
        BY <1>6, <2>3, <3>1 DEF After
      <4>2. Len(received)' = ReadEnd(pos[1])
        BY <2>4 DEF Follows
      <4>3. QED
        BY <4>1, <4>2
    <3>2. CASE g # 2
      <4>1. PICK k \in Nat : k = g - 2
        BY <1>15, <2>1, <3>2
      <4>2. k \in 1 .. n - 1 /\ k \in 1 .. n /\ k + 1 = g - 1 /\ (g - 1) - 1 = k /\ g - 1 # 1
        BY <1>15, <2>1, <3>2, <4>1
      <4>3. commands'[k] = commands[g - 1] /\ pos2[k] = pos[g - 1]
        BY <1>6, <1>7, <4>2
      <4>4. QED
        BY <1>15, <4>2, <4>3
    <3>3. QED
      BY <3>1, <3>2
  <2>7. g <= n => commands'[g - 1] = commands[g]
    <3>1. g <= n => g - 1 \in 1 .. n - 1 /\ (g - 1) + 1 = g
      BY <2>1, <1>5, <1>15
    <3>2. QED
      BY <1>6, <3>1
  <2>8. IF g - 1 = 1 THEN transferActive' ELSE Follows(pos2[1])'
    <3>1. g - 1 # 1 => pos2[1] = ReadEnd(pos[1])
      BY <1>7, <2>1, <2>3 DEF After
    <3>2. QED
      BY <2>4, <3>1 DEF Follows
  <2>9. GoneAstray(pos2, g - 1, end)'
    <3> HIDE DEF d
    <3>1. g - 1 <= n - 1 <=> g <= n
      BY <1>5, <2>1
    <3>2. g - 1 = (n - 1) + 1 <=> g = n + 1
      BY <1>5, <2>1
    <3>3. QED
      BY <1>3, <1>7, <1>8, <1>11, <1>13, <2>3, <2>5, <2>6, <2>7, <2>8, <3>1, <3>2 DEF GoneAstray
  <2>10. Astray'
    BY <1>3, <1>8, <1>9, <2>1, <2>4, <2>9 DEF Astray
  <2>11. QED
    BY <2>10
<1>16. QED
  BY <1>14, <1>15

LEMMA DeviceFallenBehind ==
    ASSUME "write" \notin Faults, "app_mount" \notin Faults, SystemTInv, Connected,
           OneUpload, AnswersInTurn, DeviceStep, FallenBehind
    PROVE  FallenBehind' \/ Refusal'
<1> DEFINE f == Head(commands)
           end == IF hostPc = "data" THEN 0 ELSE 1
<1>1. PICK pos : /\ UnderWay(pos, 0) /\ Behind(pos[1])
                 /\ Shape(commands, 0, 0, end, 0)
  BY DEF FallenBehind
<1>2. /\ SystemTypeOK /\ hostPc \in {"data", "wait_end"} /\ attempt = 1
      /\ NoAnswer \/ Nacks(1)
  BY DEF SystemTInv, FallenBehind
<1>3. PICK n \in Nat : n = Len(commands) /\ n > 0
  BY <1>2, DeviceFrame
<1>4. /\ f \in CommandFrames /\ Accepts(f)
      /\ pos[1] \in 0 .. Len(Source) /\ Fits(f, pos[1])
  BY <1>1, DeviceTakes
<1>5. PICK pos2 : UnderWay(pos2, 0)' /\ pos2[1] = After(f, pos[1])
  BY <1>1, DeviceTakes
<1>6. /\ commands' = Tail(commands) /\ Len(commands') = n - 1 /\ (n = 1 => commands' = <<>>)
      /\ UNCHANGED <<hostPc, hostRx, attempt>>
      /\ commands \in Seq(CommandFrames) /\ commands # <<>>
  BY <1>2, <1>3, DeviceFrame
<1>7. \/ f.cmd = "PUT_FILE_DATA" /\ Shape(commands', 0, 0, end, 0)
      \/ end = 1 /\ n = 1 /\ f.cmd = "PUT_FILE_END" /\ Shape(commands', 0, 0, 0, 0)
  BY <1>1, <1>3, <1>6, ShapeTaken
<1>8. CASE f.cmd = "PUT_FILE_DATA" /\ Shape(commands', 0, 0, end, 0)
  <2>1. Silent /\ Behind(ReadEnd(pos[1]))' /\ pos2[1] = ReadEnd(pos[1])
    BY <1>1, <1>4, <1>5, <1>8, DeviceOutcome DEF After
  <2>2. FallenBehind'
    BY <1>2, <1>5, <1>6, <1>8, <2>1 DEF FallenBehind, Silent, NoAnswer, Nacks
  <2>3. QED
    BY <2>2
<1>9. CASE end = 1 /\ n = 1 /\ f.cmd = "PUT_FILE_END"
  <2>1. pos[1] = Len(Source)
    BY <1>4, <1>9 DEF Fits
  <2>2. ~transferActive' /\ AnswersWith("NACK")
    BY <1>1, <1>4, <1>9, <2>1, DeviceOutcome
  <2>3. Nacks(1)' \/ Nacks(2)'
    BY <1>2, <1>6, <2>2, AnswersGrow, 1 + 1 = 2
  <2>4. Refusal'
    BY <1>2, <1>5, <1>6, <1>9, <2>2, <2>3 DEF Refusal
  <2>5. QED
    BY <2>4
<1>10. QED
  BY <1>7, <1>8, <1>9

LEMMA DeviceShape ==
    ASSUME SystemTypeOK, DeviceStep, NEW end \in 0 .. 1, NEW abort \in 0 .. 1,
           Shape(commands, 0, 0, end, abort)
    PROVE  LET f == Head(commands) IN
           \/ /\ Len(commands) > end + abort /\ f.cmd = "PUT_FILE_DATA"
              /\ Shape(commands', 0, 0, end, abort)
           \/ /\ end = 1 /\ Len(commands) = 1 + abort /\ f.cmd = "PUT_FILE_END"
              /\ Shape(commands', 0, 0, 0, abort)
           \/ /\ end = 0 /\ abort = 1 /\ Len(commands) = 1 /\ f.cmd = "PUT_FILE_ABORT"
              /\ Shape(commands', 0, 0, 0, 0)
<1>1. commands \in Seq(CommandFrames) /\ commands # <<>> /\ commands' = Tail(commands)
  BY DeviceFrame
<1>2. PICK zero \in 0 .. 1 : zero = 0
  OBVIOUS
<1>3. Shape(commands, zero, zero, end, abort)
  BY <1>2
<1>4. \/ zero = 1 /\ Head(commands).cmd = "PUT_FILE_ABORT" /\ Shape(Tail(commands), 0, zero, end, abort)
      \/ /\ zero = 0 /\ zero = 1 /\ Head(commands).cmd = "PUT_FILE_BEGIN"
         /\ Shape(Tail(commands), 0, 0, end, abort)
      \/ /\ zero = 0 /\ zero = 0 /\ Len(commands) > end + abort
         /\ Head(commands).cmd = "PUT_FILE_DATA" /\ Shape(Tail(commands), 0, 0, end, abort)
      \/ /\ zero = 0 /\ zero = 0 /\ end = 1 /\ Len(commands) = 1 + abort
         /\ Head(commands).cmd = "PUT_FILE_END" /\ Shape(Tail(commands), 0, 0, 0, abort)
      \/ /\ zero = 0 /\ zero = 0 /\ end = 0 /\ abort = 1 /\ Len(commands) = 1
         /\ Head(commands).cmd = "PUT_FILE_ABORT" /\ Shape(Tail(commands), 0, 0, 0, 0)
  BY <1>1, <1>3, ShapeTaken
<1>5. zero # 1
  BY <1>2
<1>6. QED
  BY <1>1, <1>4, <1>5

LEMMA DeviceAborting ==
    ASSUME "write" \notin Faults, "app_mount" \notin Faults, SystemTInv, Connected,
           OneUpload, AnswersInTurn, DeviceStep, Aborting
    PROVE  Aborting'
<1> DEFINE f == Head(commands)
<1>1. PICK pos : \E g, end, abort \in 0 .. 1 : GivingUp(pos, g, end, abort)
  BY DEF Aborting
<1>2. PICK g \in 0 .. 1, end \in 0 .. 1, abort \in 0 .. 1 : GivingUp(pos, g, end, abort)
  BY <1>1
<1>3. SystemTypeOK /\ hostPc \in {"abort", "wait_abort"} /\ attempt \in 1 .. 2
  BY DEF SystemTInv, Aborting
<1>4. UnderWay(pos, g) /\ Shape(commands, 0, 0, end, abort)
  BY <1>2 DEF GivingUp
<1>5. PICK n \in Nat : n = Len(commands) /\ n > 0
  BY <1>3, DeviceFrame
<1>6. PICK m \in Nat : m = Len(replies)
  BY <1>3, NoAnswerIs
<1>7. /\ f \in CommandFrames /\ (g # 1 => Accepts(f))
      /\ pos[1] \in 0 .. Len(Source) /\ Fits(f, pos[1])
  BY <1>4, DeviceTakes
<1>8. PICK pos2 : UnderWay(pos2, 0)' /\ pos2[1] = After(f, pos[1])
  <2>1. (IF g = 0 THEN 0 ELSE g - 1) = 0 /\ g # 2
    OBVIOUS
  <2>2. QED
    BY <1>4, <2>1, DeviceTakes
<1>9. /\ Len(commands') = n - 1 /\ (n = 1 => commands' = <<>>)
      /\ UNCHANGED <<hostPc, hostRx, attempt>>
  BY <1>3, <1>5, DeviceFrame
<1>10. /\ hostPc = "abort" => abort = 0
       /\ hostPc = "abort" \/ abort = 1
       /\ Nacks(m) /\ m + end <= 1 /\ (m = 1 => ~transferActive)
       /\ g = 1 => n = abort /\ NoAnswer /\ (transferActive => attempt = 1)
       /\ n > abort => Behind(pos[1])
  BY <1>2, <1>3, <1>5, <1>6, <1>9 DEF GivingUp
<1>11. /\ AnswersWith("NACK") /\ m = 0 => Nacks(1)' /\ Nacks(Len(replies))' /\ Len(replies') = 1
       /\ AnswersWith("ACK") /\ m = 1 =>
             Len(replies') = 2 /\ replies'[1].kind = "NACK" /\ replies'[2].kind = "ACK"
       /\ AnswersWith("ACK") /\ m = 0 => Len(replies') = 1 /\ Acks'
       /\ Silent => Nacks(m)' /\ Len(replies') = m
  <2>1. Silent => Nacks(m)' /\ Len(replies') = m
    BY <1>6, <1>10 DEF Silent, Nacks
  <2>2. AnswersWith("NACK") /\ m = 0 => Nacks(1)' /\ Nacks(Len(replies))' /\ Len(replies') = 1
    <3>1. AnswersWith("NACK") /\ m = 0 => Nacks(1)' /\ Len(replies') = 1
      BY <1>3, <1>6, <1>9, AnswersGrow, NoAnswerIs
    <3>2. QED
      BY <3>1 DEF Nacks
  <2>3. AnswersWith("ACK") /\ m = 1 =>
           Len(replies') = 2 /\ replies'[1].kind = "NACK" /\ replies'[2].kind = "ACK"
    BY <1>3, <1>6, <1>9, <1>10, AnswersGrow
  <2>4. AnswersWith("ACK") /\ m = 0 => Len(replies') = 1 /\ Acks'
    BY <1>3, <1>6, <1>9, AnswersGrow, NoAnswerIs
  <2>5. QED
    BY <2>1, <2>2, <2>3, <2>4
<1>12. ASSUME NEW end2 \in 0 .. 1, NEW abort2 \in 0 .. 1, GivingUp(pos2, 0, end2, abort2)'
       PROVE  Aborting'
  <2>1. 0 \in 0 .. 1
    OBVIOUS
  <2>2. QED
    BY <1>3, <1>9, <1>12, <2>1 DEF Aborting
<1>13. CASE n > end + abort /\ f.cmd = "PUT_FILE_DATA" /\ Shape(commands', 0, 0, end, abort)
  <2>1. n > abort /\ g # 1
    BY <1>10, <1>13
  <2>2. Silent /\ Behind(ReadEnd(pos[1]))' /\ pos2[1] = ReadEnd(pos[1])
    BY <1>7, <1>8, <1>10, <1>13, <2>1, DeviceOutcome DEF After
  <2>3. m = 0
    BY <1>10, <2>1 DEF Behind
  <2>4. GivingUp(pos2, 0, end, abort)'
    BY <1>8, <1>9, <1>10, <1>11, <1>13, <2>2, <2>3 DEF GivingUp
  <2>5. QED
    BY <1>12, <2>4
<1>14. CASE end = 1 /\ n = 1 + abort /\ f.cmd = "PUT_FILE_END" /\ Shape(commands', 0, 0, 0, abort)
  <2>1. n > abort /\ g # 1 /\ m = 0
    BY <1>10, <1>14
  <2>2. pos[1] = Len(Source)
    BY <1>7, <1>14 DEF Fits
  <2>3. ~transferActive' /\ AnswersWith("NACK")
    BY <1>7, <1>10, <1>14, <2>1, <2>2, DeviceOutcome
  <2>4. Nacks(Len(replies))' /\ Len(replies') = 1
    BY <1>11, <2>1, <2>3
  <2>5. ~(Len(commands') > abort)
    BY <1>9, <1>14
  <2>6. UnderWay(pos2, 0)' /\ Shape(commands', 0, 0, 0, abort)
    BY <1>8, <1>14
  <2>7. (hostPc' = "abort" => abort = 0) /\ (hostPc' = "abort" \/ abort = 1)
    BY <1>9, <1>10
  <2>8. GivingUp(pos2, 0, 0, abort)'
    BY <2>3, <2>4, <2>5, <2>6, <2>7 DEF GivingUp
  <2>9. QED
    BY <1>12, <2>8
<1>15. CASE /\ end = 0 /\ abort = 1 /\ n = 1 /\ f.cmd = "PUT_FILE_ABORT"
            /\ Shape(commands', 0, 0, 0, 0)
  <2>1. hostPc = "wait_abort" /\ m \in 0 .. 1 /\ commands' = <<>>
    BY <1>3, <1>9, <1>10, <1>15
  <2>2. CASE ~Accepts(f)
    <3>1. AnswersWith("NACK") /\ transferActive' = transferActive
      BY <2>2 DEF DeviceStep, Rejects, AnswersWith, vars, sessionVars
    <3>2. g = 1 /\ m = 0
      BY <1>3, <1>6, <1>7, <1>10, <2>2, NoAnswerIs
    <3>3. Nacks(1)'
      BY <1>11, <3>1, <3>2
    <3>4. transferActive' => attempt' = 1
      BY <1>9, <1>10, <3>1, <3>2
    <3>5. ~(Len(commands') > 0) /\ hostPc' = "wait_abort" /\ commands' = <<>>
      BY <1>5, <1>9, <1>15, <2>1
    <3>6. UnderWay(pos2, 0)' /\ Shape(commands', 0, 0, 0, 0)
      BY <1>8, <1>15
    <3>7. GivingUp(pos2, 0, 0, 0)'
      BY <3>3, <3>4, <3>5, <3>6 DEF GivingUp
    <3>8. QED
      BY <1>12, <3>7
  <2>3. CASE Accepts(f)
    <3>1. ~transferActive' /\ AnswersWith("ACK")
      BY <1>15, <2>3, DeviceOutcome
    <3>2. \/ Len(replies') = 2 /\ replies'[1].kind = "NACK" /\ replies'[2].kind = "ACK"
          \/ Len(replies') = 1 /\ Acks'
      BY <1>11, <2>1, <3>1
    <3>3. ~(Len(commands') > 0) /\ hostPc' = "wait_abort" /\ commands' = <<>>
      BY <1>5, <1>9, <1>15, <2>1
    <3>4. UnderWay(pos2, 0)' /\ Shape(commands', 0, 0, 0, 0)
      BY <1>8, <1>15
    <3>5. GivingUp(pos2, 0, 0, 0)'
      BY <3>1, <3>2, <3>3, <3>4 DEF GivingUp
    <3>6. QED
      BY <1>12, <3>5
  <2>4. QED
    BY <2>2, <2>3
<1>16. \/ n > end + abort /\ f.cmd = "PUT_FILE_DATA" /\ Shape(commands', 0, 0, end, abort)
       \/ end = 1 /\ n = 1 + abort /\ f.cmd = "PUT_FILE_END" /\ Shape(commands', 0, 0, 0, abort)
       \/ /\ end = 0 /\ abort = 1 /\ n = 1 /\ f.cmd = "PUT_FILE_ABORT"
          /\ Shape(commands', 0, 0, 0, 0)
  <2>1. 0 \in 0 .. 1 /\ 0 # 1
    OBVIOUS
  <2>2. QED
    BY <1>3, <1>4, <1>5, <2>1, DeviceShape
<1>17. QED
  BY <1>13, <1>14, <1>15, <1>16

LEMMA DeviceLeftOpen ==
    ASSUME "write" \notin Faults, "app_mount" \notin Faults, SystemTInv, Connected,
           OneUpload, AnswersInTurn, DeviceStep, LeftOpen
    PROVE  Refusal'
<1>1. SystemTypeOK /\ commands # <<>>
  BY DEF SystemTInv, DeviceStep
<1>2. PICK pos : UnderWay(pos, 0)
  BY DEF LeftOpen
<1>3. /\ hostPc = "wait_begin" /\ Len(commands) = 1 /\ Shape(commands, 0, 1, 0, 0)
      /\ NoAnswer /\ transferActive /\ attempt = 2
  BY <1>1 DEF LeftOpen
<1>4. Head(commands).cmd = "PUT_FILE_BEGIN"
  BY <1>1, <1>3, ShapeTaken DEF SystemTypeOK
<1>5. Accepts(Head(commands))
  BY <1>2, DeviceTakes
<1>6. AnswersWith("NACK")
  BY <1>3, <1>4, <1>5, DeviceOutcome
<1>7. PICK pos2 : UnderWay(pos2, 0)'
  BY <1>2, DeviceTakes
<1>8. UNCHANGED <<hostPc, hostRx, attempt>> /\ commands' = <<>>
  BY <1>1, <1>3, DeviceFrame
<1>9. Nacks(1)'
  BY <1>1, <1>3, <1>6, <1>8, AnswersGrow
<1>10. QED
  BY <1>3, <1>7, <1>8, <1>9 DEF Refusal

-----------------------------------------------------------------------------
(***************************************************************************)
(* The line loses or damages a command.                                    *)
(***************************************************************************)
LEMMA LineFrame ==
    ASSUME LinkFaults \subseteq {"lose_command", "corrupt_command"}, SystemTypeOK, LineFault
    PROVE  /\ faults' = faults + 1 /\ faults \in Nat
           /\ UNCHANGED <<replies, hostPc, hostTx, attempt, sent, deviceRx, transferActive, received>>
           /\ \E i \in 1 .. Len(commands) :
                 commands' = RemoveAt(commands, i) \/ commands' = Damaged(commands, i)
<1>1. DOMAIN commands = 1 .. Len(commands) /\ faults \in Nat
  BY LenProperties, LinkAssumption DEF SystemTypeOK
<1>2. QED
  BY <1>1 DEF LineFault, MayFail, vars, sessionVars, historyVars, deviceSeqVars, hostVars

\* Between the frames that go on after a lost or damaged one and what the
\* device has there is a gap, or a frame that it will not accept.
LEMMA CommandAstray ==
    ASSUME SystemTInv, NEW pos, UnderWay(pos, 0), NEW end \in 0 .. 1,
           Shape(commands, 0, 0, end, 0), Follows(pos[1]), NoAnswer, attempt = 1,
           hostPc \in {"data", "wait_end"}, end = IF hostPc = "data" THEN 0 ELSE 1,
           NEW i \in 1 .. Len(commands),
           commands' = RemoveAt(commands, i) \/ commands' = Damaged(commands, i),
           UNCHANGED <<replies, hostPc, hostTx, attempt, sent, deviceRx, transferActive, received>>
    PROVE  Astray'
<1>1. SystemTypeOK
  BY DEF SystemTInv
<1>2. PICK n \in Nat : n = Len(commands)
  BY <1>1, NoAnswerIs
<1>3. /\ commands \in Seq(CommandFrames) /\ i \in 1 .. n
      /\ \A j \in 1 .. n + 1 : pos[j] \in 0 .. Len(Source)
      /\ \A j \in 1 .. n : InPlace(commands, hostTx, pos, 0, j)
  BY <1>1, <1>2, UnderWayTyped
<1>4. \A j \in 1 .. n : Fits(commands[j], pos[j]) /\ pos[j + 1] = After(commands[j], pos[j])
  BY <1>2, <1>3 DEF InPlace
<1>5. Len(received) = pos[1]
  BY DEF Follows
<1>6. CASE commands' = Damaged(commands, i)
  <2>1. /\ UnderWay(pos, i)' /\ Len(commands') = n /\ ~commands'[i].good
        /\ \A j \in 1 .. n : commands'[j].cmd = commands[j].cmd
    BY <1>1, <1>2, <1>6, UnderWayDamaged
  <2>2. Shape(commands', 0, 0, end, 0)
    BY <1>2, <2>1, ShapeDamaged
  <2>3. (IF i = 1 THEN Len(received)' ELSE After(commands'[i - 1], pos[i - 1])) = pos[i]
    <3>1. CASE i = 1
      BY <1>5, <3>1
    <3>2. CASE i # 1
      <4>1. PICK j \in 1 .. n : j = i - 1 /\ j + 1 = i
        BY <1>3, <3>2
      <4>2. After(commands'[j], pos[j]) = After(commands[j], pos[j])
        BY <2>1 DEF After
      <4>3. QED
        BY <1>4, <3>2, <4>1, <4>2
    <3>3. QED
      BY <3>1, <3>2
  <2>4. pos[i] <= pos[i]
    <3>1. pos[i] \in Int
      BY <1>2, <1>3, SourceTyped
    <3>2. QED
      BY <3>1
  <2>5. IF i = 1 THEN transferActive' ELSE Follows(pos[1])'
    BY DEF Follows
  <2>6. i <= n
    BY <1>3
  <2>7. GoneAstray(pos, i, end)'
    BY <2>1, <2>2, <2>3, <2>4, <2>5, <2>6 DEF GoneAstray
  <2>8. i \in 1 .. Len(commands') + 1
    BY <1>3, <2>1
  <2>9. QED
    BY <2>7, <2>8 DEF Astray, NoAnswer
<1>7. CASE commands' = RemoveAt(commands, i)
  <2>1. PICK end2 \in 0 .. 1 : end2 = IF i = n THEN 0 ELSE end
    OBVIOUS
  <2>2. Shape(commands', 0, 0, end2, 0)
    BY <1>2, <1>3, <1>7, <2>1, ShapeLost
  <2>3. PICK pos2 : /\ UnderWay(pos2, i)'
                    /\ \A j \in 1 .. n : pos2[j] = IF j < i THEN pos[j] ELSE pos[j + 1]
    BY <1>1, <1>2, <1>7, UnderWayLost
  <2>4. /\ Len(commands') = n - 1
        /\ \A j \in 1 .. n - 1 : commands'[j] = IF j < i THEN commands[j] ELSE commands[j + 1]
    <3>1. commands \in Seq(CommandFrames) /\ i \in 1 .. Len(commands)
      BY <1>3
    <3>2. /\ Len(RemoveAt(commands, i)) = Len(commands) - 1
          /\ \A j \in 1 .. Len(commands) - 1 :
                RemoveAt(commands, i)[j] = IF j < i THEN commands[j] ELSE commands[j + 1]
      BY <3>1, RemovedElements
    <3>3. QED
      BY <1>2, <1>7, <3>2
  <2>5. (IF i = 1 THEN Len(received)' ELSE After(commands'[i - 1], pos2[i - 1])) = pos[i]
    <3>1. CASE i = 1
      BY <1>5, <3>1
    <3>2. CASE i # 1
      <4>1. PICK j \in 1 .. n : j = i - 1 /\ j + 1 = i
        BY <1>3, <3>2
      <4>2. j \in 1 .. n - 1 /\ j < i
        BY <1>3, <4>1
      <4>3. commands'[j] = commands[j] /\ pos2[j] = pos[j]
        BY <2>3, <2>4, <4>2
      <4>4. QED
        BY <1>4, <3>2, <4>1, <4>3
    <3>3. QED
      BY <3>1, <3>2
  <2>6. pos2[i] = After(commands[i], pos[i])
    BY <1>3, <1>4, <2>3
  <2>7. i # 1 => pos2[1] = pos[1]
    BY <1>3, <2>3
  <2>8. IF i = 1 THEN transferActive' ELSE Follows(pos2[1])'
    BY <2>7 DEF Follows
  <2>9. Kind(commands[i].cmd, i, n, 0, 0, end, 0)
    BY <1>2, <1>3 DEF Shape
  <2>10. i \in 1 .. Len(commands') + 1
    BY <1>3, <2>4
  <2>11. Fits(commands[i], pos[i]) /\ pos[i] \in 0 .. Len(Source)
    BY <1>2, <1>3, <1>4
  <2>12. CASE end = 1 /\ i = n
    <3>1. commands[i].cmd = "PUT_FILE_END"
      BY <1>3, <2>9, <2>12 DEF Kind
    <3>2. pos[i] = Len(Source) /\ pos2[i] = Len(Source)
      BY <2>6, <2>11, <3>1 DEF Fits, After
    <3>3. Len(Source) <= Len(Source)
      BY SourceTyped
    <3>4. hostPc' = "wait_end" /\ end2 = 0 /\ i = Len(commands') + 1
      BY <2>1, <2>4, <2>12
    <3>5. GoneAstray(pos2, i, end2)'
      BY <2>2, <2>3, <2>5, <2>8, <3>2, <3>3, <3>4 DEF GoneAstray
    <3>6. QED
      BY <2>10, <3>5 DEF Astray, NoAnswer
  <2>13. CASE ~(end = 1 /\ i = n)
    <3>1. commands[i].cmd = "PUT_FILE_DATA"
      BY <1>3, <2>9, <2>13 DEF Kind
    <3>2. pos[i] < pos2[i] /\ pos[i] <= pos2[i] /\ pos[i] # pos2[i]
      <4>1. pos2[i] = ReadEnd(pos[i]) /\ pos[i] < Len(Source)
        BY <2>6, <2>11, <3>1 DEF Fits, After
      <4>2. pos[i] < ReadEnd(pos[i]) /\ ReadEnd(pos[i]) \in Nat /\ pos[i] \in Nat
        <5>1. PICK p \in 0 .. Len(Source) : p = pos[i]
          BY <2>11
        <5>2. ReadEnd(p) \in 0 .. Len(Source) /\ p < ReadEnd(p)
          BY <4>1, <5>1, AfterTyped
        <5>3. p \in Nat /\ ReadEnd(p) \in Nat
          BY <5>1, <5>2, SourceTyped
        <5>4. QED
          BY <5>1, <5>2, <5>3
      <4>3. QED
        BY <4>1, <4>2
    <3>3. /\ hostPc' = "data" => end2 = 0
          /\ hostPc' = "wait_end" => end2 = 1 /\ i <= Len(commands')
      BY <1>3, <2>1, <2>4, <2>13
    <3>4. GoneAstray(pos2, i, end2)'
      BY <2>2, <2>3, <2>5, <2>8, <3>2, <3>3 DEF GoneAstray
    <3>5. QED
      BY <2>10, <3>4 DEF Astray, NoAnswer
  <2>14. QED
    BY <2>12, <2>13
<1>8. QED
  BY <1>6, <1>7

LEMMA LineDisturbs ==
    ASSUME LinkFaults \subseteq {"lose_command", "corrupt_command"}, SystemTInv,
           LineFault, faults' <= 1, faults = 0 => Undisturbed
    PROVE  BeginAstray' \/ Astray'
<1>1. SystemTypeOK
  BY DEF SystemTInv
<1>2. /\ UNCHANGED <<replies, hostPc, hostTx, attempt, sent, deviceRx, transferActive, received>>
      /\ faults = 0
  BY <1>1, LineFrame
<1>3. PICK i \in 1 .. Len(commands) :
         commands' = RemoveAt(commands, i) \/ commands' = Damaged(commands, i)
  BY <1>1, LineFrame
<1>4. PICK pos : \E old, begin, end, ahead \in 0 .. 1 : OnCourse(pos, old, begin, end, ahead)
  BY <1>2 DEF Undisturbed
<1>5. PICK old \in 0 .. 1, begin \in 0 .. 1, end \in 0 .. 1, ahead \in 0 .. 1 :
         OnCourse(pos, old, begin, end, ahead)
  BY <1>4
<1>6. PICK n \in Nat : n = Len(commands) /\ n > 0 /\ i \in 1 .. n
  BY <1>1, NoAnswerIs
<1>7. PICK m \in Nat : m = Len(replies) /\ (m = 0 => NoAnswer)
  BY <1>1, NoAnswerIs
<1>8. UnderWay(pos, 0) /\ Shape(commands, old, begin, end, 0)
  BY <1>5 DEF OnCourse
<1>9. /\ attempt = 1 /\ ahead = 0 /\ old = 0
      /\ begin = 1 => ~transferActive
      /\ m + begin + end = IF hostPc \in {"wait_begin", "wait_end"} THEN 1 ELSE 0
      /\ \/ hostPc = "wait_begin" /\ n = begin
         \/ hostPc = "data" /\ end = 0
         \/ hostPc \in {"wait_end", "ok"} /\ end = 1
      /\ begin = 0 /\ (hostPc \in {"wait_begin", "data"} \/ end = 1) => Follows(pos[1])
  BY <1>2, <1>5, <1>6, <1>7 DEF OnCourse, Waiting
<1>10. CASE hostPc = "wait_begin"
  <2>1. n = 1 /\ begin = 1 /\ end = 0 /\ m = 0 /\ i = 1
    BY <1>6, <1>9, <1>10
  <2>2. (\E p : UnderWay(p, 1)') /\ (Len(commands') = 0 \/
            (Len(commands') = 1 /\ Shape(commands', 0, 1, 0, 0) /\ ~commands'[1].good))
    <3>1. CASE commands' = RemoveAt(commands, i)
      <4>1. \E p : UnderWay(p, 1)'
        BY <1>1, <1>2, <1>8, <2>1, <3>1, UnderWayLost
      <4>2. Len(commands') = 0
        <5>1. commands \in Seq(CommandFrames)
          BY <1>1 DEF SystemTypeOK
        <5>2. Len(RemoveAt(commands, i)) = Len(commands) - 1
          BY <5>1, RemovedElements
        <5>3. Len(commands) = 1
          BY <1>6, <2>1
        <5>4. QED
          BY <3>1, <5>2, <5>3
      <4>3. QED
        BY <4>1, <4>2
    <3>2. CASE commands' = Damaged(commands, i)
      <4>1. /\ UnderWay(pos, 1)' /\ Len(commands') = Len(commands) /\ ~commands'[1].good
            /\ \A j \in 1 .. Len(commands) : commands'[j].cmd = commands[j].cmd
        BY <1>1, <1>2, <1>8, <2>1, <3>2, UnderWayDamaged
      <4>2. Shape(commands', 0, 1, 0, 0)
        BY <1>8, <1>9, <2>1, <4>1, ShapeDamaged
      <4>3. QED
        BY <1>6, <2>1, <4>1, <4>2
    <3>3. QED
      BY <1>3, <3>1, <3>2
  <2>3. BeginAstray'
    BY <1>2, <1>7, <1>9, <1>10, <2>1, <2>2 DEF BeginAstray, NoAnswer
  <2>4. QED
    BY <2>3
<1>11. CASE hostPc # "wait_begin"
  <2>1. /\ begin = 0 /\ m = 0 /\ hostPc \in {"data", "wait_end"}
        /\ end = IF hostPc = "data" THEN 0 ELSE 1
    BY <1>9, <1>11
  <2>2. Follows(pos[1]) /\ NoAnswer /\ Shape(commands, 0, 0, end, 0)
    BY <1>7, <1>8, <1>9, <2>1
  <2>3. Astray'
    BY <1>2, <1>3, <1>8, <1>9, <2>1, <2>2, CommandAstray
  <2>4. QED
    BY <2>3
<1>12. QED
  BY <1>10, <1>11

-----------------------------------------------------------------------------
(***************************************************************************)
(* The host sends a command.                                               *)
(***************************************************************************)
LEMMA HostFrame ==
    ASSUME LinkFaults \subseteq {"lose_command", "corrupt_command"}, SystemTypeOK, HostStep,
           Connected
    PROVE  /\ UNCHANGED <<deviceRx, deviceTx, transferActive, received, files, faults>>
           /\ \A p : Follows(p) => Follows(p)'
           /\ \A p : Behind(p) => Behind(p)'
           /\ Stored' = Stored
<1>1. UNCHANGED <<deviceRx, deviceTx, transferActive, received, files, faults>>
  BY DEF HostStep, SendHello, WaitHello, SendBegin, WaitBegin, SendData, SendEnd, WaitEnd,
         SendAbort, WaitAbort, vars, cardVars, sessionVars, historyVars, deviceSeqVars, boundVars,
         Connected, Answered, Refused, TimesOut, MayFail
<1>2. QED
  BY <1>1 DEF Follows, Behind, Stored

LEMMA NothingUnderWay ==
    ASSUME commands = <<>>
    PROVE  /\ Len(commands) = 0 /\ Shape(commands, 0, 0, 0, 0)
BY DEF Shape

LEMMA ShapeEnds ==
    ASSUME SystemTypeOK, NEW old \in 0 .. 1, NEW begin \in 0 .. 1, NEW end \in 0 .. 1,
           Shape(commands, old, begin, end, 0)
    PROVE  Len(commands) \in Nat /\ old + begin + end <= Len(commands)
BY NoAnswerIs DEF Shape

LEMMA BeginSent ==
    ASSUME LinkFaults \subseteq {"lose_command", "corrupt_command"}, SystemTypeOK, HostStep,
           SendBegin
    PROVE  /\ Undisturbed => Undisturbed'
           /\ Disturbed => Disturbed'
<1> DEFINE f == Frame("PUT_FILE_BEGIN", hostTx, <<>>)
<1>1. /\ hostPc = "begin" /\ hostPc' = "wait_begin" /\ sent' = 0
      /\ Send("PUT_FILE_BEGIN", <<>>) /\ commands' = Append(commands, f)
      /\ UNCHANGED <<replies, attempt>>
  BY DEF SendBegin, Send
<1>2. f \in CommandFrames /\ f.cmd = "PUT_FILE_BEGIN" /\ commands \in Seq(CommandFrames)
  BY DEF Frame, CommandFrames, SystemTypeOK
<1>3. UNCHANGED <<deviceRx, transferActive, faults>>
  BY <1>1, HostFrame DEF Connected
<1> HIDE DEF f
<1>4. ASSUME NEW pos, UnderWay(pos, 0)
      PROVE  /\ Len(commands') = Len(commands) + 1
             /\ \E pos2 : UnderWay(pos2, 0)'
  BY <1>4, BeginGrows DEF Longer
<1>5. ASSUME Undisturbed PROVE Undisturbed'
  <2>1. PICK pos : \E old, begin, end, ahead \in 0 .. 1 : OnCourse(pos, old, begin, end, ahead)
    BY <1>5 DEF Undisturbed
  <2>2. PICK old \in 0 .. 1, begin \in 0 .. 1, end \in 0 .. 1, ahead \in 0 .. 1 :
           OnCourse(pos, old, begin, end, ahead)
    BY <2>1
  <2>3. /\ UnderWay(pos, 0) /\ Shape(commands, old, begin, end, 0)
        /\ begin = 0 /\ Len(commands) = old
        /\ Acks /\ Len(replies) + old + begin + end = ahead + (IF Waiting THEN 1 ELSE 0)
        /\ faults = 0 => attempt = 1 /\ ahead = 0 /\ old = 0
        /\ ~transferActive
    BY <1>1, <2>2 DEF OnCourse
  <2>4. end = 0 /\ Len(replies) + old = ahead /\ Len(replies) \in Nat
    BY <1>1, <2>3, ShapeEnds, NoAnswerIs DEF Waiting
  <2>5. Shape(commands, old, 0, 0, 0)
    BY <2>3, <2>4
  <2>6. Shape(commands', old, 1, 0, 0)
    BY <1>1, <1>2, <2>3, <2>5, ShapeSent
  <2>7. PICK pos2 : UnderWay(pos2, 0)'
    BY <1>4, <2>3
  <2>8. Len(commands') = old + 1
    BY <1>4, <2>3
  <2>9. OnCourse(pos2, old, 1, 0, ahead)'
    BY <1>1, <1>3, <2>3, <2>4, <2>6, <2>7, <2>8 DEF OnCourse, Acks, Waiting
  <2>10. 0 \in 0 .. 1 /\ 1 \in 0 .. 1
    OBVIOUS
  <2>11. QED
    BY <2>9, <2>10 DEF Undisturbed
<1>6. ASSUME Disturbed PROVE LeftOpen'
  <2>1. LeftOpen
    BY <1>1, <1>6 DEF Disturbed, BeginAstray, Astray, FallenBehind, Refusal, Aborting
  <2>2. commands = <<>> /\ attempt = 2 /\ NoAnswer /\ transferActive
    BY <1>1, <2>1 DEF LeftOpen
  <2>3. PICK pos : UnderWay(pos, 0)
    BY <2>1 DEF LeftOpen
  <2>4. Len(commands') = 1 /\ \E pos2 : UnderWay(pos2, 0)'
    BY <1>4, <2>2, <2>3, NothingUnderWay
  <2>5. Shape(commands', 0, 1, 0, 0)
    <3>1. PICK zero \in 0 .. 1 : zero = 0
      OBVIOUS
    <3>2. Shape(commands, zero, 0, 0, 0) /\ Len(commands) = zero
      BY <2>2, <3>1, NothingUnderWay
    <3>3. Shape(commands', zero, 1, 0, 0)
      BY <1>1, <1>2, <3>2, ShapeSent
    <3>4. QED
      BY <3>1, <3>3
  <2>6. QED
    BY <1>1, <1>3, <2>2, <2>4, <2>5 DEF LeftOpen, NoAnswer
<1>7. QED
  BY <1>5, <1>6 DEF Disturbed

\* The frames that follow each other still do when the host reads on.
LEMMA DataFrame ==
    ASSUME SystemTypeOK, SendData, NEW pos, NEW g, UnderWay(pos, g),
           NEW begin \in 0 .. 1, Shape(commands, 0, begin, 0, 0)
    PROVE  Longer(pos, g) /\ Shape(commands', 0, begin, 0, 0)
<1> DEFINE f == Frame("PUT_FILE_DATA", hostTx, SubSeq(Source, sent + 1, ReadTo))
<1>1. commands' = Append(commands, f) /\ commands \in Seq(CommandFrames)
  BY DEF SendData, Send, SystemTypeOK
<1>2. f \in CommandFrames /\ f.cmd = "PUT_FILE_DATA"
  BY Read DEF SendData, Frame, CommandFrames, SystemTypeOK
<1> HIDE DEF f
<1>3. PICK zero \in 0 .. 1 : zero = 0
  OBVIOUS
<1>4. Shape(commands', zero, begin, 0, 0)
  BY <1>1, <1>2, <1>3, ShapeSent
<1>5. QED
  BY <1>3, <1>4, DataGrows

LEMMA EndFrame ==
    ASSUME SystemTypeOK, SendEnd, NEW pos, NEW g, UnderWay(pos, g),
           NEW begin \in 0 .. 1, Shape(commands, 0, begin, 0, 0)
    PROVE  Longer(pos, g) /\ Shape(commands', 0, begin, 1, 0)
<1> DEFINE f == Frame("PUT_FILE_END", hostTx, <<>>)
<1>1. commands' = Append(commands, f) /\ commands \in Seq(CommandFrames)
  BY DEF SendEnd, Send, SystemTypeOK
<1>2. f \in CommandFrames /\ f.cmd = "PUT_FILE_END"
  BY DEF Frame, CommandFrames, SystemTypeOK
<1> HIDE DEF f
<1>3. PICK zero \in 0 .. 1 : zero = 0
  OBVIOUS
<1>4. Shape(commands', zero, begin, 1, 0)
  BY <1>1, <1>2, <1>3, ShapeSent
<1>5. QED
  BY <1>3, <1>4, EndGrows

LEMMA AbortFrame ==
    ASSUME SystemTypeOK, SendAbort, NEW pos, NEW g, UnderWay(pos, g),
           NEW end \in 0 .. 1, Shape(commands, 0, 0, end, 0)
    PROVE  Longer(pos, g) /\ Shape(commands', 0, 0, end, 1)
<1> DEFINE f == Frame("PUT_FILE_ABORT", hostTx, <<>>)
<1>1. commands' = Append(commands, f) /\ commands \in Seq(CommandFrames)
  BY DEF SendAbort, Send, SystemTypeOK
<1>2. f \in CommandFrames /\ f.cmd = "PUT_FILE_ABORT"
  BY DEF Frame, CommandFrames, SystemTypeOK
<1> HIDE DEF f
<1>3. PICK zero \in 0 .. 1 : zero = 0
  OBVIOUS
<1>4. Shape(commands', zero, zero, end, 1)
  BY <1>1, <1>2, <1>3, ShapeSent
<1>5. QED
  BY <1>3, <1>4, AbortGrows

\* A frame more at the end leaves the gap where it is.
LEMMA AstrayGrows ==
    ASSUME SystemTypeOK, NEW pos, NEW g \in 1 .. Len(commands) + 1, GoneAstray(pos, g, 0),
           hostPc = "data", NEW end \in 0 .. 1, hostPc' = (IF end = 0 THEN "data" ELSE "wait_end"),
           UNCHANGED <<transferActive, received, replies, attempt>>, NoAnswer, attempt = 1,
           Len(commands') = Len(commands) + 1, Shape(commands', 0, 0, end, 0),
           \A i \in 1 .. Len(commands) : commands'[i] = commands[i],
           NEW pos2, UnderWay(pos2, g)',
           \A i \in 1 .. Len(commands) + 1 : pos2[i] = pos[i]
    PROVE  Astray'
<1>1. PICK n \in Nat : n = Len(commands)
  BY NoAnswerIs
<1>2. g \in 1 .. n + 1 /\ g \in Nat
  BY <1>1
<1>3. pos2[g] = pos[g] /\ pos2[1] = pos[1]
  BY <1>1, <1>2
<1>4. g # 1 => commands'[g - 1] = commands[g - 1] /\ pos2[g - 1] = pos[g - 1]
  <2>1. g # 1 => g - 1 \in 1 .. n /\ g - 1 \in 1 .. n + 1
    BY <1>2
  <2>2. QED
    BY <1>1, <2>1
<1>5. g <= n => commands'[g] = commands[g]
  BY <1>1, <1>2
<1> DEFINE d == IF g = 1 THEN Len(received) ELSE After(commands[g - 1], pos[g - 1])
<1>6. /\ IF g = 1 THEN transferActive ELSE Follows(pos[1])
      /\ d <= pos[g]
      /\ d = pos[g] => g <= n /\ ~commands[g].good
  BY <1>1 DEF GoneAstray
<1>7. (IF g = 1 THEN Len(received)' ELSE After(commands'[g - 1], pos2[g - 1])) = d
  BY <1>4
<1>8. IF g = 1 THEN transferActive' ELSE Follows(pos2[1])'
  BY <1>3, <1>6 DEF Follows
<1> HIDE DEF d
<1>9. d <= pos2[g] /\ (d = pos2[g] => g <= n + 1 /\ ~commands'[g].good)
  BY <1>2, <1>3, <1>5, <1>6
<1>10. Len(commands') = n + 1 /\ g <= n + 1
  BY <1>1, <1>2
<1>11. GoneAstray(pos2, g, end)'
  BY <1>7, <1>8, <1>9, <1>10 DEF GoneAstray
<1>12. g \in 1 .. Len(commands') + 1
  BY <1>2, <1>10
<1>13. QED
  BY <1>11, <1>12 DEF Astray, NoAnswer

LEMMA DataSent ==
    ASSUME LinkFaults \subseteq {"lose_command", "corrupt_command"}, SystemTypeOK,
           AnswersInTurn, HostStep, SendData
    PROVE  /\ Undisturbed => Undisturbed'
           /\ Disturbed => Disturbed'
<1>1. /\ hostPc = "data" /\ UNCHANGED attempt
      /\ \/ UNCHANGED <<replies, hostRx>> /\ hostPc' = "data"
         \/ TakeReply /\ Verdict = "ACK" /\ hostPc' = "data"
         \/ TakeReply /\ Verdict # "ACK" /\ hostPc' = "abort"
  BY DEF SendData
<1>2. /\ UNCHANGED <<deviceRx, transferActive, received, files, faults>>
      /\ \A p : Follows(p) => Follows(p)'
      /\ \A p : Behind(p) => Behind(p)'
  BY <1>1, HostFrame DEF Connected
<1>3. PICK n \in Nat : n = Len(commands)
  BY NoAnswerIs
<1>4. PICK m \in Nat : m = Len(replies) /\ (NoAnswer <=> m = 0)
  BY NoAnswerIs
<1>5. TakeReply => /\ m > 0 /\ Len(replies') = m - 1
                   /\ Acks => Verdict = "ACK" /\ Acks'
                   /\ \A k \in Nat : Nacks(k) => Verdict = "NACK" /\ k > 0 /\ Nacks(k - 1)'
  BY <1>4, AnswersShrink
<1>6. ASSUME Undisturbed PROVE Undisturbed'
  <2>1. PICK pos : \E old, begin, end, ahead \in 0 .. 1 : OnCourse(pos, old, begin, end, ahead)
    BY <1>6 DEF Undisturbed
  <2>2. PICK old \in 0 .. 1, begin \in 0 .. 1, end \in 0 .. 1, ahead \in 0 .. 1 :
           OnCourse(pos, old, begin, end, ahead)
    BY <2>1
  <2>3. /\ UnderWay(pos, 0) /\ Shape(commands, 0, begin, 0, 0) /\ old = 0 /\ end = 0
        /\ Acks /\ m + begin = ahead
        /\ faults = 0 => attempt = 1 /\ ahead = 0
        /\ begin = 1 => ~transferActive
        /\ begin = 0 => Follows(pos[1])
    BY <1>1, <1>4, <2>2 DEF OnCourse, Waiting
  <2>4. PICK pos2 : UnderWay(pos2, 0)' /\ \A i \in 1 .. n + 1 : pos2[i] = pos[i]
    BY <1>2, <1>3, <2>3, DataFrame DEF Longer
  <2>5. Shape(commands', 0, begin, 0, 0) /\ pos2[1] = pos[1]
    BY <1>2, <1>3, <2>3, <2>4, DataFrame DEF Longer
  <2>6. begin = 0 => Follows(pos2[1])'
    BY <1>2, <2>3, <2>5
  <2>7. PICK ahead2 \in 0 .. 1 : /\ Len(replies') + begin = ahead2
                                 /\ Acks' /\ hostPc' = "data"
                                 /\ ahead = 0 => ahead2 = 0
    <3>1. CASE UNCHANGED <<replies, hostRx>> /\ hostPc' = "data"
      BY <1>4, <2>3, <3>1 DEF Acks
    <3>2. CASE TakeReply
      <4>1. m = 1 /\ begin = 0 /\ ahead = 1 /\ Len(replies') = 0 /\ Acks' /\ hostPc' = "data"
        BY <1>1, <1>5, <2>3, <3>2
      <4>2. QED
        BY <4>1
    <3>3. QED
      BY <1>1, <3>1, <3>2
  <2>8. OnCourse(pos2, 0, begin, 0, ahead2)'
    BY <1>1, <1>2, <2>3, <2>4, <2>5, <2>6, <2>7 DEF OnCourse, Waiting
  <2>9. 0 \in 0 .. 1
    OBVIOUS
  <2>10. QED
    BY <2>8, <2>9 DEF Undisturbed
<1>7. ASSUME Astray PROVE Astray'
  <2>1. PICK pos : \E g \in 1 .. Len(commands) + 1, end \in 0 .. 1 : GoneAstray(pos, g, end)
    BY <1>7 DEF Astray
  <2>2. PICK g \in 1 .. Len(commands) + 1 : GoneAstray(pos, g, 0)
    <3>1. PICK g \in 1 .. Len(commands) + 1, end \in 0 .. 1 : GoneAstray(pos, g, end)
      BY <2>1
    <3>2. end = 0
      BY <1>1, <3>1 DEF GoneAstray
    <3>3. QED
      BY <3>1, <3>2
  <2>3. UnderWay(pos, g) /\ Shape(commands, 0, 0, 0, 0)
    BY <2>2 DEF GoneAstray
  <2>4. /\ Len(commands') = Len(commands) + 1 /\ Shape(commands', 0, 0, 0, 0)
        /\ \A i \in 1 .. Len(commands) : commands'[i] = commands[i]
    BY <1>2, <2>3, DataFrame DEF Longer
  <2>5. PICK pos2 : /\ UnderWay(pos2, g)'
                    /\ \A i \in 1 .. Len(commands) + 1 : pos2[i] = pos[i]
    BY <1>2, <2>3, DataFrame DEF Longer
  <2>6. NoAnswer /\ attempt = 1 /\ UNCHANGED replies /\ hostPc' = "data"
    BY <1>1, <1>4, <1>5, <1>7 DEF Astray
  <2>7. QED
    BY <1>1, <1>2, <2>2, <2>4, <2>5, <2>6, AstrayGrows
<1>8. ASSUME FallenBehind PROVE FallenBehind' \/ Aborting'
  <2>1. PICK pos : UnderWay(pos, 0) /\ Behind(pos[1]) /\ Shape(commands, 0, 0, 0, 0)
    BY <1>1, <1>8 DEF FallenBehind
  <2>2. attempt = 1 /\ (NoAnswer \/ Nacks(1))
    BY <1>8 DEF FallenBehind
  <2>3. PICK pos2 : UnderWay(pos2, 0)' /\ \A i \in 1 .. n + 1 : pos2[i] = pos[i]
    BY <1>2, <1>3, <2>1, DataFrame DEF Longer
  <2>4. Shape(commands', 0, 0, 0, 0) /\ pos2[1] = pos[1]
    BY <1>2, <1>3, <2>1, <2>3, DataFrame DEF Longer
  <2>5. Behind(pos2[1])'
    BY <1>2, <2>1, <2>4
  <2>6. CASE UNCHANGED <<replies, hostRx>> /\ hostPc' = "data"
    <3>1. NoAnswer' \/ Nacks(1)'
      BY <2>2, <2>6 DEF NoAnswer, Nacks
    <3>2. FallenBehind'
      BY <1>1, <2>2, <2>3, <2>4, <2>5, <2>6, <3>1 DEF FallenBehind
    <3>3. QED
      BY <3>2
  <2>7. CASE TakeReply
    <3>1. Nacks(1) /\ m = 1
      BY <1>4, <1>5, <2>2, <2>7 DEF Nacks
    <3>2. Verdict = "NACK" /\ Len(replies') = 0
      BY <1>5, <2>7, <3>1
    <3>3. hostPc' = "abort"
      <4>1. replies' # replies
        <5>1. Len(replies) = 1 /\ Len(replies') = 0
          BY <3>1, <3>2 DEF Nacks
        <5>2. QED
          BY <5>1
      <4>2. QED
        BY <1>1, <3>2, <4>1
    <3>4. Nacks(Len(replies))'
      BY <3>2 DEF Nacks
    <3>5. GivingUp(pos2, 0, 0, 0)'
      BY <2>3, <2>4, <2>5, <3>2, <3>3, <3>4 DEF GivingUp
    <3>6. 0 \in 0 .. 1 /\ attempt' \in 1 .. 2
      BY <1>1, <2>2
    <3>7. Aborting'
      BY <3>3, <3>5, <3>6 DEF Aborting
    <3>8. QED
      BY <3>7
  <2>8. QED
    BY <1>1, <2>6, <2>7
<1>9. Disturbed => Astray \/ FallenBehind
  BY <1>1 DEF Disturbed, BeginAstray, Refusal, Aborting, LeftOpen
<1>10. QED
  BY <1>6, <1>7, <1>8, <1>9 DEF Disturbed

LEMMA EndSent ==
    ASSUME LinkFaults \subseteq {"lose_command", "corrupt_command"}, SystemTypeOK, HostStep,
           SendEnd
    PROVE  /\ Undisturbed => Undisturbed'
           /\ Disturbed => Disturbed'
<1>1. hostPc = "data" /\ UNCHANGED <<replies, attempt>> /\ hostPc' = "wait_end"
  BY DEF SendEnd
<1>2. /\ UNCHANGED <<deviceRx, transferActive, received, files, faults>>
      /\ \A p : Follows(p) => Follows(p)'
      /\ \A p : Behind(p) => Behind(p)'
  BY <1>1, HostFrame DEF Connected
<1>3. PICK n \in Nat : n = Len(commands)
  BY NoAnswerIs
<1>4. ASSUME Undisturbed PROVE Undisturbed'
  <2>1. PICK pos : \E old, begin, end, ahead \in 0 .. 1 : OnCourse(pos, old, begin, end, ahead)
    BY <1>4 DEF Undisturbed
  <2>2. PICK old \in 0 .. 1, begin \in 0 .. 1, end \in 0 .. 1, ahead \in 0 .. 1 :
           OnCourse(pos, old, begin, end, ahead)
    BY <2>1
  <2>3. /\ UnderWay(pos, 0) /\ Shape(commands, 0, begin, 0, 0) /\ old = 0 /\ end = 0
        /\ Acks /\ Len(replies) + begin = ahead
        /\ faults = 0 => attempt = 1 /\ ahead = 0
        /\ begin = 1 => ~transferActive
        /\ begin = 0 => Follows(pos[1])
    <3>1. Len(replies) \in Nat
      BY NoAnswerIs
    <3>2. QED
      BY <1>1, <2>2, <3>1 DEF OnCourse, Waiting
  <2>4. PICK pos2 : UnderWay(pos2, 0)' /\ \A i \in 1 .. n + 1 : pos2[i] = pos[i]
    BY <1>2, <1>3, <2>3, EndFrame DEF Longer
  <2>5. Shape(commands', 0, begin, 1, 0) /\ pos2[1] = pos[1]
    BY <1>2, <1>3, <2>3, <2>4, EndFrame DEF Longer
  <2>6. begin = 0 => Follows(pos2[1])'
    BY <1>2, <2>3, <2>5
  <2>7. Len(replies') + begin + 1 = ahead + 1
    BY <1>1, <2>3, NoAnswerIs
  <2>8. OnCourse(pos2, 0, begin, 1, ahead)'
    BY <1>1, <1>2, <2>3, <2>4, <2>5, <2>6, <2>7, NoAnswerIs DEF OnCourse, Acks, Waiting
  <2>9. 0 \in 0 .. 1 /\ 1 \in 0 .. 1
    OBVIOUS
  <2>10. QED
    BY <2>8, <2>9 DEF Undisturbed
<1>5. ASSUME Astray PROVE Astray'
  <2>1. PICK pos : \E g \in 1 .. Len(commands) + 1, end \in 0 .. 1 : GoneAstray(pos, g, end)
    BY <1>5 DEF Astray
  <2>2. PICK g \in 1 .. Len(commands) + 1 : GoneAstray(pos, g, 0)
    <3>1. PICK g \in 1 .. Len(commands) + 1, end \in 0 .. 1 : GoneAstray(pos, g, end)
      BY <2>1
    <3>2. end = 0
      BY <1>1, <3>1 DEF GoneAstray
    <3>3. QED
      BY <3>1, <3>2
  <2>3. UnderWay(pos, g) /\ Shape(commands, 0, 0, 0, 0)
    BY <2>2 DEF GoneAstray
  <2>4. /\ Len(commands') = Len(commands) + 1 /\ Shape(commands', 0, 0, 1, 0)
        /\ \A i \in 1 .. Len(commands) : commands'[i] = commands[i]
    BY <1>2, <2>3, EndFrame DEF Longer
  <2>5. PICK pos2 : /\ UnderWay(pos2, g)'
                    /\ \A i \in 1 .. Len(commands) + 1 : pos2[i] = pos[i]
    BY <1>2, <2>3, EndFrame DEF Longer
  <2>6. NoAnswer /\ attempt = 1
    BY <1>5 DEF Astray
  <2>7. QED
    BY <1>1, <1>2, <2>2, <2>4, <2>5, <2>6, AstrayGrows
<1>6. ASSUME FallenBehind PROVE FallenBehind'
  <2>1. PICK pos : UnderWay(pos, 0) /\ Behind(pos[1]) /\ Shape(commands, 0, 0, 0, 0)
    BY <1>1, <1>6 DEF FallenBehind
  <2>2. PICK pos2 : UnderWay(pos2, 0)' /\ \A i \in 1 .. n + 1 : pos2[i] = pos[i]
    BY <1>2, <1>3, <2>1, EndFrame DEF Longer
  <2>3. Shape(commands', 0, 0, 1, 0) /\ pos2[1] = pos[1]
    BY <1>2, <1>3, <2>1, <2>2, EndFrame DEF Longer
  <2>4. Behind(pos2[1])'
    BY <1>2, <2>1, <2>3
  <2>5. attempt' = 1 /\ (NoAnswer' \/ Nacks(1)')
    BY <1>1, <1>6 DEF FallenBehind, NoAnswer, Nacks
  <2>6. QED
    BY <1>1, <2>2, <2>3, <2>4, <2>5 DEF FallenBehind
<1>7. Disturbed => Astray \/ FallenBehind
  BY <1>1 DEF Disturbed, BeginAstray, Refusal, Aborting, LeftOpen
<1>8. QED
  BY <1>4, <1>5, <1>6, <1>7 DEF Disturbed

LEMMA AbortSent ==
    ASSUME LinkFaults \subseteq {"lose_command", "corrupt_command"}, SystemTypeOK, HostStep,
           SendAbort
    PROVE  ~Undisturbed /\ (Disturbed => Aborting')
<1>1. hostPc = "abort" /\ UNCHANGED <<replies, attempt>> /\ hostPc' = "wait_abort"
  BY DEF SendAbort
<1>2. UNCHANGED <<deviceRx, transferActive>> /\ \A p : Behind(p) => Behind(p)'
  BY <1>1, HostFrame DEF Connected
<1>3. PICK n \in Nat : n = Len(commands)
  BY NoAnswerIs
<1>4. ~Undisturbed
  BY <1>1 DEF Undisturbed, OnCourse
<1>5. Disturbed => Aborting
  BY <1>1 DEF Disturbed, BeginAstray, Astray, FallenBehind, Refusal, LeftOpen
<1>6. ASSUME Aborting PROVE Aborting'
  <2>1. PICK pos : \E g, end, abort \in 0 .. 1 : GivingUp(pos, g, end, abort)
    BY <1>6 DEF Aborting
  <2>2. PICK g \in 0 .. 1, end \in 0 .. 1, abort \in 0 .. 1 : GivingUp(pos, g, end, abort)
    BY <2>1
  <2>3. /\ UnderWay(pos, g) /\ Shape(commands, 0, 0, end, 0) /\ abort = 0
        /\ g = 1 => n = 0 /\ NoAnswer /\ (transferActive => attempt = 1)
        /\ n > 0 => Behind(pos[1])
        /\ Nacks(Len(replies)) /\ Len(replies) + end <= 1
        /\ Len(replies) = 1 => ~transferActive
    BY <1>1, <1>3, <2>2 DEF GivingUp
  <2>4. PICK pos2 : UnderWay(pos2, g)' /\ \A i \in 1 .. n + 1 : pos2[i] = pos[i]
    BY <1>2, <1>3, <2>3, AbortFrame DEF Longer
  <2>5. Shape(commands', 0, 0, end, 1) /\ Len(commands') = n + 1 /\ pos2[1] = pos[1]
    BY <1>2, <1>3, <2>3, <2>4, AbortFrame DEF Longer
  <2>6. Len(commands') > 1 => Behind(pos2[1])'
    BY <1>2, <2>3, <2>5
  <2>7. Nacks(Len(replies))' /\ (NoAnswer => NoAnswer')
    BY <1>1, <2>3 DEF Nacks, NoAnswer
  <2>8. g = 1 => Len(commands') = 1 /\ NoAnswer' /\ (transferActive' => attempt' = 1)
    BY <1>1, <1>2, <2>3, <2>5, <2>7
  <2>9. GivingUp(pos2, g, end, 1)'
    BY <1>1, <1>2, <2>3, <2>4, <2>5, <2>6, <2>7, <2>8 DEF GivingUp
  <2>10. 1 \in 0 .. 1 /\ attempt' \in 1 .. 2
    BY <1>1, <1>6 DEF Aborting
  <2>11. QED
    BY <1>1, <2>9, <2>10 DEF Aborting
<1>7. QED
  BY <1>4, <1>5, <1>6

-----------------------------------------------------------------------------
(***************************************************************************)
(* The host waits for an answer.                                           *)
(***************************************************************************)
\* A refused BEGIN or END makes the host abort.
LEMMA RefusalRead ==
    ASSUME SystemTypeOK, AnswersInTurn, Refusal, UNCHANGED <<commands, hostTx, deviceRx>>,
           UNCHANGED <<transferActive, attempt>>, hostPc' = "abort", TakeReply
    PROVE  Aborting'
<1>1. PICK pos : UnderWay(pos, 0)
  BY DEF Refusal
<1>2. /\ commands = <<>> /\ attempt \in 1 .. 2
      /\ Nacks(1) \/ (Nacks(2) /\ ~transferActive)
  BY DEF Refusal
<1>3. UnderWay(pos, 0)'
  BY <1>1, UnderWayStays DEF Sending, Starting
<1>4. /\ Nacks(Len(replies))' /\ Len(replies') \in 0 .. 1
      /\ Len(replies') = 1 => ~transferActive'
  <2>1. CASE Nacks(1)
    <3>1. Len(replies') = 0
      BY <2>1, AnswersShrink DEF Nacks
    <3>2. QED
      BY <3>1 DEF Nacks
  <2>2. CASE Nacks(2) /\ ~transferActive
    <3>1. Nacks(2 - 1)'
      BY <2>2, AnswersShrink
    <3>2. Nacks(1)'
      BY <3>1
    <3>3. Len(replies') = 1 /\ \A i \in 1 .. Len(replies') : replies'[i].kind = "NACK"
      BY <3>2 DEF Nacks
    <3>4. QED
      BY <2>2, <3>3 DEF Nacks
  <2>3. QED
    BY <1>2, <2>1, <2>2
<1>5. commands' = <<>> /\ Len(commands') = 0 /\ Shape(commands', 0, 0, 0, 0)
  BY <1>2, NothingUnderWay
<1>6. GivingUp(pos, 0, 0, 0)'
  <2>1. Len(replies') + 0 <= 1
    <3>1. \A k \in 0 .. 1 : k + 0 <= 1
      OBVIOUS
    <3>2. QED
      BY <1>4, <3>1
  <2>2. QED
    BY <1>3, <1>4, <1>5, <2>1 DEF GivingUp
<1>7. 0 \in 0 .. 1 /\ attempt' \in 1 .. 2
  BY <1>2
<1>8. QED
  BY <1>6, <1>7 DEF Aborting

\* Nothing is under way but a gap: the wait ends without an answer.
LEMMA GapTimedOut ==
    ASSUME SystemTypeOK, NEW pos, UnderWay(pos, 1), commands = <<>>, NoAnswer, attempt = 1,
           UNCHANGED <<commands, hostTx, deviceRx, replies, attempt>>, hostPc' = "abort"
    PROVE  Aborting'
<1>1. UnderWay(pos, 1)'
  BY UnderWayStays DEF Sending, Starting
<1>2. commands' = <<>> /\ Len(commands') = 0 /\ Shape(commands', 0, 0, 0, 0)
  BY NothingUnderWay
<1>3. NoAnswer' /\ Len(replies') = 0 /\ Nacks(Len(replies))' /\ attempt' = 1
  BY NoAnswerIs DEF NoAnswer, Nacks
<1>4. GivingUp(pos, 1, 0, 0)'
  BY <1>1, <1>2, <1>3 DEF GivingUp
<1>5. 0 \in 0 .. 1 /\ 1 \in 0 .. 1 /\ attempt' \in 1 .. 2
  BY <1>3
<1>6. QED
  BY <1>4, <1>5 DEF Aborting

LEMMA BeginWaited ==
    ASSUME LinkFaults \subseteq {"lose_command", "corrupt_command"}, SystemTypeOK,
           AnswersInTurn, HostStep, WaitBegin
    PROVE  /\ Undisturbed => Undisturbed'
           /\ Disturbed => Disturbed'
<1>1. /\ hostPc = "wait_begin" /\ UNCHANGED <<attempt, commands, hostTx, sent>>
      /\ \/ TakeReply /\ Verdict = "ACK" /\ hostPc' = "data"
         \/ TakeReply /\ Verdict # "ACK" /\ hostPc' = "abort"
         \/ commands = <<>> /\ NoAnswer /\ UNCHANGED replies /\ hostPc' = "abort"
  <2>1. CASE Answered({"ACK"}) /\ hostPc' = "data"
    BY <2>1 DEF WaitBegin, Answered
  <2>2. CASE Refused /\ hostPc' = "abort"
    BY <2>2, WaitOver DEF WaitBegin, Answered, Refused, TimesOut, MayFail, NoAnswer
  <2>3. QED
    BY <2>1, <2>2 DEF WaitBegin
<1>2. /\ UNCHANGED <<deviceRx, transferActive, received, files, faults>>
      /\ \A p : Follows(p) => Follows(p)'
  BY <1>1, HostFrame DEF Connected
<1>3. PICK n \in Nat : n = Len(commands) /\ (commands = <<>> <=> n = 0)
  BY NoAnswerIs
<1>4. PICK m \in Nat : m = Len(replies) /\ (NoAnswer <=> m = 0)
  BY NoAnswerIs
<1>5. TakeReply => /\ m > 0 /\ Len(replies') = m - 1
                   /\ Acks => Verdict = "ACK" /\ Acks'
                   /\ \A k \in Nat : Nacks(k) => Verdict = "NACK"
  BY <1>4, AnswersShrink
<1>6. ASSUME Undisturbed PROVE Undisturbed'
  <2>1. PICK pos : \E old, begin, end, ahead \in 0 .. 1 : OnCourse(pos, old, begin, end, ahead)
    BY <1>6 DEF Undisturbed
  <2>2. PICK old \in 0 .. 1, begin \in 0 .. 1, end \in 0 .. 1, ahead \in 0 .. 1 :
           OnCourse(pos, old, begin, end, ahead)
    BY <2>1
  <2>3. /\ UnderWay(pos, 0) /\ Shape(commands, old, begin, end, 0)
        /\ old <= begin /\ n = old + begin
        /\ Acks /\ m + old + begin + end = ahead + 1
        /\ faults = 0 => attempt = 1 /\ ahead = 0 /\ old = 0
        /\ begin = 1 => ~transferActive
        /\ old + begin = 0 => Follows(pos[1])
    BY <1>1, <1>3, <1>4, <2>2 DEF OnCourse, Waiting
  <2>4. end = 0
    BY <1>3, <2>3, ShapeEnds
  <2>5. TakeReply /\ Verdict = "ACK" /\ hostPc' = "data"
    BY <1>1, <1>3, <1>4, <1>5, <2>3, <2>4
  <2>6. old = 0 /\ Len(replies') + begin = ahead /\ Acks'
    BY <1>5, <2>3, <2>4, <2>5
  <2>7. UnderWay(pos, 0)'
    BY <1>1, <1>2, <2>3, UnderWayStays DEF Sending, Starting
  <2>8. Shape(commands', 0, begin, 0, 0)
    BY <1>1, <2>3, <2>4, <2>6
  <2>9. begin = 0 => Follows(pos[1])'
    BY <1>2, <2>3, <2>6
  <2>10. Len(replies') + 0 + begin + 0 = ahead + 0
    BY <1>4, <1>5, <2>5, <2>6
  <2>11. OnCourse(pos, 0, begin, 0, ahead)'
    BY <1>1, <1>2, <2>3, <2>5, <2>6, <2>7, <2>8, <2>9, <2>10 DEF OnCourse, Waiting
  <2>12. 0 \in 0 .. 1
    OBVIOUS
  <2>13. QED
    BY <2>11, <2>12 DEF Undisturbed
<1>7. ASSUME BeginAstray PROVE Aborting'
  <2>1. PICK pos : UnderWay(pos, 1)
    BY <1>7 DEF BeginAstray
  <2>2. NoAnswer /\ attempt = 1
    BY <1>7 DEF BeginAstray
  <2>3. commands = <<>> /\ UNCHANGED replies /\ hostPc' = "abort"
    BY <1>1, <1>4, <1>5, <2>2
  <2>4. QED
    BY <1>1, <1>2, <2>1, <2>2, <2>3, GapTimedOut
<1>8. ASSUME Refusal PROVE Aborting'
  <2>1. m > 0 /\ (TakeReply => Verdict = "NACK")
    BY <1>4, <1>5, <1>8 DEF Refusal, Nacks
  <2>2. TakeReply /\ hostPc' = "abort"
    BY <1>1, <1>4, <2>1
  <2>3. QED
    BY <1>1, <1>2, <1>8, <2>2, RefusalRead
<1>9. ~LeftOpen
  BY <1>1, <1>3, <1>4, <1>5 DEF LeftOpen
<1>10. Disturbed => BeginAstray \/ Refusal \/ LeftOpen
  BY <1>1 DEF Disturbed, Astray, FallenBehind, Aborting
<1>11. QED
  BY <1>6, <1>7, <1>8, <1>9, <1>10 DEF Disturbed

LEMMA EndWaited ==
    ASSUME LinkFaults \subseteq {"lose_command", "corrupt_command"}, SystemTypeOK,
           AnswersInTurn, HostStep, WaitEnd
    PROVE  /\ Undisturbed => Undisturbed'
           /\ Disturbed => Disturbed'
<1>1. /\ hostPc = "wait_end" /\ UNCHANGED <<attempt, commands, hostTx, sent>>
      /\ \/ TakeReply /\ Verdict = "ACK" /\ hostPc' = "ok"
         \/ TakeReply /\ Verdict # "ACK" /\ hostPc' = "abort"
         \/ commands = <<>> /\ NoAnswer /\ UNCHANGED replies /\ hostPc' = "abort"
  <2>1. CASE Answered({"ACK"}) /\ hostPc' = "ok"
    BY <2>1 DEF WaitEnd, Answered
  <2>2. CASE Refused /\ hostPc' = "abort"
    BY <2>2, WaitOver DEF WaitEnd, Answered, Refused, TimesOut, MayFail, NoAnswer
  <2>3. QED
    BY <2>1, <2>2 DEF WaitEnd
<1>2. /\ UNCHANGED <<deviceRx, transferActive, received, files, faults>>
      /\ \A p : Follows(p) => Follows(p)'
      /\ \A p : Behind(p) => Behind(p)'
      /\ Stored' = Stored
  BY <1>1, HostFrame DEF Connected
<1>3. PICK n \in Nat : n = Len(commands) /\ (commands = <<>> <=> n = 0)
  BY NoAnswerIs
<1>4. PICK m \in Nat : m = Len(replies) /\ (NoAnswer <=> m = 0)
  BY NoAnswerIs
<1>5. TakeReply => /\ m > 0 /\ Len(replies') = m - 1
                   /\ Acks => Verdict = "ACK" /\ Acks'
                   /\ \A k \in Nat : Nacks(k) => Verdict = "NACK" /\ Nacks(k - 1)'
  BY <1>4, AnswersShrink
<1>6. ASSUME Undisturbed PROVE Undisturbed'
  <2>1. PICK pos : \E old, begin, end, ahead \in 0 .. 1 : OnCourse(pos, old, begin, end, ahead)
    BY <1>6 DEF Undisturbed
  <2>2. PICK old \in 0 .. 1, begin \in 0 .. 1, end \in 0 .. 1, ahead \in 0 .. 1 :
           OnCourse(pos, old, begin, end, ahead)
    BY <2>1
  <2>3. /\ UnderWay(pos, 0) /\ Shape(commands, old, begin, end, 0) /\ old = 0
        /\ end = 0 => n = 0 /\ Stored
        /\ Acks /\ m + begin + end = ahead + 1
        /\ faults = 0 => attempt = 1 /\ ahead = 0
        /\ begin = 1 => ~transferActive
        /\ begin = 0 /\ end = 1 => Follows(pos[1])
    BY <1>1, <1>3, <1>4, <2>2 DEF OnCourse, Waiting
  <2>4. begin + end <= n
    BY <1>3, <2>3, ShapeEnds
  <2>5. TakeReply /\ Verdict = "ACK" /\ hostPc' = "ok"
    BY <1>1, <1>3, <1>4, <1>5, <2>3, <2>4
  <2>6. Len(replies') + 0 + begin + end = ahead + 0 /\ Acks'
    BY <1>4, <1>5, <2>3, <2>5
  <2>7. UnderWay(pos, 0)'
    BY <1>1, <1>2, <2>3, <2>5, UnderWayStays DEF Sending, Starting
  <2>8. Shape(commands', 0, begin, end, 0)
    BY <1>1, <2>3
  <2>9. begin = 0 /\ end = 1 => Follows(pos[1])'
    BY <1>2, <2>3
  <2>10. end = 0 => Len(commands') = 0 /\ Stored'
    BY <1>1, <1>2, <1>3, <2>3
  <2>11. OnCourse(pos, 0, begin, end, ahead)'
    BY <1>1, <1>2, <2>3, <2>5, <2>6, <2>7, <2>8, <2>9, <2>10 DEF OnCourse, Waiting
  <2>12. 0 \in 0 .. 1
    OBVIOUS
  <2>13. QED
    BY <2>11, <2>12 DEF Undisturbed
<1>7. ASSUME Astray PROVE Aborting'
  <2>1. PICK pos : \E g \in 1 .. Len(commands) + 1, end \in 0 .. 1 : GoneAstray(pos, g, end)
    BY <1>7 DEF Astray
  <2>2. PICK g \in 1 .. Len(commands) + 1, end \in 0 .. 1 : GoneAstray(pos, g, end)
    BY <2>1
  <2>3. NoAnswer /\ attempt = 1
    BY <1>7 DEF Astray
  <2>4. commands = <<>> /\ UNCHANGED replies /\ hostPc' = "abort"
    BY <1>1, <1>4, <1>5, <2>3
  <2>5. g = 1
    BY <1>3, <2>2, <2>4
  <2>6. UnderWay(pos, 1)
    BY <2>2, <2>5 DEF GoneAstray
  <2>7. QED
    BY <1>1, <1>2, <2>3, <2>4, <2>6, GapTimedOut
<1>8. ASSUME FallenBehind PROVE Aborting'
  <2>1. PICK pos : UnderWay(pos, 0) /\ Behind(pos[1]) /\ Shape(commands, 0, 0, 1, 0)
    BY <1>1, <1>8 DEF FallenBehind
  <2>2. n > 0 /\ attempt = 1 /\ (NoAnswer \/ Nacks(1))
    <3>1. 1 <= Len(commands)
      BY <2>1 DEF Shape
    <3>2. QED
      BY <1>3, <1>8, <3>1 DEF FallenBehind
  <2>3. TakeReply /\ Nacks(1) /\ m = 1
    BY <1>1, <1>3, <1>4, <1>5, <2>2 DEF Nacks
  <2>4. Verdict = "NACK" /\ Len(replies') = 0
    BY <1>5, <2>3
  <2>5. hostPc' = "abort"
    BY <1>1, <1>3, <2>2, <2>4
  <2>6. Nacks(Len(replies))' /\ Len(replies') = 0
    BY <2>4 DEF Nacks
  <2>7. UnderWay(pos, 0)'
    BY <1>1, <1>2, <2>1, <2>5, UnderWayStays DEF Sending, Starting
  <2>8. Behind(pos[1])' /\ Shape(commands', 0, 0, 1, 0)
    BY <1>1, <1>2, <2>1
  <2>9. GivingUp(pos, 0, 1, 0)'
    BY <2>5, <2>6, <2>7, <2>8 DEF GivingUp
  <2>10. 0 \in 0 .. 1 /\ 1 \in 0 .. 1 /\ attempt' \in 1 .. 2
    BY <1>1, <2>2
  <2>11. QED
    BY <2>5, <2>9, <2>10 DEF Aborting
<1>9. ASSUME Refusal PROVE Aborting'
  <2>1. m > 0 /\ (TakeReply => Verdict = "NACK")
    BY <1>4, <1>5, <1>9 DEF Refusal, Nacks
  <2>2. TakeReply /\ hostPc' = "abort"
    BY <1>1, <1>4, <2>1
  <2>3. QED
    BY <1>1, <1>2, <1>9, <2>2, RefusalRead
<1>10. Disturbed => Astray \/ FallenBehind \/ Refusal
  BY <1>1 DEF Disturbed, BeginAstray, Aborting, LeftOpen
<1>11. QED
  BY <1>6, <1>7, <1>8, <1>9, <1>10 DEF Disturbed

\* The host has waited for what becomes of its ABORT, and begins again.
LEMMA AbortWaited ==
    ASSUME LinkFaults \subseteq {"lose_command", "corrupt_command"}, Attempts >= 3, SystemTypeOK,
           AnswersInTurn, HostStep, WaitAbort, faults # 0
    PROVE  ~Undisturbed /\ (Disturbed => Undisturbed' \/ LeftOpen')
<1>1. /\ hostPc = "wait_abort" /\ UNCHANGED <<commands, hostTx, sent>>
      /\ attempt # Attempts => hostPc' = "begin" /\ attempt' = attempt + 1
      /\ TakeReply \/ (commands = <<>> /\ NoAnswer)
  BY WaitOver DEF WaitAbort
<1>2. UNCHANGED <<deviceRx, transferActive, received, files, faults>>
  BY <1>1, HostFrame DEF Connected
<1>3. PICK n \in Nat : n = Len(commands) /\ (commands = <<>> <=> n = 0)
  BY NoAnswerIs
<1>4. PICK m \in Nat : m = Len(replies) /\ (NoAnswer <=> m = 0)
  BY NoAnswerIs
<1>5. ~Undisturbed
  BY <1>1 DEF Undisturbed, OnCourse
<1>6. Disturbed => Aborting
  BY <1>1 DEF Disturbed, BeginAstray, Astray, FallenBehind, Refusal, LeftOpen
<1>7. ASSUME Aborting PROVE Undisturbed' \/ LeftOpen'
  <2>1. PICK pos : \E g, end, abort \in 0 .. 1 : GivingUp(pos, g, end, abort)
    BY <1>7 DEF Aborting
  <2>2. PICK g \in 0 .. 1, end \in 0 .. 1, abort \in 0 .. 1 : GivingUp(pos, g, end, abort)
    BY <2>1
  <2>3. attempt \in 1 .. 2 /\ hostPc' = "begin" /\ attempt' = attempt + 1
    BY <1>1, <1>7, LinkAssumption DEF Aborting
  <2>4. UnderWay(pos, g) /\ Shape(commands, 0, 0, end, abort)
    BY <2>2 DEF GivingUp
  <2>5. UnderWay(pos, g)'
    BY <1>1, <1>2, <2>3, <2>4, UnderWayStays DEF Sending, Starting
  <2>6. end + abort <= n
    BY <1>3, <2>4 DEF Shape
  <2>7. CASE abort = 1
    <3>1. /\ Nacks(m) /\ m + end <= 1 /\ (m = 1 => ~transferActive)
          /\ g = 1 => NoAnswer
          /\ n > 1 => transferActive
      BY <1>3, <1>4, <2>2, <2>7 DEF GivingUp, Behind
    <3>2. n > 0 /\ TakeReply
      BY <1>1, <1>3, <2>6, <2>7
    <3>3. m = 1 /\ Len(replies') = 0
      BY <1>4, <3>1, <3>2, AnswersShrink
    <3>4. end = 0 /\ g = 0 /\ ~transferActive /\ n = 1
      BY <1>4, <3>1, <3>2, <3>3
    <3>5. Shape(commands', 1, 0, 0, 0)
      <4>1. Shape(commands, 0, 0, 0, 1) /\ Len(commands) = 1
        BY <1>3, <2>4, <2>7, <3>4
      <4>2. \A i \in 1 .. 1 : commands[i].cmd = "PUT_FILE_ABORT" /\ i = 1
        BY <4>1 DEF Shape, Kind
      <4>3. QED
        BY <1>1, <4>1, <4>2 DEF Shape, Kind
    <3>6. OnCourse(pos, 1, 0, 0, 1)'
      BY <1>1, <1>2, <1>3, <2>3, <2>5, <3>3, <3>4, <3>5 DEF OnCourse, Acks, Waiting
    <3>7. 0 \in 0 .. 1 /\ 1 \in 0 .. 1
      OBVIOUS
    <3>8. QED
      BY <3>6, <3>7 DEF Undisturbed
  <2>8. CASE abort = 0
    <3>1. /\ commands = <<>> /\ g = 0
          /\ \/ m = 2 /\ ~transferActive /\ replies[1].kind = "NACK" /\ replies[2].kind = "ACK"
             \/ m = 1 /\ Acks /\ ~transferActive
             \/ Nacks(1) /\ (transferActive => attempt = 1)
      BY <1>1, <1>4, <2>2, <2>8 DEF GivingUp
    <3>2. m > 0 /\ TakeReply
      BY <1>1, <1>4, <3>1 DEF Nacks
    <3>3. /\ Len(replies') = m - 1
          /\ \A i \in 1 .. Len(replies') : replies'[i] = replies[i + 1]
      BY <1>4, <3>2, ReplyTaken, AnswersShrink
    <3>4. commands' = <<>> /\ Len(commands') = 0 /\ Shape(commands', 0, 0, 0, 0)
      BY <1>1, <3>1, NothingUnderWay
    <3>5. ASSUME ~transferActive PROVE Undisturbed'
      <4>1. PICK ahead \in 0 .. 1 : Len(replies') = ahead /\ Acks'
        <5>1. CASE m = 1
          <6>1. Len(replies') = 0
            BY <3>3, <5>1
          <6>2. QED
            BY <6>1 DEF Acks
        <5>2. CASE m = 2 /\ replies[2].kind = "ACK"
          <6>1. Len(replies') = 1 /\ \A i \in 1 .. 1 : replies'[i] = replies[i + 1] /\ i = 1
            BY <3>3, <5>2
          <6>2. \A i \in 1 .. Len(replies') : replies'[i].kind = "ACK"
            BY <5>2, <6>1
          <6>3. QED
            BY <6>1, <6>2 DEF Acks
        <5>3. QED
          BY <1>4, <3>1, <5>1, <5>2 DEF Nacks
      <4>2. OnCourse(pos, 0, 0, 0, ahead)'
        BY <1>2, <2>3, <2>5, <3>1, <3>4, <3>5, <4>1 DEF OnCourse, Waiting
      <4>3. 0 \in 0 .. 1
        OBVIOUS
      <4>4. QED
        BY <4>2, <4>3 DEF Undisturbed
    <3>6. ASSUME transferActive PROVE LeftOpen'
      <4>1. attempt = 1 /\ m = 1
        BY <1>4, <3>1, <3>6 DEF Nacks
      <4>2. Len(replies') = 0
        BY <3>3, <4>1
      <4>3. NoAnswer'
        BY <4>2, <3>2, HeadReply, EmptySeq DEF NoAnswer, SystemTypeOK, TakeReply
      <4>4. attempt' = 2
        BY <2>3, <4>1
      <4>5. QED
        BY <1>2, <2>3, <2>5, <3>1, <3>4, <3>6, <4>3, <4>4 DEF LeftOpen
    <3>7. QED
      BY <3>5, <3>6
  <2>9. QED
    BY <2>7, <2>8
<1>8. QED
  BY <1>5, <1>6, <1>7

\* An upload begins.
LEMMA HelloWaited ==
    ASSUME SystemTypeOK, Handshake', attempt' = 1, hostPc' = "begin", faults' \in Nat
    PROVE  Undisturbed'
<1> DEFINE pos == [i \in 1 .. 1 |-> 0]
<1>1. /\ commands' = <<>> /\ replies' = <<>> /\ ~transferActive'
      /\ deviceRx' = NextSeq(0) /\ hostTx' = NextSeq(0)
  BY DEF Handshake, Greeted
<1>2. Len(commands') = 0 /\ Len(replies') = 0 /\ Acks'
  BY <1>1 DEF Acks
<1>3. Shape(commands', 0, 0, 0, 0)
  BY <1>1, NothingUnderWay DEF Shape
<1>4. pos \in [1 .. Len(commands') + 1 -> 0 .. Len(Source)]
  <2>1. 0 \in 0 .. Len(Source)
    BY SourceAssumption, LenProperties
  <2>2. QED
    BY <1>2, <2>1
<1>5. Chain(commands', hostTx', pos, 0)
  BY <1>2, <1>4 DEF Chain
<1>6. SeqsAt(commands', hostTx', 1) = {deviceRx'} /\ pos[Len(commands') + 1] = 0
  BY <1>1, <1>2 DEF SeqsAt, SeqAt
<1> HIDE DEF pos
<1>7. UnderWay(pos, 0)'
  BY <1>5, <1>6 DEF UnderWay, Sending
<1>8. OnCourse(pos, 0, 0, 0, 0)'
  BY <1>1, <1>2, <1>3, <1>7 DEF OnCourse, Waiting
<1>9. 0 \in 0 .. 1
  OBVIOUS
<1>10. QED
  BY <1>8, <1>9 DEF Undisturbed

-----------------------------------------------------------------------------
(***************************************************************************)
(* No fault, or one.                                                       *)
(***************************************************************************)
Course ==
    /\ InTurn
    /\ Connected /\ faults = 0 => Undisturbed
    /\ Connected /\ faults = 1 => Undisturbed \/ Disturbed

LEMMA NothingHappens ==
    ASSUME UNCHANGED systemVars, Course, InTurn'
    PROVE  Course'
<1>1. UNCHANGED <<commands, replies, deviceRx, deviceTx, hostPc, hostTx, hostRx, attempt, sent,
                  faults, transferActive, received, files>>
  BY DEF systemVars, vars, cardVars, sessionVars, historyVars, lineVars, deviceSeqVars, hostVars, boundVars
<1>2. /\ Connected' = Connected /\ Waiting' = Waiting
      /\ \A pos, g : UnderWay(pos, g)' = UnderWay(pos, g)
      /\ \A p : Follows(p)' = Follows(p) /\ Behind(p)' = Behind(p)
      /\ Stored' = Stored /\ NoAnswer' = NoAnswer /\ Acks' = Acks
      /\ \A n : Nacks(n)' = Nacks(n)
  BY <1>1
     DEF Connected, Waiting, Sending, Starting, UnderWay, Follows, Behind, Stored, NoAnswer, Acks,
         Nacks
<1>3. Undisturbed => Undisturbed'
  <2>1. ASSUME NEW pos, NEW old \in 0 .. 1, NEW begin \in 0 .. 1, NEW end \in 0 .. 1,
               NEW ahead \in 0 .. 1, OnCourse(pos, old, begin, end, ahead)
        PROVE  OnCourse(pos, old, begin, end, ahead)'
    BY <1>1, <1>2, <2>1 DEF OnCourse
  <2>2. QED
    BY <2>1 DEF Undisturbed
<1>4. Astray => Astray'
  BY <1>1, <1>2 DEF Astray, GoneAstray
<1>5. Aborting => Aborting'
  <2>1. ASSUME NEW pos, NEW g \in 0 .. 1, NEW end \in 0 .. 1, NEW abort \in 0 .. 1,
               GivingUp(pos, g, end, abort)
        PROVE  GivingUp(pos, g, end, abort)'
    BY <1>1, <1>2, <2>1 DEF GivingUp
  <2>2. QED
    BY <1>1, <2>1 DEF Aborting
<1>6. BeginAstray \/ FallenBehind \/ Refusal \/ LeftOpen =>
          BeginAstray' \/ FallenBehind' \/ Refusal' \/ LeftOpen'
  BY <1>1, <1>2 DEF BeginAstray, FallenBehind, Refusal, LeftOpen
<1>7. QED
  BY <1>1, <1>2, <1>3, <1>4, <1>5, <1>6 DEF Course, Disturbed

LEMMA HostKeepsCourse ==
    ASSUME LinkFaults \subseteq {"lose_command", "corrupt_command"}, Attempts >= 3,
           SystemTInv, Handshake', faults' \in Nat, HostStep, Course, Connected'
    PROVE  /\ faults' = 0 => Undisturbed'
           /\ faults' = 1 => Undisturbed' \/ Disturbed'
<1>1. SystemTypeOK
  BY DEF SystemTInv
<1>2. CASE Connected
  <2>1. UNCHANGED faults
    BY <1>1, <1>2, HostFrame
  <2>2. AnswersInTurn /\ (faults = 0 => Undisturbed) /\ (faults = 1 => Undisturbed \/ Disturbed)
    BY <1>2 DEF Course, InTurn
  <2>3. CASE SendBegin
    BY <1>1, <2>1, <2>2, <2>3, BeginSent
  <2>4. CASE WaitBegin
    BY <1>1, <2>1, <2>2, <2>4, BeginWaited
  <2>5. CASE SendData
    BY <1>1, <2>1, <2>2, <2>5, DataSent
  <2>6. CASE SendEnd
    BY <1>1, <2>1, <2>2, <2>6, EndSent
  <2>7. CASE WaitEnd
    BY <1>1, <2>1, <2>2, <2>7, EndWaited
  <2>8. CASE SendAbort
    BY <1>1, <2>1, <2>2, <2>8, AbortSent DEF Disturbed
  <2>9. CASE WaitAbort
    <3>1. ~Undisturbed
      BY <2>9 DEF WaitAbort, Undisturbed, OnCourse
    <3>2. faults # 0
      BY <2>2, <3>1
    <3>3. Disturbed => Undisturbed' \/ LeftOpen'
      BY <1>1, <2>2, <2>9, <3>2, AbortWaited
    <3>4. QED
      BY <2>1, <2>2, <3>1, <3>2, <3>3 DEF Disturbed
  <2>10. QED
    BY <1>2, <2>3, <2>4, <2>5, <2>6, <2>7, <2>8, <2>9
       DEF HostStep, SendHello, WaitHello, Connected
<1>3. CASE ~Connected
  <2>1. hostPc' = "begin" /\ attempt' = 1
    BY <1>3 DEF HostStep, SendHello, WaitHello, SendBegin, WaitBegin, SendData, SendEnd, WaitEnd,
                SendAbort, WaitAbort, Connected, Course, InTurn
  <2>2. QED
    BY <1>1, <2>1, HelloWaited
<1>4. QED
  BY <1>2, <1>3

LEMMA DeviceKeepsCourse ==
    ASSUME "write" \notin Faults, "app_mount" \notin Faults, SystemTInv, DeviceStep, Course,
           Connected', faults \in Nat, faults' \in Nat
    PROVE  /\ faults' = 0 => Undisturbed'
           /\ faults' = 1 => Undisturbed' \/ Disturbed'
<1>1. UNCHANGED hostPc /\ (faults' = faults \/ faults' = faults + 1)
  BY DEF DeviceStep, Dispatches, Rejects, hostVars
<1>2. Connected /\ OneUpload /\ AnswersInTurn
  BY <1>1 DEF Connected, Course, InTurn
<1>3. /\ faults = 0 => Undisturbed
      /\ faults = 1 => Undisturbed \/ Disturbed
  BY <1>2 DEF Course
<1>4. ASSUME faults' <= 1, Undisturbed PROVE Undisturbed' \/ (Refusal' /\ faults' # faults)
  BY <1>2, <1>4, DeviceOnCourse
<1>5. ~Refusal
  BY DEF DeviceStep, Refusal
<1>6. Disturbed => Disturbed'
  BY <1>2, <1>5, DeviceBeginAstray, DeviceAstray, DeviceFallenBehind, DeviceAborting,
     DeviceLeftOpen DEF Disturbed
<1>7. QED
  BY <1>1, <1>3, <1>4, <1>6 DEF Disturbed

LEMMA CourseKept ==
    ASSUME LinkFaults \subseteq {"lose_command", "corrupt_command"}, Attempts >= 3,
           Faults \cap {"write", "power", "power_in_command", "app_mount"} = {},
           SystemTInv, Handshake, Course, [SystemNext]_systemVars
    PROVE  Course'
<1>1. "late" \notin LinkFaults /\ Handshake' /\ SystemTInv' /\ InTurn'
  BY HandshakeKept, SystemTInvKept, InTurnKept DEF Course
<1>2. faults \in Nat /\ faults' \in Nat
  BY <1>1, LinkAssumption DEF SystemTInv, SystemTypeOK
<1>3. SUFFICES ASSUME Connected'
               PROVE  /\ faults' = 0 => Undisturbed'
                      /\ faults' = 1 => Undisturbed' \/ Disturbed'
  BY <1>1 DEF Course
<1>4. CASE HostStep
  BY <1>1, <1>2, <1>3, <1>4, HostKeepsCourse
<1>5. CASE DeviceStep
  BY <1>2, <1>3, <1>5, DeviceKeepsCourse
<1>6. CASE LineFault
  <2>1. UNCHANGED hostPc /\ faults' = faults + 1
    BY <1>6 DEF LineFault, hostVars
  <2>2. faults = 0 => Undisturbed
    BY <1>3, <2>1 DEF Connected, Course
  <2>3. faults' <= 1 => BeginAstray' \/ Astray'
    BY <1>6, <2>2, LineDisturbs
  <2>4. QED
    BY <1>2, <2>1, <2>3 DEF Disturbed
<1>7. ~CardMounted /\ ~DeviceRestart /\ ~HostRestart
  BY <1>3 DEF CardMounted, MountSd, DeviceRestart, PowerLoss, HostRestart, Handshake, Connected,
              hostVars
<1>8. CASE UNCHANGED systemVars
  BY <1>1, <1>3, <1>8, NothingHappens DEF Course
<1>9. QED
  BY <1>4, <1>5, <1>6, <1>7, <1>8 DEF SystemNext, Finished

LEMMA CourseHolds ==
    ASSUME LinkFaults \subseteq {"lose_command", "corrupt_command"}, Attempts >= 3,
           Faults \cap {"write", "power", "power_in_command", "app_mount"} = {}
    PROVE  SystemSpec => [](SystemTInv /\ Handshake /\ Course)
<1>1. SystemInit => Handshake /\ Course
  BY DEF SystemInit, Init, Handshake, NoPartialDirectory, Course, InTurn, Connected
<1>2. SystemTInv /\ Handshake /\ Course /\ [SystemNext]_systemVars => Handshake' /\ Course'
  BY HandshakeKept, CourseKept
<1>3. QED
  BY <1>1, <1>2, SystemTypes, PTL DEF SystemSpec

\* upload_file never fails after one fault alone, of a command on the line or
\* of the card, wherever in the upload it comes: an attempt that is disturbed
\* once leaves at most one answer ahead of the host and at most one upload open
\* on the device, and the second or the third attempt finds neither.  Neither
\* answers are lost or late nor the device its power, a fault of the card
\* refuses a command whole, and upload_file has the three attempts it has in
\* the source, or more.
THEOREM OneFaultRecovered ==
    ASSUME LinkFaults \subseteq {"lose_command", "corrupt_command"}, Attempts >= 3,
           Faults \cap {"write", "power", "power_in_command", "app_mount"} = {}
    PROVE  SystemSpec => []RecoversFromOneFault
<1>1. ASSUME SystemTInv, Course PROVE RecoversFromOneFault
  <2>1. faults \in Nat
    BY <1>1, LinkAssumption DEF SystemTInv, SystemTypeOK
  <2>2. hostPc = "failed" => ~Undisturbed /\ ~Disturbed
    BY DEF Undisturbed, OnCourse, Disturbed, BeginAstray, Astray, FallenBehind, Refusal, Aborting,
           LeftOpen
  <2>3. QED
    BY <1>1, <2>1, <2>2 DEF Course, Connected, RecoversFromOneFault
<1>2. QED
  BY <1>1, CourseHolds, PTL

\* An upload that upload_file reports as done is the whole file in its place,
\* once the frames under way have arrived, as long as at most one command was
\* lost, damaged or refused by the card, whichever it was, and however many hosts
\* died before.
THEOREM ReportedIsStored ==
    ASSUME LinkFaults \subseteq {"lose_command", "corrupt_command"}, Attempts >= 3,
           Faults \cap {"write", "power", "power_in_command", "app_mount"} = {}
    PROVE  SystemSpec => [](faults <= 1 => ReportedUploadIsStored)
<1>1. ASSUME SystemTInv, Course, faults <= 1 PROVE ReportedUploadIsStored
  <2>1. SystemTypeOK /\ faults \in 0 .. 1
    BY <1>1, LinkAssumption DEF SystemTInv, SystemTypeOK
  <2>2. SUFFICES ASSUME hostPc = "ok", commands = <<>>
                 PROVE  Stored
    BY DEF ReportedUploadIsStored, Stored
  <2>3. ~Disturbed
    BY <2>2 DEF Disturbed, BeginAstray, Astray, FallenBehind, Refusal, Aborting, LeftOpen
  <2>4. Undisturbed
    BY <1>1, <2>1, <2>2, <2>3 DEF Course, Connected
  <2>5. PICK pos : \E old, begin, end, ahead \in 0 .. 1 : OnCourse(pos, old, begin, end, ahead)
    BY <2>4 DEF Undisturbed
  <2>6. PICK old \in 0 .. 1, begin \in 0 .. 1, end \in 0 .. 1, ahead \in 0 .. 1 :
           OnCourse(pos, old, begin, end, ahead)
    BY <2>5
  <2>7. Shape(commands, old, begin, end, 0) /\ (end = 0 => Stored)
    BY <2>2, <2>6 DEF OnCourse
  <2>8. old + begin + end <= 0
    BY <2>1, <2>2, <2>7, ShapeEnds, NothingUnderWay
  <2>9. QED
    BY <2>7, <2>8
<1>2. QED
  BY <1>1, CourseHolds, PTL
-----------------------------------------------------------------------------
(***************************************************************************)
(* The target never holds a mixture.  While no command is lost or damaged, *)
(* what the device has of an upload is what the frames under way follow.   *)
(* After the one that is, they follow it again, or a size that differs     *)
(* betrays the hole.  A host that dies and its HELLO are frames as others. *)
(***************************************************************************)
\* The target's previous or the whole file is at stake only in an upload to it.
OnlyTarget ==
    ~benchmarkMode /\ (transferActive => transferPath = Target /\ transferTotal = Len(Source))

\* What the device has is the file up to p, if it is as long; is the file up to
\* some place.
Sound(p) == transferActive /\ Len(received) = p => received = SubSeq(Source, 1, p)
Begun == transferActive => \E p \in 0 .. Len(Source) : Follows(p)

InStep(pos) == UnderWay(pos, 0) /\ (transferActive => Follows(pos[1]))

\* The g-th frame is the one that comes out of place; once it has been
\* answered, g is 0.
OutOfStep(pos, g) ==
    /\ UnderWay(pos, g)
    /\ g = 0 => Sound(pos[1])
    /\ g = 1 => Begun
    /\ g > 1 => (transferActive => Follows(pos[1]))

NoCommandFaults == LinkFaults \cap {"lose_command", "corrupt_command"} = {}

InOrder ==
    /\ OnlyTarget
    /\ faults <= 1 \/ NoCommandFaults => TargetOldOrWhole
    /\ faults = 0 \/ NoCommandFaults => \E pos : InStep(pos)
    /\ faults = 1 => \E pos, g : OutOfStep(pos, g)

LEMMA FollowsIsSound ==
    ASSUME NEW p \in 0 .. Len(Source), transferActive => Follows(p)
    PROVE  Begun /\ \A q \in 0 .. Len(Source) : Sound(q)
BY DEF Begun, Follows, Sound

LEMMA BegunIsSound ==
    ASSUME Begun
    PROVE  \A q \in 0 .. Len(Source) : Sound(q)
BY DEF Begun, Follows, Sound

(***************************************************************************)
(* What a command makes of the session and of the target.                  *)
(***************************************************************************)
LEMMA HelloEnds ==
    ASSUME IInv, Hello
    PROVE  ~transferActive' /\ (~benchmarkMode => ~benchmarkMode')
BY DEF Hello, AbortDangling, AbortActiveTransfer, sessionVars

LEMMA BeginStarts ==
    ASSUME IInv, OnlyTarget, PutFileBegin(Target, Len(Source))
    PROVE  /\ OnlyTarget'
           /\ transferActive => UNCHANGED <<transferActive, received>>
           /\ ~transferActive /\ transferActive' => received' = <<>>
<1>1. CASE transferActive /\ Refuse("ERR_TRANSFER_ACTIVE")
  BY <1>1 DEF OnlyTarget, Refuse, sessionVars
<1>2. CASE BeginTooLong(Target, Len(Source)) \/ BeginBenchmark(Target, Len(Source))
  BY <1>2, TargetPath DEF BeginTooLong, BeginBenchmark
<1>3. CASE BeginRefused(Target, Len(Source))
  BY <1>3 DEF BeginRefused, Idle, OnlyTarget
<1>4. CASE BeginAccepted(Target, Len(Source))
  BY <1>4 DEF BeginAccepted, Idle, OnlyTarget
<1>5. QED
  BY <1>1, <1>2, <1>3, <1>4 DEF PutFileBegin

LEMMA DataExtends ==
    ASSUME IInv, OnlyTarget, NEW payload \in Payloads, PutFileData(payload)
    PROVE  /\ OnlyTarget'
           /\ transferActive' => transferActive /\ received' = received \o payload
<1>1. transferActive => transferFile
  BY DEF OnlyTarget, IInv, SessionConsistent
<1>2. CASE (~transferActive \/ (~benchmarkMode /\ ~transferFile)) /\ Refuse("ERR_NO_TRANSFER")
  BY <1>1, <1>2 DEF OnlyTarget, Refuse, sessionVars
<1>3. ASSUME NEW fs, AbortActiveTransfer(fs) PROVE OnlyTarget' /\ ~transferActive'
  BY <1>3 DEF OnlyTarget, AbortActiveTransfer
<1>4. CASE /\ transferActive /\ received' = received \o payload
           /\ UNCHANGED <<transferActive, transferTotal, transferPath, benchmarkMode>>
  BY <1>4 DEF OnlyTarget
<1>5. QED
  BY <1>2, <1>3, <1>4 DEF PutFileData

LEMMA EndEnds ==
    ASSUME IInv, OnlyTarget, PutFileEnd
    PROVE  OnlyTarget' /\ ~transferActive'
<1>1. ASSUME NEW fs, AbortActiveTransfer(fs) PROVE OnlyTarget' /\ ~transferActive'
  BY <1>1 DEF OnlyTarget, AbortActiveTransfer
<1>2. CASE ~transferActive /\ Refuse("ERR_NO_TRANSFER")
  BY <1>2 DEF OnlyTarget, Refuse, sessionVars
<1>3. CASE EndSession
  BY <1>3 DEF OnlyTarget, EndSession
<1>4. QED
  BY <1>1, <1>2, <1>3
     DEF PutFileEnd, EndFails, CommitBenchmark, CloseFails, TargetStays, RenameFails, CommitUpload

LEMMA AbortEnds ==
    ASSUME IInv, OnlyTarget, PutFileAbort
    PROVE  OnlyTarget' /\ ~transferActive'
BY DEF PutFileAbort, AbortActiveTransfer, OnlyTarget

\* A chunk in its place makes what is the file up to p the file up to its end,
\* and leaves one of another size of another size.
LEMMA ChunkFits ==
    ASSUME IInv, NEW f \in CommandFrames, f.cmd = "PUT_FILE_DATA", NEW p \in 0 .. Len(Source),
           Fits(f, p)
    PROVE  /\ received = SubSeq(Source, 1, p) =>
                 received \o f.payload = SubSeq(Source, 1, ReadEnd(p))
           /\ Len(received) # p => Len(received \o f.payload) # ReadEnd(p)
           /\ ReadEnd(p) \in 0 .. Len(Source)
<1>1. PICK payload \in Payloads : payload = f.payload
  BY DEF CommandFrames
<1>2. p < Len(Source) /\ payload = SubSeq(Source, p + 1, ReadEnd(p))
  BY <1>1 DEF Fits
<1>3. PICK q \in 0 .. Len(Source) : q = ReadEnd(p)
  BY AfterTyped
<1>4. /\ Len(payload) = q - p
      /\ SubSeq(Source, 1, p) \o payload = SubSeq(Source, 1, q)
  BY <1>2, <1>3, Chunk
<1>5. /\ Len(received) \in Nat /\ received \in Seq(Bytes) /\ payload \in Seq(Bytes)
      /\ Len(Source) \in Nat
  BY LenProperties, SourceTyped DEF IInv, TypeOK, Data
<1>6. Len(received \o payload) = Len(received) + Len(payload)
  BY <1>5, ConcatProperties
<1>7. Len(received) # p => Len(received \o payload) # q
  BY <1>4, <1>5, <1>6
<1>8. QED
  BY <1>1, <1>3, <1>4, <1>7

LEMMA CommandTaken ==
    ASSUME IInv, OnlyTarget, NEW f \in CommandFrames, Dispatch(f), NEW p \in 0 .. Len(Source),
           Fits(f, p)
    PROVE  /\ OnlyTarget'
           /\ (transferActive => Follows(p)) => (transferActive' => Follows(After(f, p))')
           /\ Sound(p) => Sound(After(f, p))'
<1> DEFINE Goal == /\ OnlyTarget'
                   /\ (transferActive => Follows(p)) => (transferActive' => Follows(After(f, p))')
                   /\ Sound(p) => Sound(After(f, p))'
<1>1. OnlyTarget' /\ ~transferActive' => Goal
  BY DEF Sound
<1>2. CASE f.cmd = "HELLO"
  BY <1>1, <1>2, HelloEnds DEF Dispatch, OnlyTarget
<1>3. CASE f.cmd = "PUT_FILE_END"
  BY <1>1, <1>3, EndEnds DEF Dispatch
<1>4. CASE f.cmd = "PUT_FILE_ABORT"
  BY <1>1, <1>4, AbortEnds DEF Dispatch
<1>5. CASE f.cmd = "PUT_FILE_BEGIN"
  <2>1. PutFileBegin(Target, Len(Source)) /\ p = 0 /\ After(f, p) = 0
    BY <1>5 DEF Dispatch, Fits, After
  <2>2. SubSeq(Source, 1, 0) = <<>> /\ Len(<<>>) = 0
    BY SubSeqEmpty
  <2>3. CASE transferActive
    BY <2>1, <2>3, BeginStarts DEF Follows, Sound
  <2>4. CASE ~transferActive
    BY <2>1, <2>2, <2>4, BeginStarts DEF Follows, Sound
  <2>5. QED
    BY <2>3, <2>4
<1>6. CASE f.cmd = "PUT_FILE_DATA"
  <2>1. PICK q \in 0 .. Len(Source) : q = ReadEnd(p)
    BY AfterTyped
  <2>2. After(f, p) = q
    BY <1>6, <2>1 DEF After
  <2>3. PutFileData(f.payload) /\ f.payload \in Payloads
    BY <1>6 DEF Dispatch, CommandFrames
  <2>4. /\ OnlyTarget'
        /\ transferActive' => transferActive /\ received' = received \o f.payload
    BY <2>3, DataExtends
  <2>5. /\ received = SubSeq(Source, 1, p) => received \o f.payload = SubSeq(Source, 1, q)
        /\ Len(received) # p => Len(received \o f.payload) # q
    BY <1>6, <2>1, ChunkFits
  <2>6. Len(SubSeq(Source, 1, q)) = q
    BY PrefixLength
  <2>7. QED
    BY <2>2, <2>4, <2>5, <2>6 DEF Follows, Sound
<1>7. QED
  BY <1>2, <1>3, <1>4, <1>5, <1>6 DEF Dispatch

-----------------------------------------------------------------------------
(***************************************************************************)
(* What a step makes of the target.                                        *)
(***************************************************************************)
LEMMA TargetTaken ==
    ASSUME IInv, OnlyTarget, NEW f \in CommandFrames, Dispatch(f)
    PROVE  \/ files'[Target] \in {files[Target], Absent}
           \/ /\ f.cmd = "PUT_FILE_END" /\ transferActive
              /\ files'[Target] = received /\ Len(received) = Len(Source)
<1>1. files \in [Names -> Entry] /\ Target \in UserNames /\ Target \in Names
      /\ Target # transferTempPath
  BY TargetPath, TempIsNoUser DEF IInv, TypeOK
<1>2. CASE Hello
  BY <1>1, <1>2, AbortSpares DEF Hello, AbortDangling, cardVars
<1>3. CASE f.cmd # "HELLO"
  <2>1. Upload
    BY <1>3, TargetPath, SourceTyped DEF Dispatch, Upload, CommandFrames
  <2>2. Uploads(Target)
    BY <1>1, <2>1, UploadSurfacesWhole
  <2>3. handled' = "PUT_FILE_END" => f.cmd = "PUT_FILE_END"
    BY <1>3 DEF Dispatch, PutFileBegin, PutFileData, PutFileEnd, PutFileAbort, Handles
  <2>4. transferFile => transferActive
    BY DEF IInv, SessionConsistent
  <2>5. QED
    BY <2>2, <2>3, <2>4 DEF Uploads, WholeUpload, OnlyTarget
<1>4. QED
  BY <1>2, <1>3 DEF Dispatch

\* A restart and a mount show nothing new at the target, unless the power goes
\* inside a command.
LEMMA TargetSpared ==
    ASSUME "power_in_command" \notin Faults, IInv, PowerLoss \/ MountSd
    PROVE  files'[Target] = files[Target]
<1>1. files \in [Names -> Entry] /\ Target \in UserNames /\ Target \in Names
      /\ Target # transferTempPath
  BY TargetPath, TempIsNoUser DEF IInv, TypeOK
<1>2. CASE PowerLoss
  <2>1. PICK fs \in Unsynced : files' = fs
    BY <1>2 DEF PowerLoss, Restart
  <2>2. QED
    BY <1>1, <2>1, UnsyncedSpares
<1>3. CASE MountSd
  BY <1>1, <1>3, CleanedSpares DEF MountSd
<1>4. QED
  BY <1>2, <1>3

\* The size check of PUT_FILE_END lets only the whole file through.
LEMMA SoundIsWhole ==
    ASSUME Sound(Len(Source)), transferActive, Len(received) = Len(Source)
    PROVE  received = Source
BY SourceAssumption, SubSeqFull DEF Sound

-----------------------------------------------------------------------------
(***************************************************************************)
(* What a step makes of the frames.                                        *)
(***************************************************************************)
LEMMA FirstPlace ==
    ASSUME SystemTypeOK, NEW pos, NEW g, UnderWay(pos, g)
    PROVE  /\ pos[1] \in 0 .. Len(Source) /\ Len(commands) \in Nat
           /\ pos \in [1 .. Len(commands) + 1 -> 0 .. Len(Source)]
           /\ g \in 0 .. Len(commands) + 1
<1>1. Len(commands) \in Nat
  BY LenProperties DEF SystemTypeOK
<1>2. 1 \in 1 .. Len(commands) + 1
  BY <1>1
<1>3. QED
  BY <1>1, <1>2 DEF UnderWay, Chain

InStepIsWeaker == \A pos : InStep(pos) => OutOfStep(pos, 0)

LEMMA InStepIsOutOfStep == SystemTypeOK => InStepIsWeaker
BY FirstPlace, FollowsIsSound DEF InStep, OutOfStep, InStepIsWeaker

\* What the device has of an upload, and the line of the frames, stay as they are.
Unread == UNCHANGED <<benchmarkMode, transferActive, transferPath, transferTotal, received, files>>

LEMMA HostSends ==
    ASSUME SystemTypeOK, HostStep \/ HostRestart, NEW pos, NEW g, UnderWay(pos, g)
    PROVE  Unread /\ \E pos2 : UnderWay(pos2, g)' /\ pos2[1] = pos[1]
<1>1. Unread
  BY DEF HostStep, HostRestart, SendHello, WaitHello, SendBegin, WaitBegin, SendData, SendEnd,
         WaitEnd, SendAbort, WaitAbort, vars, cardVars, sessionVars, historyVars, Unread
<1>2. 1 \in 1 .. Len(commands) + 1
  BY FirstPlace
<1>3. ASSUME Longer(pos, g) PROVE \E pos2 : UnderWay(pos2, g)' /\ pos2[1] = pos[1]
  BY <1>2, <1>3 DEF Longer
<1>4. CASE SendHello
  <2> DEFINE f == Frame("HELLO", 0, <<>>)
  <2>1. f \in CommandFrames /\ f.cmd = "HELLO" /\ f.seq = 0 /\ f.good
    BY SeqWraps DEF Frame, CommandFrames
  <2>2. \A p : Fits(f, p) /\ After(f, p) = 0
    BY <2>1 DEF Fits, After
  <2>3. commands' = Append(commands, f) /\ hostTx' = NextSeq(0) /\ deviceRx' = deviceRx
        /\ ~Sending'
    BY <1>4 DEF SendHello, Sending, deviceSeqVars
  <2> HIDE DEF f
  <2>4. Longer(pos, g)
    BY <2>1, <2>2, <2>3, UnderWayGrows
  <2>5. QED
    BY <1>1, <1>3, <2>4
<1>5. CASE SendBegin \/ SendData \/ SendEnd \/ SendAbort
  BY <1>1, <1>3, <1>5, BeginGrows, DataGrows, EndGrows, AbortGrows
<1>6. CASE WaitHello \/ WaitBegin \/ WaitEnd \/ WaitAbort \/ HostRestart
  <2>1. /\ UNCHANGED <<commands, hostTx, deviceRx>>
        /\ Sending' => Sending /\ sent' = sent
        /\ Starting' => Starting
    BY <1>6 DEF WaitHello, WaitBegin, WaitEnd, WaitAbort, HostRestart, Sending, Starting,
                deviceSeqVars, lineVars
  <2>2. QED
    BY <1>1, <2>1, UnderWayStays
<1>7. QED
  BY <1>1, <1>4, <1>5, <1>6 DEF HostStep

LEMMA HostInOrder ==
    ASSUME SystemTypeOK, HostStep \/ HostRestart, NEW pos
    PROVE  /\ InStep(pos) => \E pos2 : InStep(pos2)'
           /\ \A g : OutOfStep(pos, g) => \E pos2 : OutOfStep(pos2, g)'
<1>1. ASSUME NEW g, UnderWay(pos, g)
      PROVE  /\ \E pos2 : UnderWay(pos2, g)' /\ pos2[1] = pos[1]
             /\ transferActive' = transferActive
             /\ (\A p : Follows(p)' = Follows(p)) /\ (\A p : Sound(p)' = Sound(p))
             /\ Begun' = Begun
  BY <1>1, HostSends DEF Unread, Follows, Sound, Begun
<1>2. ASSUME InStep(pos) PROVE \E pos2 : InStep(pos2)'
  BY <1>1, <1>2 DEF InStep
<1>3. ASSUME NEW g, OutOfStep(pos, g) PROVE \E pos2 : OutOfStep(pos2, g)'
  BY <1>1, <1>3 DEF OutOfStep
<1>4. QED
  BY <1>2, <1>3

\* The device takes a frame: in step, one that follows; out of step, one that
\* follows too, or the one out of place.
LEMMA DeviceTarget ==
    ASSUME SystemTypeOK, IInv, OnlyTarget, DeviceStep
    PROVE  /\ OnlyTarget'
           /\ \/ files'[Target] \in {files[Target], Absent}
              \/ /\ Accepts(Head(commands)) /\ Head(commands).cmd = "PUT_FILE_END"
                 /\ transferActive /\ files'[Target] = received /\ Len(received) = Len(Source)
           /\ Accepts(Head(commands)) => Dispatch(Head(commands))
           /\ ~Accepts(Head(commands)) => UNCHANGED <<transferActive, received>>
<1>1. Head(commands) \in CommandFrames
  BY NextCommand DEF SystemTypeOK, DeviceStep
<1>2. CASE ~Accepts(Head(commands))
  BY <1>2
     DEF DeviceStep, Rejects, vars, cardVars, sessionVars, historyVars, OnlyTarget
<1>3. CASE Accepts(Head(commands))
  <2>1. Dispatch(Head(commands))
    BY <1>3 DEF DeviceStep, Dispatches
  <2>2. 0 \in 0 .. Len(Source) /\ Len(Source) \in 0 .. Len(Source)
    BY SourceTyped
  <2>3. OnlyTarget'
    <3>1. CASE Hello
      BY <3>1, HelloEnds DEF OnlyTarget
    <3>2. QED
      BY <1>1, <2>1, <3>1, BeginStarts, DataExtends, EndEnds, AbortEnds
         DEF Dispatch, CommandFrames
  <2>4. QED
    BY <1>1, <1>3, <2>1, <2>3, TargetTaken
<1>4. QED
  BY <1>2, <1>3

LEMMA DeviceInOrder ==
    ASSUME SystemTypeOK, IInv, OnlyTarget, DeviceStep, NEW pos, NEW g, OutOfStep(pos, g)
    PROVE  /\ \E pos2, g2 : OutOfStep(pos2, g2)'
           /\ files'[Target] \in {files[Target], Absent, Source}
<1> DEFINE h == IF g = 0 THEN 0 ELSE g - 1
<1>0. PICK f \in CommandFrames : f = Head(commands)
  BY NextCommand DEF SystemTypeOK, DeviceStep
<1>1. /\ pos[1] \in 0 .. Len(Source) /\ pos[2] \in 0 .. Len(Source)
      /\ g \in 0 .. Len(commands) + 1
      /\ Len(commands) \in Nat \ {0} /\ UnderWay(pos, g)
  <2>1. UnderWay(pos, g) /\ Len(commands) \in Nat \ {0}
    BY DeviceFrame DEF OutOfStep
  <2>2. 2 \in 1 .. Len(commands) + 1
    BY <2>1
  <2>3. QED
    BY <2>1, <2>2, FirstPlace
<1>2. /\ g # 1 => Accepts(f)
      /\ g # 2 => pos[2] = After(f, pos[1])
      /\ Fits(f, pos[1])
  BY <1>0, <1>1, UnderWayTaken
<1>3. PICK pos2 : UnderWay(pos2, h)' /\ pos2[1] = pos[2]
  <2>1. 1 \in 1 .. Len(commands) /\ 1 + 1 = 2
    BY <1>1
  <2>2. QED
    BY <1>1, <2>1, UnderWayTaken
<1>4. pos2[1] \in 0 .. Len(Source)
  BY <1>1, <1>3
<1>5. /\ OnlyTarget'
      /\ \/ files'[Target] \in {files[Target], Absent}
         \/ /\ Accepts(f) /\ f.cmd = "PUT_FILE_END"
            /\ transferActive /\ files'[Target] = received /\ Len(received) = Len(Source)
      /\ Accepts(f) => Dispatch(f)
      /\ ~Accepts(f) => UNCHANGED <<transferActive, received>>
  BY <1>0, DeviceTarget
<1>6. After(f, pos[1]) \in 0 .. Len(Source)
  BY <1>0, <1>1, AfterTyped
<1>7. g \in {0, 1} => Sound(pos[1])
  BY <1>1, BegunIsSound DEF OutOfStep
<1>8. g > 1 => Sound(pos[1]) /\ (transferActive => Follows(pos[1]))
  BY <1>1, FollowsIsSound DEF OutOfStep
<1>9. Sound(pos[1])
  BY <1>1, <1>7, <1>8
<1>10. files'[Target] \in {files[Target], Absent, Source}
  <2>1. CASE Accepts(f) /\ f.cmd = "PUT_FILE_END" /\ transferActive /\ Len(received) = Len(Source)
    BY <1>2, <1>5, <1>9, <2>1, SoundIsWhole DEF Fits
  <2>2. QED
    BY <1>5, <2>1
<1>11. Accepts(f) => /\ Sound(After(f, pos[1]))'
                     /\ g > 1 => (transferActive' => Follows(After(f, pos[1]))')
  BY <1>0, <1>1, <1>2, <1>5, <1>8, <1>9, CommandTaken
<1>12. CASE g = 0
  <2>1. h = 0 /\ Sound(pos2[1])'
    BY <1>2, <1>3, <1>11, <1>12
  <2>2. QED
    BY <1>3, <1>10, <2>1 DEF OutOfStep
<1>13. CASE g = 1
  <2>1. Sound(pos2[1])'
    <3>1. CASE Accepts(f)
      BY <1>2, <1>3, <1>11, <1>13, <3>1
    <3>2. CASE ~Accepts(f)
      BY <1>4, <1>5, <1>13, <3>2, BegunIsSound DEF OutOfStep, Sound
    <3>3. QED
      BY <3>1, <3>2
  <2>2. h = 0
    BY <1>13
  <2>3. QED
    BY <1>3, <1>10, <2>1, <2>2 DEF OutOfStep
<1>14. CASE g = 2
  <2>1. Begun'
    BY <1>2, <1>6, <1>11, <1>14 DEF Begun
  <2>2. h = 1
    BY <1>14
  <2>3. QED
    BY <1>3, <1>10, <2>1, <2>2 DEF OutOfStep
<1>15. CASE g > 2
  <2>1. transferActive' => Follows(pos2[1])'
    BY <1>1, <1>2, <1>3, <1>11, <1>15
  <2>2. h > 1 /\ h # 0 /\ h # 1
    BY <1>1, <1>15
  <2>3. QED
    BY <1>3, <1>10, <2>1, <2>2 DEF OutOfStep
<1>16. QED
  BY <1>1, <1>12, <1>13, <1>14, <1>15

LEMMA DeviceInStep ==
    ASSUME SystemTypeOK, IInv, OnlyTarget, DeviceStep, NEW pos, InStep(pos)
    PROVE  \E pos2 : InStep(pos2)'
<1>0. PICK f \in CommandFrames : f = Head(commands)
  BY NextCommand DEF SystemTypeOK, DeviceStep
<1>1. /\ pos[1] \in 0 .. Len(Source) /\ UnderWay(pos, 0)
      /\ Len(commands) \in Nat \ {0} /\ (transferActive => Follows(pos[1]))
  BY FirstPlace, DeviceFrame DEF InStep
<1>2. 1 \in 1 .. Len(commands) /\ 1 + 1 = 2
  BY <1>1
<1>3. /\ Accepts(f) /\ pos[2] = After(f, pos[1]) /\ Fits(f, pos[1])
      /\ \E pos2 : UnderWay(pos2, 0)' /\ pos2[1] = pos[2]
  BY <1>0, <1>1, <1>2, UnderWayTaken
<1>4. Dispatch(f)
  BY <1>0, <1>3, DeviceTarget
<1>5. transferActive' => Follows(After(f, pos[1]))'
  BY <1>1, <1>3, <1>4, CommandTaken
<1>6. QED
  BY <1>3, <1>5 DEF InStep

\* A restart drops the first frames and the upload with them.
LEMMA ChainDropped ==
    ASSUME NEW c \in Seq(CommandFrames), NEW i \in 1 .. Len(c) + 1, NEW next, NEW pos,
           Chain(c, next, pos, 0)
    PROVE  LET d == SubSeq(c, i, Len(c)) IN
           \E pos2 : Chain(d, next, pos2, 0) /\ pos2[Len(d) + 1] = pos[Len(c) + 1]
<1> DEFINE n == Len(c)
           d == SubSeq(c, i, n)
           p == [j \in 1 .. n - i + 2 |-> pos[j + i - 1]]
<1>1. n \in Nat
  BY LenProperties
<1>2. d \in Seq(CommandFrames) /\ Len(d) = n - i + 1 /\ \A j \in 1 .. n - i + 1 : d[j] = c[i + j - 1]
  <2>1. \A k \in i .. n : c[k] \in CommandFrames
    BY <1>1, ElementOfSeq
  <2>2. /\ d \in Seq(CommandFrames) /\ Len(d) = (IF i <= n THEN n - i + 1 ELSE 0)
        /\ \A j \in 1 .. n - i + 1 : d[j] = c[i + j - 1]
    BY <1>1, <2>1, SubSeqProperties
  <2>3. (IF i <= n THEN n - i + 1 ELSE 0) = n - i + 1
    BY <1>1
  <2>4. QED
    BY <2>2, <2>3
<1>3. \A j \in 1 .. n - i + 2 : p[j] = pos[j + i - 1]
  OBVIOUS
<1>4. p \in [1 .. Len(d) + 1 -> 0 .. Len(Source)]
  <2>1. \A j \in 1 .. n - i + 2 : j + i - 1 \in 1 .. n + 1
    BY <1>1
  <2>2. n - i + 1 + 1 = n - i + 2
    BY <1>1
  <2>3. QED
    BY <1>2, <2>1, <2>2 DEF Chain
<1> HIDE DEF d, p
<1>5. \A j \in 1 .. n - i + 2 : SeqsAt(d, next, j) = SeqsAt(c, next, j + i - 1)
  <2>1. \A j \in 1 .. n - i + 2 :
           /\ j <= Len(d) <=> j + i - 1 <= n
           /\ j <= Len(d) => d[j] = c[j + i - 1]
    <3>1. ASSUME NEW j \in 1 .. n - i + 2
          PROVE  /\ j <= n - i + 1 <=> j + i - 1 <= n
                 /\ j <= n - i + 1 => j \in 1 .. n - i + 1
                 /\ i + j - 1 = j + i - 1
      BY <1>1
    <3>2. QED
      BY <1>2, <3>1
  <2>2. QED
    BY <2>1 DEF SeqsAt, SeqAt
<1>6. ASSUME NEW j \in 1 .. Len(d)
      PROVE  InPlace(d, next, p, 0, j)
  <2>1. PICK k \in 1 .. n : k = j + i - 1
    BY <1>1, <1>2
  <2>2. j \in 1 .. n - i + 2 /\ j + 1 \in 1 .. n - i + 2 /\ j + 1 + i - 1 = k + 1
        /\ j \in 1 .. n - i + 1 /\ i + j - 1 = k /\ j # 0 /\ j + 1 # 0 /\ k # 0 /\ k + 1 # 0
    BY <1>1, <1>2, <2>1
  <2>3. /\ d[j] = c[k] /\ p[j] = pos[k] /\ p[j + 1] = pos[k + 1]
        /\ SeqsAt(d, next, j + 1) = SeqsAt(c, next, k + 1)
    BY <1>2, <1>3, <1>5, <2>1, <2>2
  <2>4. InPlace(c, next, pos, 0, k)
    BY DEF Chain
  <2>5. QED
    BY <2>2, <2>3, <2>4 DEF InPlace
<1>7. 0 \in 0 .. Len(d) + 1
  BY <1>1, <1>2
<1>8. Chain(d, next, p, 0)
  BY <1>4, <1>6, <1>7 DEF Chain
<1>9. p[Len(d) + 1] = pos[n + 1]
  <2>1. Len(d) + 1 \in 1 .. n - i + 2 /\ Len(d) + 1 + i - 1 = n + 1
    BY <1>1, <1>2
  <2>2. QED
    BY <1>3, <2>1
<1>10. QED
  BY <1>8, <1>9 DEF d

LEMMA RestartInStep ==
    ASSUME SystemTypeOK, DeviceRestart, NEW pos, InStep(pos)
    PROVE  \E pos2 : InStep(pos2)'
<1>1. PICK i \in 1 .. Len(commands) + 1 : commands' = SubSeq(commands, i, Len(commands))
  BY DEF DeviceRestart
<1>2. commands \in Seq(CommandFrames) /\ Chain(commands, hostTx, pos, 0)
      /\ (Sending => pos[Len(commands) + 1] = sent) /\ (Starting => pos[Len(commands) + 1] = 0)
  BY DEF SystemTypeOK, InStep, UnderWay
<1>3. PICK pos2 : Chain(commands', hostTx, pos2, 0) /\ pos2[Len(commands') + 1] = pos[Len(commands) + 1]
  BY <1>1, <1>2, ChainDropped
<1>4. deviceRx' = NoSeq /\ UNCHANGED <<hostTx, hostPc, sent>> /\ ~transferActive'
  BY DEF DeviceRestart, hostVars, PowerLoss, Restart, FreshObject
<1>5. UnderWay(pos2, 0)'
  BY <1>2, <1>3, <1>4 DEF UnderWay, Sending, Starting
<1>6. QED
  BY <1>4, <1>5 DEF InStep

LEMMA LineOutOfStep ==
    ASSUME SystemTypeOK, LineFault, NEW pos, InStep(pos)
    PROVE  /\ \E pos2, g : OutOfStep(pos2, g)'
           /\ NoCommandFaults => InStep(pos)'
<1>1. /\ UNCHANGED <<hostTx, hostPc, sent, deviceRx, transferActive, received>>
      /\ \A p : Follows(p)' = Follows(p)
      /\ \A p : Sound(p)' = Sound(p)
      /\ Begun' = Begun
  BY DEF LineFault, vars, sessionVars, historyVars, hostVars, deviceSeqVars, Follows, Sound, Begun
<1>2. /\ pos[1] \in 0 .. Len(Source) /\ UnderWay(pos, 0)
      /\ Len(commands) \in Nat /\ (transferActive => Follows(pos[1])) /\ DOMAIN commands = 1 .. Len(commands)
  BY FirstPlace, LenProperties DEF SystemTypeOK, InStep
<1>3. Begun /\ Sound(pos[1])
  BY <1>2, FollowsIsSound
<1>4. CASE commands' = commands
  <2>1. UnderWay(pos, 0)'
    BY <1>1, <1>2, <1>4, UnderWayStays DEF Sending, Starting
  <2>2. QED
    BY <1>1, <1>2, <1>3, <2>1 DEF InStep, OutOfStep
<1>5. ASSUME NEW i \in 1 .. Len(commands), NEW pos2, UnderWay(pos2, i)', i > 1 => pos2[1] = pos[1]
      PROVE  OutOfStep(pos2, i)'
  BY <1>1, <1>2, <1>3, <1>5 DEF OutOfStep
<1>6. CASE /\ ~NoCommandFaults
           /\ \E i \in 1 .. Len(commands) : commands' = RemoveAt(commands, i)
  <2>1. PICK i \in 1 .. Len(commands) : commands' = RemoveAt(commands, i)
    BY <1>6
  <2>2. PICK pos2 : /\ UnderWay(pos2, i)'
                    /\ \A j \in 1 .. Len(commands) :
                          pos2[j] = IF j < i THEN pos[j] ELSE pos[j + 1]
    BY <1>1, <1>2, <2>1, UnderWayLost
  <2>3. i > 1 => pos2[1] = pos[1]
    BY <1>2, <2>2
  <2>4. QED
    BY <1>5, <1>6, <2>2, <2>3
<1>7. CASE /\ ~NoCommandFaults
           /\ \E i \in 1 .. Len(commands) : commands' = Damaged(commands, i)
  <2>1. PICK i \in 1 .. Len(commands) : commands' = Damaged(commands, i)
    BY <1>7
  <2>2. UnderWay(pos, i)'
    BY <1>1, <1>2, <2>1, UnderWayDamaged
  <2>3. QED
    BY <1>5, <1>7, <2>2
<1>8. QED
  BY <1>2, <1>4, <1>6, <1>7 DEF LineFault, MayFail, NoCommandFaults

-----------------------------------------------------------------------------
(***************************************************************************)
(* In order, whatever happens.                                             *)
(***************************************************************************)
LEMMA InOrderInit == SystemInit => InOrder
<1> SUFFICES ASSUME SystemInit PROVE InOrder
  OBVIOUS
<1> DEFINE pos == [i \in 1 .. 1 |-> 0]
<1>1. /\ commands = <<>> /\ hostPc = "hello" /\ deviceRx = NoSeq /\ faults = 0
      /\ ~benchmarkMode /\ ~transferActive
  BY DEF SystemInit, Init
<1>2. files[Target] \in {Absent, <<>>}
  BY TargetPath DEF SystemInit, Init
<1>3. Len(commands) = 0 /\ 0 \in 0 .. Len(Source)
  BY <1>1, SourceTyped
<1>4. pos \in [1 .. Len(commands) + 1 -> 0 .. Len(Source)]
  BY <1>3
<1> HIDE DEF pos
<1>5. Chain(commands, hostTx, pos, 0)
  BY <1>3, <1>4 DEF Chain
<1>6. InStep(pos)
  BY <1>1, <1>5 DEF UnderWay, InStep, Sending, Starting
<1>7. QED
  BY <1>1, <1>2, <1>6 DEF InOrder, OnlyTarget, TargetOldOrWhole

\* Each thing that goes wrong is counted.
LEMMA FaultsCounted ==
    ASSUME SystemTypeOK, [SystemNext]_systemVars
    PROVE  /\ faults \in Nat /\ faults' \in {faults, faults + 1}
           /\ LineFault \/ DeviceRestart => faults' = faults + 1
<1>1. faults \in Nat
  BY LinkAssumption DEF SystemTypeOK
<1>2. LineFault \/ DeviceRestart => faults' = faults + 1
  BY DEF LineFault, DeviceRestart
<1>3. ASSUME HostStep PROVE faults' \in {faults, faults + 1}
  <2>1. CASE SendHello \/ SendBegin \/ SendData \/ SendEnd \/ SendAbort
    BY <2>1 DEF SendHello, SendBegin, SendData, SendEnd, SendAbort, boundVars
  <2>2. Answered({"ACK"}) \/ Refused => faults' \in {faults, faults + 1}
    BY DEF Answered, Refused, TimesOut
  <2>3. CASE WaitHello \/ WaitBegin \/ WaitEnd \/ WaitAbort
    BY <2>2, <2>3 DEF WaitHello, WaitBegin, WaitEnd, WaitAbort
  <2>4. QED
    BY <1>3, <2>1, <2>3 DEF HostStep
<1>4. ASSUME ~HostStep, ~LineFault, ~DeviceRestart PROVE faults' \in {faults, faults + 1}
  <2>1. CASE DeviceStep
    BY <2>1 DEF DeviceStep, Dispatches, Rejects
  <2>2. CASE HostRestart \/ CardMounted \/ Finished \/ UNCHANGED systemVars
    BY <2>2 DEF HostRestart, CardMounted, Finished, boundVars, systemVars
  <2>3. QED
    BY <1>4, <2>1, <2>2 DEF SystemNext
<1>5. QED
  BY <1>1, <1>2, <1>3, <1>4

LEMMA StepInOrder ==
    ASSUME "power_in_command" \notin Faults, SystemTypeOK, IInv, OnlyTarget,
           [SystemNext]_systemVars, NEW pos
    PROVE  /\ OnlyTarget'
           /\ ~LineFault => (InStep(pos) => \E pos2 : InStep(pos2)')
           /\ ~LineFault /\ ~DeviceRestart =>
                 \A g : OutOfStep(pos, g) => \E pos2, g2 : OutOfStep(pos2, g2)'
           /\ (\E g : OutOfStep(pos, g)) => files'[Target] \in {files[Target], Absent, Source}
<1>1. CASE HostStep \/ HostRestart
  <2>1. Unread
    BY <1>1 DEF HostStep, HostRestart, SendHello, WaitHello, SendBegin, WaitBegin, SendData, SendEnd,
         WaitEnd, SendAbort, WaitAbort, vars, cardVars, sessionVars, historyVars, Unread
  <2>2. OnlyTarget' /\ files' = files
    BY <2>1 DEF Unread, OnlyTarget
  <2>3. QED
    BY <1>1, <2>2, HostInOrder
<1>2. CASE DeviceStep
  BY <1>2, DeviceInOrder, DeviceInStep, DeviceTarget
<1>3. CASE CardMounted
  <2>1. /\ UNCHANGED <<commands, hostTx, deviceRx, hostPc, sent>>
        /\ UNCHANGED <<benchmarkMode, transferActive, transferPath, transferTotal, received>>
    BY <1>3 DEF CardMounted, MountSd, sessionVars, lineVars, deviceSeqVars, hostVars
  <2>2. /\ \A g : UnderWay(pos, g)' = UnderWay(pos, g)
        /\ \A p : Follows(p)' = Follows(p)
        /\ \A p : Sound(p)' = Sound(p)
        /\ Begun' = Begun /\ OnlyTarget' = OnlyTarget
    BY <2>1 DEF UnderWay, Sending, Starting, Follows, Sound, Begun, OnlyTarget
  <2>3. files'[Target] = files[Target]
    BY <1>3, TargetSpared DEF CardMounted
  <2>4. QED
    BY <2>1, <2>2, <2>3 DEF InStep, OutOfStep
<1>4. CASE DeviceRestart
  <2>1. files'[Target] = files[Target]
    BY <1>4, TargetSpared DEF DeviceRestart
  <2>2. OnlyTarget'
    BY <1>4 DEF DeviceRestart, PowerLoss, Restart, FreshObject, OnlyTarget
  <2>3. QED
    BY <1>4, <2>1, <2>2, RestartInStep
<1>5. CASE LineFault
  BY <1>5 DEF LineFault, vars, cardVars, sessionVars, OnlyTarget
<1>6. CASE UNCHANGED systemVars
  <2>1. /\ UNCHANGED <<commands, hostTx, deviceRx, hostPc, sent, files>>
        /\ UNCHANGED <<benchmarkMode, transferActive, transferPath, transferTotal, received>>
    BY <1>6 DEF systemVars, vars, cardVars, sessionVars, historyVars, lineVars, deviceSeqVars, hostVars
  <2>2. /\ \A g : UnderWay(pos, g)' = UnderWay(pos, g)
        /\ \A p : Follows(p)' = Follows(p)
        /\ \A p : Sound(p)' = Sound(p)
        /\ Begun' = Begun /\ OnlyTarget' = OnlyTarget
    BY <2>1 DEF UnderWay, Sending, Starting, Follows, Sound, Begun, OnlyTarget
  <2>3. QED
    BY <2>1, <2>2 DEF InStep, OutOfStep
<1>7. QED
  BY <1>1, <1>2, <1>3, <1>4, <1>5, <1>6 DEF SystemNext, Finished

LEMMA InOrderKept ==
    ASSUME "power_in_command" \notin Faults, SystemTInv, InOrder, [SystemNext]_systemVars
    PROVE  InOrder'
<1>1. SystemTypeOK /\ IInv /\ OnlyTarget
  BY DEF SystemTInv, InOrder
<1>2. /\ faults \in Nat /\ faults' \in {faults, faults + 1}
      /\ LineFault \/ DeviceRestart => faults' = faults + 1
  BY <1>1, FaultsCounted
<1>3. /\ OnlyTarget'
      /\ \A pos : ~LineFault => (InStep(pos) => \E pos2 : InStep(pos2)')
      /\ \A pos : ~LineFault /\ ~DeviceRestart =>
             \A g : OutOfStep(pos, g) => \E pos2, g2 : OutOfStep(pos2, g2)'
      /\ \A pos : (\E g : OutOfStep(pos, g)) => files'[Target] \in {files[Target], Absent, Source}
  BY <1>1, StepInOrder
<1>4. \A pos : InStep(pos) => OutOfStep(pos, 0)
  BY <1>1, InStepIsOutOfStep DEF InStepIsWeaker
<1>5. \A pos : InStep(pos)' => OutOfStep(pos, 0)'
  <2>1. SystemTypeOK'
    BY SystemTInvKept DEF SystemTInv
  <2>2. InStepIsWeaker'
    BY <2>1, InStepIsOutOfStep, PTL
  <2>3. QED
    BY <2>2 DEF InStepIsWeaker
<1>6. \A pos : LineFault /\ InStep(pos) =>
         /\ \E pos2, g : OutOfStep(pos2, g)'
         /\ NoCommandFaults => InStep(pos)'
  BY <1>1, LineOutOfStep
<1>7. NoCommandFaults' = NoCommandFaults
  BY DEF NoCommandFaults
<1>8. ASSUME faults' = 0 \/ NoCommandFaults PROVE \E pos : InStep(pos)'
  <2>1. \E pos : InStep(pos)
    BY <1>2, <1>8 DEF InOrder
  <2>2. LineFault => NoCommandFaults
    BY <1>2, <1>8
  <2>3. QED
    BY <1>3, <1>6, <2>1, <2>2
<1>9. ASSUME faults' = 1 PROVE \E pos, g : OutOfStep(pos, g)'
  <2>1. CASE faults = 0
    <3>1. PICK pos : InStep(pos)
      BY <2>1 DEF InOrder
    <3>2. CASE LineFault
      BY <1>6, <3>1, <3>2
    <3>3. CASE ~LineFault
      BY <1>3, <1>5, <3>1, <3>3
    <3>4. QED
      BY <3>2, <3>3
  <2>2. CASE faults = 1
    BY <1>2, <1>3, <1>9, <2>2 DEF InOrder
  <2>3. QED
    BY <1>2, <1>9, <2>1, <2>2
<1>10. ASSUME faults' <= 1 \/ NoCommandFaults PROVE TargetOldOrWhole'
  <2>1. TargetOldOrWhole /\ \E pos, g : OutOfStep(pos, g)
    <3>1. faults <= 1 \/ NoCommandFaults
      BY <1>2, <1>10
    <3>2. CASE faults = 0 \/ NoCommandFaults
      BY <1>4, <3>1, <3>2 DEF InOrder
    <3>3. CASE faults = 1
      BY <3>1, <3>3 DEF InOrder
    <3>4. QED
      BY <1>2, <3>1, <3>2, <3>3
  <2>2. files'[Target] \in {files[Target], Absent, Source}
    BY <1>3, <2>1
  <2>3. QED
    BY <2>1, <2>2 DEF TargetOldOrWhole
<1>11. QED
  BY <1>3, <1>7, <1>8, <1>9, <1>10 DEF InOrder

\* No sequence of attempts, hosts and restarts of the device leaves a mixture at
\* the target: it holds what it held before, nothing, or the whole file.  One
\* thing goes wrong, whichever it is; or any number, but no command is lost or
\* damaged: answers may be, or late, the device may lose its power between two
\* frames, the card may refuse or fail any command.  (COPY, which a power loss
\* may cut, is none of this host's commands.)
THEOREM TargetNeverMixed ==
    ASSUME "power_in_command" \notin Faults
    PROVE  SystemSpec => [](faults <= 1 \/ NoCommandFaults => TargetOldOrWhole)
<1>1. InOrder => (faults <= 1 \/ NoCommandFaults => TargetOldOrWhole)
  BY DEF InOrder
<1>2. SystemTInv /\ InOrder /\ [SystemNext]_systemVars => InOrder'
  BY InOrderKept
<1>3. QED
  BY <1>1, <1>2, InOrderInit, SystemTypes, PTL DEF SystemSpec
=============================================================================
