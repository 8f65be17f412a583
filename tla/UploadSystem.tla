---------------------------- MODULE UploadSystem ----------------------------
(***************************************************************************)
(* A host that uploads one file over a serial line that loses and corrupts *)
(* frames: FileManager.upload_file and ESP32Protocol on the host, the      *)
(* frame checks of FileProtocol::try_parse_frame on the device, and the    *)
(* device's session (FileProtocol) behind them.                            *)
(*                                                                         *)
(* The two directions are FIFO queues.  A frame that is queued may already *)
(* have arrived or not, so a poll of the host may miss it.  A wait of the  *)
(* host ends without an answer only when none is under way, unless answers *)
(* may be late.  Length fields that arrive damaged are FrameParser's       *)
(* subject: here a damaged frame is one whose CRC fails.                   *)
(***************************************************************************)
EXTENDS FileProtocol, SequencesExt

CONSTANTS
    Source,         \* the file on the host
    Target,         \* the path it is uploaded to
    ChunkSize,      \* ESP32Protocol.chunk_size
    Attempts,       \* attempts of upload_file
    Modulus,         \* 2^16
    LinkFaults,     \* what the line and the clock may do
    MaxFaults,      \* bound: faults of the line, the clock and the card
    MaxRestarts     \* bound: host processes that die and are started again

LinkFaultKinds ==
    {"lose_command", "corrupt_command", "lose_reply", "corrupt_reply", "late"}

ASSUME SourceAssumption == Source \in Seq(Bytes) /\ Len(Source) \in Totals
ASSUME TargetAssumption == Target \in PutNames
ASSUME ChunkAssumption ==
    /\ ChunkSize \in Nat \ {0}
    /\ \A i \in 0 .. Len(Source), j \in 0 .. Len(Source) :
          i < j /\ j <= i + ChunkSize => SubSeq(Source, i + 1, j) \in Payloads
ASSUME LinkAssumption ==
    /\ Attempts \in Nat \ {0}
    /\ Modulus \in Nat \ {0}
    /\ LinkFaults \subseteq LinkFaultKinds
    /\ MaxFaults \in Nat
    /\ MaxRestarts \in Nat

VARIABLES
    commands,   \* frames on their way to the device
    replies,    \* frames on their way to the host
    deviceRx,   \* m_rx_sequence, or NoSeq when m_rx_sequence_valid is false
    deviceTx,   \* m_tx_sequence
    hostPc,     \* where upload_file is
    hostTx,     \* ESP32Protocol.sequence
    hostRx,     \* ESP32Protocol._rx_sequence, or NoSeq for None
    attempt,    \* upload_file's attempt
    sent,       \* bytes it has sent in this attempt
    faults,     \* how many things went wrong
    restarts    \* how many times the host was started again

lineVars == <<commands, replies>>
deviceSeqVars == <<deviceRx, deviceTx>>
hostVars == <<hostPc, hostTx, hostRx, attempt, sent>>
boundVars == <<faults, restarts>>
systemVars == <<vars, lineVars, deviceSeqVars, hostVars, boundVars>>

NoSeq == Modulus

\* Mutant of NextSeq: the counter is wider than the field it is sent in.
WiderSeq(n) == n + 1

NextSeq(n) == (n + 1) % Modulus

HostStates == {"hello", "wait_hello", "begin", "wait_begin", "data",
               "wait_end", "abort", "wait_abort", "ok", "failed"}

Frame(cmd, seq, payload) ==
    [cmd |-> cmd, seq |-> seq, payload |-> payload, good |-> TRUE]
Reply(kind, seq) == [kind |-> kind, seq |-> seq, good |-> TRUE]

CommandFrames ==
    [cmd : {"HELLO", "PUT_FILE_BEGIN", "PUT_FILE_END", "PUT_FILE_ABORT"},
     seq : 0 .. Modulus - 1, payload : {<<>>}, good : BOOLEAN]
        \cup [cmd : {"PUT_FILE_DATA"}, seq : 0 .. Modulus - 1, payload : Payloads, good : BOOLEAN]
ReplyFrames == [kind : {"ACK", "NACK"}, seq : 0 .. Modulus - 1, good : BOOLEAN]

SystemTypeOK ==
    /\ commands \in Seq(CommandFrames)
    /\ replies \in Seq(ReplyFrames)
    /\ deviceRx \in 0 .. Modulus
    /\ deviceTx \in 0 .. Modulus - 1
    /\ hostPc \in HostStates
    /\ hostTx \in 0 .. Modulus - 1
    /\ hostRx \in 0 .. Modulus
    /\ attempt \in 1 .. Attempts
    /\ sent \in 0 .. Len(Source)
    /\ faults \in 0 .. MaxFaults
    /\ restarts \in 0 .. MaxRestarts

SystemInit ==
    /\ Init
    /\ files[Target] # Directory
    /\ commands = <<>>
    /\ replies = <<>>
    /\ deviceRx = NoSeq
    /\ deviceTx = 0
    /\ hostPc = "hello"
    /\ hostTx = 0
    /\ hostRx = NoSeq
    /\ attempt = 1
    /\ sent = 0
    /\ faults = 0
    /\ restarts = 0

MayFail(kind) == kind \in LinkFaults /\ faults < MaxFaults

-----------------------------------------------------------------------------
(***************************************************************************)
(* The device: try_parse_frame, and dispatch_command behind it.            *)
(***************************************************************************)
\* Mutant of Rejects: m_rx_sequence_valid stays set.
RejectsInStep ==
    /\ replies' = Append(replies, Reply("NACK", deviceTx))
    /\ deviceTx' = NextSeq(deviceTx)
    /\ UNCHANGED <<vars, faults, deviceRx>>

\* A frame that does not pass is answered by a NACK; the next one that does
\* seeds the expected number again.
Rejects ==
    /\ replies' = Append(replies, Reply("NACK", deviceTx))
    /\ deviceTx' = NextSeq(deviceTx)
    /\ deviceRx' = NoSeq
    /\ UNCHANGED <<vars, faults>>

Accepts(f) ==
    f.good /\ (f.cmd = "HELLO" \/ deviceRx \in {NoSeq, f.seq})

\* The frames that a handler sent, numbered from seq on: at most one here.
Numbered(kinds, seq) ==
    [i \in DOMAIN kinds |->
        Reply(IF kinds[i] \in Errors THEN "NACK" ELSE "ACK", (seq + i - 1) % Modulus)]

Dispatch(f) ==
    \/ f.cmd = "HELLO" /\ Hello
    \/ f.cmd = "PUT_FILE_BEGIN" /\ PutFileBegin(Target, Len(Source))
    \/ f.cmd = "PUT_FILE_DATA" /\ PutFileData(f.payload)
    \/ f.cmd = "PUT_FILE_END" /\ PutFileEnd
    \/ f.cmd = "PUT_FILE_ABORT" /\ PutFileAbort

\* The card refuses or fails what the protocol did nothing to deserve.
CardFault(f) ==
    \/ reply' = <<"ERR_DISK_FULL">>
    \/ /\ reply' = <<"ERR_IO_ERROR">>
       /\ f.cmd = "PUT_FILE_DATA" => ~TooMuch(f.payload)
       /\ f.cmd = "PUT_FILE_END" => UploadComplete

Dispatches(f) ==
    LET first == IF f.cmd = "HELLO" THEN 0 ELSE deviceTx IN
    /\ Dispatch(f)
    /\ replies' = replies \o Numbered(reply', first)
    /\ deviceTx' = (first + Len(reply')) % Modulus
    /\ deviceRx' = NextSeq(f.seq)
    /\ IF CardFault(f) THEN faults < MaxFaults /\ faults' = faults + 1
                       ELSE UNCHANGED faults

DeviceStep ==
    /\ commands # <<>>
    /\ commands' = Tail(commands)
    /\ LET f == Head(commands) IN
          IF Accepts(f) THEN Dispatches(f) ELSE Rejects
    /\ UNCHANGED <<hostVars, restarts>>

CardMounted ==
    /\ MountSd
    /\ UNCHANGED <<lineVars, deviceSeqVars, hostVars, boundVars>>

\* The device restarts, and misses the first frames that are under way.
DeviceRestart ==
    /\ PowerLoss
    /\ faults < MaxFaults
    /\ faults' = faults + 1
    /\ \E i \in 1 .. Len(commands) + 1 :
          commands' = SubSeq(commands, i, Len(commands))
    /\ deviceRx' = NoSeq
    /\ deviceTx' = 0
    /\ UNCHANGED <<replies, hostVars, restarts>>

-----------------------------------------------------------------------------
(***************************************************************************)
(* The line.                                                               *)
(***************************************************************************)
Damaged(s, i) == [s EXCEPT ![i].good = FALSE]

LineFault ==
    /\ \/ /\ MayFail("lose_command") /\ UNCHANGED replies
          /\ \E i \in DOMAIN commands : commands' = RemoveAt(commands, i)
       \/ /\ MayFail("corrupt_command") /\ UNCHANGED replies
          /\ \E i \in DOMAIN commands :
                commands[i].good /\ commands' = Damaged(commands, i)
       \/ /\ MayFail("lose_reply") /\ UNCHANGED commands
          /\ \E i \in DOMAIN replies : replies' = RemoveAt(replies, i)
       \/ /\ MayFail("corrupt_reply") /\ UNCHANGED commands
          /\ \E i \in DOMAIN replies :
                replies[i].good /\ replies' = Damaged(replies, i)
    /\ faults' = faults + 1
    /\ UNCHANGED <<vars, deviceSeqVars, hostVars, restarts>>

-----------------------------------------------------------------------------
(***************************************************************************)
(* The host's protocol: _send_frame, _receive_frame and the waits.         *)
(***************************************************************************)
Send(cmd, payload) ==
    /\ commands' = Append(commands, Frame(cmd, hostTx, payload))
    /\ hostTx' = NextSeq(hostTx)

\* What the next frame tells a wait: the frame's kind, or that it raises.
Verdict ==
    LET r == Head(replies) IN
    IF r.good /\ hostRx \in {NoSeq, r.seq} THEN r.kind ELSE "raise"

\* A frame that raises leaves the expected number where it was.
TakeReply ==
    /\ replies # <<>>
    /\ replies' = Tail(replies)
    /\ hostRx' = IF Verdict = "raise" THEN hostRx ELSE NextSeq(Head(replies).seq)

\* The wait is over with no answer: none is coming, or it comes too late.
TimesOut ==
    /\ replies = <<>>
    /\ \/ commands = <<>> /\ UNCHANGED faults
       \/ commands # <<>> /\ MayFail("late") /\ faults' = faults + 1
    /\ UNCHANGED <<replies, hostRx>>

Answered(verdicts) == TakeReply /\ Verdict \in verdicts /\ UNCHANGED faults
Refused == Answered({"NACK", "raise"}) \/ TimesOut

-----------------------------------------------------------------------------
(***************************************************************************)
(* connect: what has arrived is dropped before each HELLO.  The user       *)
(* starts the host when the card is mounted, and again when it gives up.   *)
(***************************************************************************)
SendHello ==
    /\ hostPc = "hello" /\ mounted
    /\ \/ commands = <<>> /\ UNCHANGED faults
       \/ commands # <<>> /\ MayFail("late") /\ faults' = faults + 1
    /\ commands' = Append(commands, Frame("HELLO", 0, <<>>))
    /\ hostTx' = NextSeq(0)
    /\ hostRx' = NoSeq
    /\ replies' = <<>>
    /\ hostPc' = "wait_hello"
    /\ UNCHANGED <<vars, deviceSeqVars, attempt, sent, restarts>>

WaitHello ==
    /\ hostPc = "wait_hello"
    /\ \/ Answered({"ACK"}) /\ hostPc' = "begin"
       \/ Refused /\ hostPc' = "hello"
    /\ UNCHANGED <<vars, commands, deviceSeqVars, hostTx, attempt, sent,
                   restarts>>

(***************************************************************************)
(* upload_file.                                                            *)
(***************************************************************************)
SendBegin ==
    /\ hostPc = "begin"
    /\ Send("PUT_FILE_BEGIN", <<>>)
    /\ hostPc' = "wait_begin"
    /\ sent' = 0
    /\ UNCHANGED <<vars, replies, deviceSeqVars, hostRx, attempt, boundVars>>

WaitBegin ==
    /\ hostPc = "wait_begin"
    /\ \/ Answered({"ACK"}) /\ hostPc' = "data"
       \/ Refused /\ hostPc' = "abort"
    /\ UNCHANGED <<vars, commands, deviceSeqVars, hostTx, attempt, sent,
                   restarts>>

\* source.read(chunk_size), as the position it leaves.
ReadTo ==
    IF sent + ChunkSize < Len(Source) THEN sent + ChunkSize ELSE Len(Source)

\* After a chunk the host looks once for an answer, and ignores an ACK.
SendData ==
    /\ hostPc = "data"
    /\ sent < Len(Source)
    /\ Send("PUT_FILE_DATA", SubSeq(Source, sent + 1, ReadTo))
    /\ \/ UNCHANGED <<replies, hostRx>> /\ sent' = ReadTo /\ hostPc' = "data"
       \/ /\ TakeReply
          /\ Verdict = "ACK" /\ sent' = ReadTo /\ hostPc' = "data"
       \/ /\ TakeReply
          /\ Verdict # "ACK" /\ hostPc' = "abort" /\ UNCHANGED sent
    /\ UNCHANGED <<vars, deviceSeqVars, attempt, boundVars>>

SendEnd ==
    /\ hostPc = "data"
    /\ sent = Len(Source)
    /\ Send("PUT_FILE_END", <<>>)
    /\ hostPc' = "wait_end"
    /\ UNCHANGED <<vars, replies, deviceSeqVars, hostRx, attempt, sent,
                   boundVars>>

\* Mutants of WaitEnd: the answer's kind is not looked at, or the wait has no
\* deadline.
EndUnread ==
    /\ hostPc = "wait_end"
    /\ \/ Answered({"ACK", "NACK"}) /\ hostPc' = "ok"
       \/ (Answered({"raise"}) \/ TimesOut) /\ hostPc' = "abort"
    /\ UNCHANGED <<vars, commands, deviceSeqVars, hostTx, attempt, sent,
                   restarts>>

EndAwaited ==
    /\ hostPc = "wait_end"
    /\ \/ Answered({"ACK"}) /\ hostPc' = "ok"
       \/ Answered({"NACK", "raise"}) /\ hostPc' = "abort"
       \/ TimesOut /\ hostPc' = "wait_end"
    /\ UNCHANGED <<vars, commands, deviceSeqVars, hostTx, attempt, sent,
                   restarts>>

WaitEnd ==
    /\ hostPc = "wait_end"
    /\ \/ Answered({"ACK"}) /\ hostPc' = "ok"
       \/ Refused /\ hostPc' = "abort"
    /\ UNCHANGED <<vars, commands, deviceSeqVars, hostTx, attempt, sent,
                   restarts>>

SendAbort ==
    /\ hostPc = "abort"
    /\ Send("PUT_FILE_ABORT", <<>>)
    /\ hostPc' = "wait_abort"
    /\ UNCHANGED <<vars, replies, deviceSeqVars, hostRx, attempt, sent,
                   boundVars>>

\* _abort_transfer swallows what the wait raises.
WaitAbort ==
    /\ hostPc = "wait_abort"
    /\ Answered({"ACK"}) \/ Refused
    /\ IF attempt = Attempts
       THEN hostPc' = "failed" /\ UNCHANGED attempt
       ELSE hostPc' = "begin" /\ attempt' = attempt + 1
    /\ UNCHANGED <<vars, commands, deviceSeqVars, hostTx, sent, restarts>>

\* The host process dies; the user starts it again.
HostRestart ==
    /\ restarts < MaxRestarts
    /\ hostPc \notin {"hello", "ok"}
    /\ restarts' = restarts + 1
    /\ hostPc' = "hello"
    /\ attempt' = 1
    /\ sent' = 0
    /\ UNCHANGED <<vars, lineVars, deviceSeqVars, hostTx, hostRx, faults>>

HostStep ==
    \/ SendHello \/ WaitHello
    \/ SendBegin \/ WaitBegin
    \/ SendData
    \/ SendEnd \/ WaitEnd
    \/ SendAbort \/ WaitAbort

Finished == hostPc \in {"ok", "failed"} /\ commands = <<>> /\ UNCHANGED systemVars

SystemNext ==
    \/ HostStep \/ HostRestart
    \/ DeviceStep \/ CardMounted \/ DeviceRestart
    \/ LineFault
    \/ Finished

\* The UART RX task and the host process are scheduled, and a wait ends.
SystemFairness ==
    WF_systemVars(HostStep) /\ WF_systemVars(DeviceStep) /\ WF_systemVars(CardMounted)

SystemSpec == SystemInit /\ [][SystemNext]_systemVars
FairSystemSpec == SystemSpec /\ SystemFairness

-----------------------------------------------------------------------------
(***************************************************************************)
(* Properties.                                                             *)
(***************************************************************************)

\* An upload that upload_file reports as done is one that the device holds,
\* once the frames under way have arrived.  ("3-attempt recovery loop. This
\* guarantees 100% reliable, bit-perfect transfers", src/README.md:691.)  The
\* strict form, with frames still under way, does not hold after one damaged
\* DATA frame: its NACK answers END, and every later answer is one too early.
ReportedUploadIsStored ==
    hostPc = "ok" /\ commands = <<>> => files[Target] = Source

\* Whatever the line loses, damages or delays, as long as that is little, the
\* target holds what it held before, nothing, or the whole file: no mixture of
\* attempts passes the size check of PUT_FILE_END.
TargetOldOrWhole == files[Target] \in {Absent, <<>>, Source}

\* One fault alone, of a command on the line or of the card, never makes
\* upload_file fail: its second or third attempt stores the file.
RecoversFromOneFault == hostPc = "failed" => faults > 1

\* A host that has connected finds nothing of an earlier host: no upload is
\* open, no partial file is left, and both directions count from its HELLO,
\* however the earlier host and its frames ended.
ConnectStartsClean ==
    hostPc = "begin" /\ attempt = 1 =>
        /\ ~transferActive
        /\ files[TempOf[Target]] = Absent
        /\ hostRx = deviceTx
        /\ deviceRx = hostTx

\* Every upload comes to an end: no wait of the host lasts for ever, and no
\* session keeps the device from answering.
UploadEnds == <>(hostPc \in {"ok", "failed"})
=============================================================================
