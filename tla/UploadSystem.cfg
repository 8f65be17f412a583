\* An upload over a line that loses or damages a command, on a card that may
\* fail: one fault in all, and a host that dies once.
CONSTANTS
    a = a
    aUp = aUp
    x = x
    y = y
    NoPath = NoPath
    OffCardTemp = OffCardTemp
    Absent = Absent
    Directory = Directory
    Bytes = {x, y}
    Payloads <- MCPayloads
    Totals = {3}
    Names = {a, aUp}
    UploadNames = {aUp}
    PutNames = {a}
    TempOf <- MCTempOf
    BenchmarkPaths = {}
    OffCardPaths = {}
    LongPaths = {}
    Faults = {"open", "close", "rename"}
    Source <- MCSource
    Target = a
    ChunkSize = 1
    Attempts = 3
    Modulus = 8
    LinkFaults = {"lose_command", "corrupt_command"}
    MaxFaults = 1
    MaxRestarts = 1
SPECIFICATION SystemSpec
INVARIANTS
    SystemTypeOK
    ReportedUploadIsStored
    
    ConnectStartsClean
