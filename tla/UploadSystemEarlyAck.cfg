\* Two damaged or lost commands: upload_file returns, and the card holds
\* nothing.
CONSTANTS
    a = a
    aUp = aUp
    x = x
    y = y
    NoPath = NoPath
    OffCardTemp = OffCardTemp
    Absent = Absent
    Directory = Directory
    Bytes = {x, y}
    Payloads <- MCPayloads
    Totals = {3}
    Names = {a, aUp}
    UploadNames = {aUp}
    PutNames = {a}
    TempOf <- MCTempOf
    BenchmarkPaths = {}
    OffCardPaths = {}
    LongPaths = {}
    Faults = {}
    Source <- MCSource
    Target = a
    ChunkSize = 1
    Attempts = 3
    Modulus = 8
    LinkFaults = {"lose_command", "corrupt_command"}
    MaxFaults = 2
    MaxRestarts = 0
SPECIFICATION SystemSpec
INVARIANT ReportedUploadIsStored
