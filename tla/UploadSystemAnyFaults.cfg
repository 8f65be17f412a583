\* The same upload with every fault of the line, the clock and the power
\* supply, and failing writes: two faults in all.
CONSTANTS
    a = a
    aUp = aUp
    x = x
    y = y
    NoPath = NoPath
    OffCardTemp = OffCardTemp
    Absent = Absent
    Directory = Directory
    Bytes = {x, y}
    Payloads <- MCPayloads
    Totals = {3}
    Names = {a, aUp}
    UploadNames = {aUp}
    PutNames = {a}
    TempOf <- MCTempOf
    BenchmarkPaths = {}
    OffCardPaths = {}
    LongPaths = {}
    Faults = {"write", "power"}
    Source <- MCSource
    Target = a
    ChunkSize = 1
    Attempts = 3
    Modulus = 32
    LinkFaults = {"lose_command", "corrupt_command", "lose_reply", "corrupt_reply", "late"}
    MaxFaults = 2
    MaxRestarts = 0
SPECIFICATION FairSystemSpec
INVARIANT TargetOldOrWhole
PROPERTY UploadEnds
