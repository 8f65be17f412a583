\* The session against its abstract specification: no rename fails and the power
\* goes only between commands.  No benchmark: the log levels are restored.
CONSTANTS
    a = a
    b = b
    aUp = aUp
    bUp = bUp
    x = x
    y = y
    devNull = devNull
    offCard = offCard
    longPath = longPath
    NoPath = NoPath
    OffCardTemp = OffCardTemp
    Absent = Absent
    Directory = Directory
    Bytes = {x, y}
    Payloads <- MCPayloads
    Totals = {0, 1, 2}
    Names = {a, b, aUp}
    UploadNames = {aUp}
    PutNames = {a}
    TempOf <- MCTempOfA
    BenchmarkPaths = {}
    OffCardPaths = {offCard}
    LongPaths = {longPath}
    Faults = {"open", "write", "close", "unlink", "format", "power"}
SPECIFICATION Spec
INVARIANTS
    
    LogsRestored
 
