\* Every command in every order, every fault that leaves unlink working, and a
\* mount beside the commands.
CONSTANTS
    a = a
    b = b
    aUp = aUp
    bUp = bUp
    x = x
    y = y
    devNull = devNull
    offCard = offCard
    longPath = longPath
    NoPath = NoPath
    OffCardTemp = OffCardTemp
    Absent = Absent
    Directory = Directory
    Bytes = {x, y}
    Payloads <- MCPayloads
    Totals = {0, 1, 2}
    Names = {a, b, aUp}
    UploadNames = {aUp}
    PutNames = {a}
    TempOf <- MCTempOfA
    BenchmarkPaths = {devNull}
    OffCardPaths = {offCard}
    LongPaths = {longPath}
    Faults = {"open", "write", "close", "rename", "format", "power", "power_in_command", "app_mount"}
SPECIFICATION Spec
INVARIANTS
    TypeOK
    SessionConsistent
    NoPartialLeft

    
    
