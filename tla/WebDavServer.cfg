\* Two threads, a request of any kind on each, two names, one of them there,
\* bodies of no chunk and of two, any refusal and one answer late or lost.
CONSTANTS
    t1 = t1
    t2 = t2
    a = a
    b = b
    Absent = Absent
    None = None
    Threads = {t1, t2}
    Names = {a, b}
    Initially = {a}
    Operations = {"LIST", "PUT", "DELETE", "MOVE"}
    Sizes = {0, 2}
    MaxRequests = 1
    MaxFaults = 1
    Faults = {"refuse", "lost", "late"}
SPECIFICATION Spec
INVARIANTS
    TypeOK
    StaleOnlyByFailureOrRace
    CleanPutIsStored
PROPERTY RequestsEnd
CHECK_DEADLOCK FALSE
