\* One thread, two PUTs of one chunk, no answer late or lost: the first fails at
\* its end, and the second is reported stored although the device refused it.
CONSTANTS
    t1 = t1
    t2 = t2
    a = a
    b = b
    Absent = Absent
    None = None
    Threads = {t1}
    Names = {a}
    Initially = {a}
    Operations = {"PUT"}
    Sizes = {1}
    MaxRequests = 2
    MaxFaults = 0
    Faults = {"refuse"}
SPECIFICATION Spec
INVARIANT PutRaisesOnFailure
CHECK_DEADLOCK FALSE
