\* Two tasks, two calls, two faults, each of the four backends.
CONSTANTS
    Rx = rx
    Apps = {app}
    Nobody = Nobody
    a = a
    b = b
    d = d
    e = e
    s = s
    x = x
    m = m
    up = up
    Components = {a, b, d, e, s, x, m, up}
    Places <- MCPlaces
    Partials <- MCPartials
    Chunks = {1, 2, 3}
    Volumes <- MCVolumes
    MountName = m
    Calls <- MCCalls
    NotStarted = NotStarted
    Absent = Absent
    Directory = Directory
    Faults = {"open", "write", "read", "close", "unlink", "rmdir", "rename", "mkdir", "mount", "unregister", "format"}
    MaxCalls = 2
    MaxFaults = 2
SPECIFICATION Spec
INVARIANTS
    TypeOK
    
PROPERTIES
    
    CallsEnd
CHECK_DEADLOCK FALSE
