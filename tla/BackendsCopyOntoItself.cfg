\* A copy whose destination is its source, on each backend; no fault at all.
CONSTANTS
    Rx = rx
    Apps = {app}
    Nobody = Nobody
    a = a
    b = b
    d = d
    e = e
    s = s
    x = x
    m = m
    up = up
    Components = {a, b, d, e, s, x, m, up}
    Places <- MCPlaces
    Partials <- MCPartials
    Chunks = {1, 2, 3}
    Volumes <- MCVolumes
    MountName = m
    Calls <- MCCopies
    NotStarted = NotStarted
    Absent = Absent
    Directory = Directory
    Faults = {}
    MaxCalls = 2
    MaxFaults = 0
SPECIFICATION Spec
PROPERTY CopyKeepsContents
CHECK_DEADLOCK FALSE
