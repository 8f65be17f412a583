\* Two tasks on six backends and a registry with room for two: callers keep the
\* documented contract of unregister_backend.
CONSTANTS
    sd1 = sd1
    sd2 = sd2
    models = models
    flash = flash
    root = root
    bad = bad
    rx = rx
    app = app
    Malformed = Malformed
    NoObject = NoObject
    Tasks = {rx, app}
    Objects = {sd1, sd2, models, flash, root, bad}
    MountOf <- MCMountOf
    Components = {"sd", "models", "m", "flash", "f", "x"}
    Paths <- MCPaths
    MaxBackends = 2
    ContractKept = TRUE
SPECIFICATION Spec
SYMMETRY MCSymmetry
INVARIANTS
    TypeOK
    ServedByOne
    
PROPERTY NeverHijacked
