\* Two application tasks, two lives of the bridge, one failed allocation; only
\* one task at a time starts the runtime.
CONSTANTS
    Rx = rx
    Apps = {main, tts}
    Main = main
    Nobody = Nobody
    DeletedTask = DeletedTask
    Slots = 3
    MaxLives = 2
    MaxOoms = 1
    MountSdOwn = TRUE
    StartsAlone = TRUE
SPECIFICATION Spec
INVARIANTS
    TypeOK
    
    
    
PROPERTY CallsEnd
CHECK_DEADLOCK FALSE
