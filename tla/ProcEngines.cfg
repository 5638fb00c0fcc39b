CONSTANTS
    MaxProcs = 3
    Nil = nil
    Free = free
    Engine = engine
    Main = main
    Artifacts <- MCArtifacts
    NoFile = NoFile
    Faults = {"hang", "exit", "start", "serve"}
SPECIFICATION EngineFairSpec
CHECK_DEADLOCK FALSE
INVARIANTS EnginesInv NoOrphan NoFalseAlarm OneUnkilled AppliedRuns
PROPERTY DeathNoticed
