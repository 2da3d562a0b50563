\* A reviewed task that may be cancelled and a deterministic one, in any
\* dependency, and two disturbances.
SPECIFICATION Spec
CONSTANTS
    Task = {"u", "d"}
    EvalTask = {}
    ReviewTask = {"u"}
    AutoTask = {"d"}
    SampleTask = {"u"}
    LegacyDone = {}
    LegacyOpen = {}
    Conv <- OneConv
    Job = job
    EvalThread = {}
    Cli = {}
    None = none
    Levels = {"internal"}
    MaxDisturb = 2
    MayCancel = {"u"}
    MayDependOn <- Anything
INVARIANTS TypeOK NoReplay ReleasedBySignature NoZombie ContentIsClassified LevelIsDerived
PROPERTIES ReviewIsHuman
