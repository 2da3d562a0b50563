\* Two rows finished without sign-off, one of them in another conversation,
\* and one dependent row whose references were never checked.
SPECIFICATION Spec
CONSTANTS
    Task = {"l", "m", "o"}
    EvalTask = {}
    ReviewTask = {"o"}
    AutoTask = {"m"}
    SampleTask = {}
    LegacyDone = {"l", "m"}
    LegacyOpen = {"o"}
    Conv <- OtherConv
    Job = job
    EvalThread = {}
    Cli = {}
    None = none
    Levels = {"internal", "sensitive"}
    MaxDisturb = 1
    MayCancel = {"o"}
    MayDependOn <- Anything
INVARIANTS SafeConsumption
PROPERTIES LevelIsImmutable
