\* One task cancelled while the worker claims it: ADR-0008 cancels only what
\* has not started.
SPECIFICATION Spec
CONSTANTS
    Task = {"u"}
    EvalTask = {}
    ReviewTask = {"u"}
    AutoTask = {}
    SampleTask = {}
    LegacyDone = {}
    LegacyOpen = {}
    Conv <- OneConv
    Job = job
    EvalThread = {}
    Cli = {}
    None = none
    Levels = {"internal"}
    MaxDisturb = 0
    MayCancel = {"u"}
    MayDependOn <- Anything
PROPERTIES RunningIsNotCancelled
