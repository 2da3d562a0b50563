\* An eval task run by the worker or by the CLI process, next to a user row
\* that an earlier release made dependent on a finished eval task.
SPECIFICATION Spec
CONSTANTS
    Task = {"o", "x", "y"}
    EvalTask = {"x", "y"}
    ReviewTask = {"o"}
    AutoTask = {"x", "y"}
    SampleTask = {"o", "x", "y"}
    LegacyDone = {"y"}
    LegacyOpen = {"o"}
    Conv <- OneConv
    Job = job
    EvalThread = {"ev", "cli"}
    Cli = {"cli"}
    None = none
    Levels = {"internal"}
    MaxDisturb = 1
    MayCancel = {}
    MayDependOn <- Anything
INVARIANTS LabelIsVerdict
PROPERTIES ImplementsPromise
