\* Liveness of the job loop under weak fairness: a dependent row of an earlier
\* release, which may be malformed, and a new dependent task behind it, over a
\* finished upstream.  Three disturbances: raise, lose the write of last resort,
\* restart.
SPECIFICATION LiveSpec
CONSTANTS
    Task = {"l", "o", "d"}
    EvalTask = {}
    ReviewTask = {"o"}
    AutoTask = {"l", "d"}
    SampleTask = {}
    LegacyDone = {"l"}
    LegacyOpen = {"o"}
    Conv <- OneConv
    Job = job
    EvalThread = {}
    Cli = {}
    None = none
    Levels = {"internal"}
    MaxDisturb = 3
    MayCancel = {}
    MayDependOn <- Anything
PROPERTIES QueuedIsServed ExecutionEnds DependentsSettle
