\* Two upstreams joined by a third task, with every binding.
SPECIFICATION Spec
CONSTANTS
    Task = {"u", "d", "j"}
    EvalTask = {}
    ReviewTask = {"u", "j"}
    AutoTask = {"d"}
    SampleTask = {}
    LegacyDone = {}
    LegacyOpen = {}
    Conv <- OneConv
    Job = job
    EvalThread = {}
    Cli = {}
    None = none
    Levels = {"internal"}
    MaxDisturb = 0
    MayCancel = {}
    MayDependOn <- JoinOnly
INVARIANTS SafeConsumption
