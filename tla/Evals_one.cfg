\* One slot: three queued runs, two disturbances, under weak fairness.
SPECIFICATION FairSpec
CONSTANTS
    r1 = r1
    r2 = r2
    r3 = r3
    Run = {r1, r2, r3}
    CliRun = {}
    Poller = poller
    None = none
    Quota = 1
    MaxDisturb = 2
INVARIANTS ThreadsWithinQuota
PROPERTIES LedgerSpec RunsSettle
