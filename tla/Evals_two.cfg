\* Two slots: two queued runs next to a CLI run, two disturbances.
SPECIFICATION Spec
CONSTANTS
    r1 = r1
    r2 = r2
    r3 = r3
    c = c
    Run = {r1, r2, r3, c}
    CliRun = {c}
    Poller = poller
    None = none
    Quota = 2
    MaxDisturb = 2
SYMMETRY Interchangeable
INVARIANTS QuotaHolds ZombieIsTracked
