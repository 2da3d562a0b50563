\* Two slots: a thread that ends settles one that has not started.
SPECIFICATION Spec
CONSTANTS
    r1 = r1
    r2 = r2
    r3 = r3
    Run = {r1, r2, r3}
    CliRun = {}
    Poller = poller
    None = none
    Quota = 2
    MaxDisturb = 0
PROPERTIES SettleKeepsVerdict
