\* Deadlock is not checked: mon stops for good when it has switched the power
\* off or has exited.
SPECIFICATION FairSpec
CHECK_DEADLOCK FALSE
CONSTANTS
    N = 3
    NumThread <- MCNumThread
    Deamon = {2}
    Checked = {2, 3}
    Present = {2, 3}
    ForkRetry = 1
    ChkCnt = 3
    ZombieMax = 2
    Tries = 2
    MaxProc = 2
    MaxCut = 2
INVARIANTS
    ShortWasFound
PROPERTIES
    ReforkOnlyDead
    DeadComesBack
