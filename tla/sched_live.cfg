SPECIFICATION FairSpec
CONSTANTS
    p1 = p1
    p2 = p2
    p3 = p3
    Procs = {p1, p2, p3}
    Idle = idle
    BootOrder <- ThreeProcs
    Completions = {}
    Events = {}
    QLen = 1
    TickMod = 6
    SleepTicks = {1}
    AlarmTicks = {2}
    Uses <- UsesTimed
PROPERTIES EveryoneRuns TimersExpire
