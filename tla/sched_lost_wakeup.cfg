SPECIFICATION Spec
CONSTANTS
    p1 = p1
    p2 = p2
    p3 = p3
    Procs = {p1, p2}
    Idle = idle
    BootOrder <- TwoProcs
    Completions = {c1}
    Events = {}
    QLen = 2
    TickMod = 8
    SleepTicks = {}
    AlarmTicks = {2}
    Uses <- UsesWaitAlarm
INVARIANT SleepIsWaiting
