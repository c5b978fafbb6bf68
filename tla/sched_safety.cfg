SPECIFICATION Spec
CONSTANTS
    p1 = p1
    p2 = p2
    p3 = p3
    Procs = {p1, p2}
    Idle = idle
    BootOrder <- TwoProcs
    Completions = {c1}
    Events = {e1}
    QLen = 2
    TickMod = 4
    SleepTicks = {1}
    AlarmTicks = {1}
    Uses <- UsesMixed
INVARIANTS TypeOK OnlyCurActive BlockedDoesNotRun HandlerNotNested WaiterIsQueued
PROPERTY ImplementsCpuShare
