SPECIFICATION MCSpec
CONSTANTS
    Digits = {1, 2, 3}
    NumPages = 4
    PagesPerBlock = 2
    Protected = {1}
    BadPages = {1}
    Unknown = Unknown
    Commands <- MCCommandSet
    MaxCommands = 3
    Weak <- MCWeak
    MaxFlips = 2
INVARIANTS TypeOK ReadsBack UsbTypeOK HubHears EnumeratedRight InitLeaves
PROPERTIES OnlyTarget CommandEnds InitEnds
CHECK_DEADLOCK FALSE
