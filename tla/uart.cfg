SPECIFICATION FairSpec
CONSTANTS
    console = console
    other = other
    Tasks = {console, other}
    reader = console
    N = 2
    MaxIn = 2
    MaxOut = 3
    Lens = {1, 2}
    Follow = {"tx"}
INVARIANTS TypeOK KeptOut Armed BytesInOrder
PROPERTIES TxDrains InputWakes
CHECK_DEADLOCK FALSE
