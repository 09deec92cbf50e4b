SPECIFICATION FairSpec
CONSTANTS
    a = a
    b = b
    Idents = {a, b}
    MaxInit = 2
    MaxMsg = 3
    MaxRestart = 1
INVARIANTS PrintedInOrder NothingHeldBack
PROPERTY RecordsPrinted
CHECK_DEADLOCK FALSE
