SPECIFICATION TuiSpec
CONSTANTS
    Containers = {1, 2}
    NumCols = 2
    BodyH = 1
    DetailMax = 1
    NumCommands = 1
INVARIANT SortKeySorts
CHECK_DEADLOCK FALSE
