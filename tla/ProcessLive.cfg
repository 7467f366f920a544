SPECIFICATION FairSpec
CONSTANTS
    Tasks = {1, 2, 3}
    InitTask = 1
    Codes = {7}
    Kinds = {"thread", "fork"}
    Makers = {1, 2, 3}
    Ignoring = {1}
    Blocking = TRUE
    ValveFires = TRUE
    NoTask = 0
CHECK_DEADLOCK FALSE
PROPERTIES GroupExitEnds
