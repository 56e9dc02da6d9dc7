\* The check and then the start, with every file and every setting.
SPECIFICATION Spec
CONSTANTS
    Files <- MCFiles
    Known = {"a", "b"}
    Rates = {"p2p", "card"}
    Zones = {"here"}
    MaxMinutes = 4
    None = None
INVARIANTS TypeOK StartedCanRun CheckForetellsStart
CHECK_DEADLOCK FALSE
