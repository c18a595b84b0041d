SPECIFICATION Spec
CONSTANTS
    Bits = 8
    Map <- MCMap
    PmpCount = 2
    TlbSize = 2
    DtlbSize = 2
    MisalignedOk = TRUE
    BlockSize = 8
    HpmLimit = 2
    Sources = {1, 2}
    WordVpns <- MCWordVpns
    MaxBlocks = 1
    Interpreting <- MCInterpreting
    Running <- MCRunning
    Translating <- MCTranslating
    Granting <- MCGranting
    Entering <- MCEntering
    Machines <- MCMachines
INVARIANTS IrqNotMissed LinesTrue TablesHonest BlocksStillRight ReservationSound
CHECK_DEADLOCK FALSE
