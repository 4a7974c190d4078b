SPECIFICATION Spec
CONSTANTS
    MAX_TASKS = 32
    Boot = Boot
    NULL = NULL
    Main = Main
    Entry = Entry
    Stale = Stale
    KernelLocals = 1
    task1 = task1
    task2 = task2
    IRQs = {0, 1, 8}
    Timer = 0
    FirmwareMasks <- MCFirmwareMasks
INVARIANTS
    TypeOK
    MasksSurviveRemaps
    EnabledAfterRemap
    KernelInvariant
PROPERTIES
    AcceptedAsProgrammed
    TickEndsHalt
CHECK_DEADLOCK FALSE
