SPECIFICATION TracedSpec
CONSTANTS
    t1 = t1  exe = exe  a1 = a1
    FirstPosition = 2
    LastPosition = 5
    Threads <- MCThreads
    Modules <- MCModules
    MainThread = t1
    MainModule = exe
    ThreadsAt <- MCThreadsAt
    ModulesAt <- MCModulesAt
    ActiveThread <- MCActiveThread
    Addresses <- MCAddresses
    ProgramCounter <- MCProgramCounter
    HitsAt <- MCHitsAt
    NThreads = 3
    TTD_STEP = 2
    UserCancels = TRUE
    f = f
    Functions <- MCFunctions
    NoFunction = NoFunction
    InvalidBitness = {}
    Invocations <- MCInvocations
    Recorders = {r1, r2}
INVARIANTS TypeOK RunIsComplete CursorRestored EveryCallRecorded RefreshedShowsRun
PROPERTIES FullRunEnds RunIsShown
CHECK_DEADLOCK FALSE
