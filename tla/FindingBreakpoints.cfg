SPECIFICATION Spec
CONSTANTS
    t1 = t1  t2 = t2  t3 = t3
    exe = exe  dll = dll  lib = lib
    a1 = a1  a2 = a2  a3 = a3
    NoThread = NoThread
    NoModule = NoModule
    BADADDR = BADADDR
    FirstPosition = 2
    LastPosition = 5
    Threads <- MCThreads
    Modules <- MCModules
    MainThread = t1
    MainModule = exe
    ThreadsAt <- MCThreadsAt
    ModulesAt <- MCModulesAt
    ActiveThread <- MCActiveThread
    Addresses <- MCAddresses
    ProgramCounter <- MCProgramCounter
    HitsAt <- MCHitsAt
    Targets <- DllTarget
    SuspendOn <- OnStops
    BptTypes <- ExecOnly
    MaxBptRequest = 2
    MaxBacklog = 0
INVARIANT DeletedBreakpointsUnwatched
