SPECIFICATION Spec
CONSTANTS
    f = f  g = g  h = h
    Functions <- MCFunctions
    NoFunction = NoFunction
    InvalidBitness <- MCInvalidBitness
    Invocations <- MCInvocations
    Recorders = {r1, r2}
    OutsideSession = FALSE
    MaxEvents = 3
INVARIANTS TypeOK EventsSorted WindowsShowLists IndicesInRange 
PROPERTIES RemovedIsUntraced
