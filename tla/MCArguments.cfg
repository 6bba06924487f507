SPECIFICATION Spec
CONSTANTS
    Bitnesses <- MCBitnesses
    Types <- MCTypes
    MaxArgs = 5
INVARIANTS TypeOK CopyIsOfTheArgument ReadWherePassed NoPlaceTwice
CHECK_DEADLOCK FALSE
