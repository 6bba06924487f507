SPECIFICATION Spec
CONSTANTS
    Bitnesses = {"x64"}
    Types <- MCPointers
    MaxArgs = 5
INVARIANT ParametersExtracted
CHECK_DEADLOCK FALSE
