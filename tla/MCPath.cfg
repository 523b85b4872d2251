CONSTANTS
    Inputs <- MCInputs
    MaxSize = 4
SPECIFICATION Spec
INVARIANTS TypeOK EncodingIsCanonical
PROPERTIES IsNibbleSeq
