CONSTANTS
    a1 = a1  a2 = a2  empty = empty  code1 = code1  code2 = code2
    parent = parent  other = other  absent = absent
    Address <- MCAddress
    Code <- MCCode
    Empty <- empty
    Size <- MCSize
    BlockHash <- MCBlockHash
    Parent <- parent
    CodeAt <- MCCodeAt
    Absent <- absent
    Contents <- MCContents
    MaxGas = 2
    Options <- MCOptions
SPECIFICATION Spec
INVARIANTS TypeOK EvaluatesCodeBefore FilesAreComplete SuccessIsWritten
PROPERTIES FillNeverFails EffectsAreKept RunEnds
