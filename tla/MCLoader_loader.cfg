CONSTANTS
    a1 = a1  a2 = a2  code1 = code1  code2 = code2  other = other
    Json <- MCJson
    Nul = "nul"
    Chunk = 2
    Address = {a1, a2}
    Byte = {0, 1}
    HashSize = 2
    WordMax = 3
    WideMax = 5
    Inputs <- MCInputs
SPECIFICATION Spec
INVARIANTS TypeOK ValidFilesLoad LoadedIsDescribed
PROPERTIES LoadEnds
