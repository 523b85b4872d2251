CONSTANTS
    Nibble <- MCNibble
    Keys <- FixedKeys
    Values = {short, long}
    short = short
    long = long
    NoValue = NoValue
    ValueSize <- MCValueSize
    Ops = {"get", "set", "remove"}
    Hash <- PerfectHash
SPECIFICATION Spec
VIEW WithoutStorage
INVARIANTS RemovedIsGone
