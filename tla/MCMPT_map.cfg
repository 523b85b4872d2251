CONSTANTS
    Nibble <- MCNibble
    Keys <- MapKeys
    Values = {short, long}
    short = short
    long = long
    NoValue = NoValue
    ValueSize <- MCValueSize
    Ops = {"get", "set"}
    Hash <- PerfectHash
SPECIFICATION LiveSpec
VIEW WithoutStorage
INVARIANTS HistoryIndependent
PROPERTIES IsMap
