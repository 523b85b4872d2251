CONSTANTS
    Nibble <- MCNibble
    Keys <- PrefixKeys
    Values = {short, long}
    short = short
    long = long
    NoValue = NoValue
    ValueSize <- MCValueSize
    Ops = {"get", "set", "remove"}
    Hash <- PerfectHash
SPECIFICATION Spec
VIEW WithoutStorage
PROPERTIES ExistingStayAccessible
