CONSTANTS
    Nibble <- MCNibble
    Keys <- MCKeys
    Values = {short, long}
    short = short
    long = long
    NoValue = NoValue
    ValueSize <- MCValueSize
    Ops = {"get", "set", "remove"}
    Hash <- PerfectHash
SPECIFICATION LiveSpec
VIEW WithoutStorage
INVARIANTS TypeOK NodeFound GetReadsContents NoPhantomKeys
PROPERTIES EveryCallReturns SetIsExact RemoveSparesOthers RemoveThrowsCleanly RemoveIsExactOnCompressedTrie
