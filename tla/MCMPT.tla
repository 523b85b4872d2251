--------------------------------- MODULE MCMPT ---------------------------------
(* Small instances of MPT for TLC: two nibbles, keys of whole bytes.           *)
EXTENDS MPTContents

CONSTANTS
    short,   \* a value whose leaf is inlined
    long     \* one whose leaf is not

MCNibble == {0, 1}
MCValueSize == (short :> 1) @@ (long :> 40) @@ (NoValue :> 0)

\* The empty key, keys of one and two bytes, prefixes of others among them.
MCKeys == {<<>>, <<0, 0>>, <<0, 1>>, <<1, 0>>, <<0, 0, 0, 0>>, <<0, 0, 0, 1>>}

\* Keys of one length: none is a prefix of another.
FixedKeys == {<<0, 0, 0, 0>>, <<0, 0, 0, 1>>, <<0, 1, 0, 0>>, <<1, 0, 0, 1>>}

\* The empty key, a prefix of others, and keys that split an extension in two ways.
MapKeys == {<<>>, <<0, 0>>, <<0, 0, 0, 0>>, <<0, 0, 0, 1>>, <<0, 1>>}

PrefixKeys == {<<0, 0>>, <<0, 0, 0, 0>>, <<0, 0, 1, 0>>}

\* No two nodes share a hash.
PerfectHash(n) == n

\* With PerfectHash a reference determines the nodes below it, so two states
\* that differ only in nodes no reference leads to behave alike.
WithoutStorage == <<root, pc, call, ref, path, stack, ret, outcome>>

================================================================================
