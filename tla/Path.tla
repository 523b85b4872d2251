---------------------------------- MODULE Path ---------------------------------
(* The class Path of NilCore (libs/nil_core/src/mpt/path.cpp): a sequence of   *)
(* nibbles kept as whole bytes and an offset of nibbles to skip, so that the   *)
(* same nibbles have several representations.  The registers lhs and rhs hold  *)
(* two Path objects; the actions are the operations of the class.  MPT takes   *)
(* paths for sequences of nibbles: NibbleSeq, which this module implements.    *)
EXTENDS Integers, FiniteSets, SequencesExt

CONSTANTS
    Inputs,   \* the byte vectors paths are made from
    MaxSize   \* bound on the number of nibbles of a concatenation

Nibble == 0..15
Byte == 0..255
OddFlag == 16   \* kOddFlag

ASSUME PathAssumption ==
    /\ Inputs \subseteq Seq(Byte)
    /\ MaxSize \in Nat

VARIABLES lhs, rhs

vars == <<lhs, rhs>>

--------------------------------------------------------------------------------
(* Representation.  Indices of nibbles start at 0, as in the code.             *)

NewPath(data, offset) == [data |-> data, offset |-> offset]

Size(p) == Len(p.data) * 2 - p.offset

\* operator[]: the high half of a byte comes first.
At(p, i) ==
    LET byte == p.data[(i + p.offset) \div 2 + 1] IN
    IF (i + p.offset) % 2 = 0 THEN byte \div 16 ELSE byte % 16

\* The nibbles a path stands for.
Nibbles(p) == [i \in 1..Size(p) |-> At(p, i - 1)]

\* One byte made of two nibbles.
Pack(hi, lo) == 16 * hi + lo

StartsWith(p, q) ==
    Size(q) <= Size(p) /\ \A i \in 0..Size(q) - 1 : At(p, i) = At(q, i)

ConsumeNibbles(p, amount) == [p EXCEPT !.offset = @ + amount]

\* Nibbles s as a new path: if they are odd, the first has a byte of its own, in
\* the low half of which the path starts; the others go in pairs.
Packed(s) ==
    LET odd == Len(s) % 2 IN
    NewPath([i \in 1..odd + Len(s) \div 2 |->
                IF i <= odd THEN s[1] ELSE Pack(s[2 * i - odd - 1], s[2 * i - odd])],
            odd)

\* ConstructFromPrefix
ConstructFromPrefix(p, length) == Packed([i \in 1..length |-> At(p, i - 1)])

\* The loop of CommonPrefix counts nibbles up to the first that differs.
CommonSize(p, q) ==
    Cardinality({n \in 1..Size(p) :
        n <= Size(q) /\ \A i \in 0..n - 1 : At(p, i) = At(q, i)})

CommonPrefix(p, q) == ConstructFromPrefix(p, CommonSize(p, q))

\* operator+
Concat(p, q) ==
    Packed([i \in 1..Size(p) + Size(q) |->
               IF i <= Size(p) THEN At(p, i - 1) ELSE At(q, i - Size(p) - 1)])

\* Mutant of Serialize: the flag of an odd size is forgotten.
SerializeUnflagged(p) ==
    LET odd == Size(p) % 2 IN
    [i \in 1..1 + Size(p) \div 2 |->
        IF i = 1 THEN IF odd = 1 THEN At(p, 0) ELSE 0
        ELSE Pack(At(p, 2 * (i - 2) + odd), At(p, 2 * (i - 2) + odd + 1))]

\* serialize: a byte with the flag of an odd size and, if it is odd, the first
\* nibble; then two nibbles in each byte.
Serialize(p) ==
    LET odd == Size(p) % 2 IN
    [i \in 1..1 + Size(p) \div 2 |->
        IF i = 1 THEN IF odd = 1 THEN OddFlag + At(p, 0) ELSE 0
        ELSE Pack(At(p, 2 * (i - 2) + odd), At(p, 2 * (i - 2) + odd + 1))]

\* Mutant of Deserialize: the prefix byte is taken for a nibble of an even path.
DeserializeKeepingPrefix(bytes) ==
    NewPath(bytes, IF (bytes[1] \div OddFlag) % 2 = 1 THEN 1 ELSE 0)

\* deserialize, into a new Path: the prefix byte stays and is skipped.
Deserialize(bytes) ==
    NewPath(bytes, IF (bytes[1] \div OddFlag) % 2 = 1 THEN 1 ELSE 2)

--------------------------------------------------------------------------------
(* The operations, as the handlers of the trie use them.                       *)

Init == lhs = NewPath(<<>>, 0) /\ rhs = NewPath(<<>>, 0)

\* A path is made from the bytes of a key.
Make == \E bytes \in Inputs : lhs' = NewPath(bytes, 0) /\ UNCHANGED rhs

\* The two objects change places.
Swap == lhs' = rhs /\ rhs' = lhs

\* Mutant of Consume: a path is not compared before it is consumed.
ConsumeUnchecked ==
    lhs' = ConsumeNibbles(lhs, Size(rhs)) /\ UNCHANGED rhs

\* Consume takes from a path only what it starts with.
Consume ==
    /\ StartsWith(lhs, rhs)
    /\ lhs' = ConsumeNibbles(lhs, Size(rhs))
    /\ UNCHANGED rhs

\* Or its first nibble, after at(0) found one.
ConsumeOne ==
    /\ Size(lhs) > 0
    /\ lhs' = ConsumeNibbles(lhs, 1)
    /\ UNCHANGED rhs

TakeCommonPrefix == lhs' = CommonPrefix(lhs, rhs) /\ UNCHANGED rhs

Concatenate ==
    /\ Size(lhs) + Size(rhs) <= MaxSize
    /\ lhs' = Concat(lhs, rhs)
    /\ UNCHANGED rhs

\* A path goes through the storage in a node.
Store == lhs' = Deserialize(Serialize(lhs)) /\ UNCHANGED rhs

Next ==
    \/ Make \/ Swap \/ Consume \/ ConsumeOne
    \/ TakeCommonPrefix \/ Concatenate \/ Store

Spec == Init /\ [][Next]_vars

--------------------------------------------------------------------------------

\* The data of a path are bytes and its offset is within them.
IsPath(p) ==
    p \in [data : Seq(Byte), offset : Nat] /\ p.offset <= 2 * Len(p.data)

TypeOK == IsPath(lhs) /\ IsPath(rhs)

\* operator==
Equal(p, q) ==
    Size(p) = Size(q) /\ \A i \in 0..Size(p) - 1 : At(p, i) = At(q, i)

\* What a path is serialised to depends on its nibbles alone, so that the same
\* node has one encoding, and one hash, however its path was computed.
EncodingIsCanonical ==
    Equal(lhs, rhs) <=> Serialize(lhs) = Serialize(rhs)

Abstract == INSTANCE NibbleSeq WITH lhs <- Nibbles(lhs), rhs <- Nibbles(rhs)

\* Whatever its bytes and offset, a path behaves as its nibbles do.
IsNibbleSeq == Abstract!Spec

================================================================================
