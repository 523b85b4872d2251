-------------------------------- MODULE NibbleSeq ------------------------------
(* What the trie takes a Path for: a sequence of nibbles.  Two of them, and    *)
(* what the operations of the class promise about them.                        *)
EXTENDS Integers, SequencesExt

CONSTANTS Inputs, MaxSize

VARIABLES lhs, rhs

vars == <<lhs, rhs>>

\* The nibbles of a byte vector, the high half of each byte first.
Halves(bytes) ==
    [i \in 1..2 * Len(bytes) |->
        LET byte == bytes[(i + 1) \div 2] IN
        IF i % 2 = 1 THEN byte \div 16 ELSE byte % 16]

Init == lhs = <<>> /\ rhs = <<>>

Make == \E bytes \in Inputs : lhs' = Halves(bytes) /\ UNCHANGED rhs

Swap == lhs' = rhs /\ rhs' = lhs

Consume == lhs = rhs \o lhs' /\ UNCHANGED rhs

ConsumeOne == lhs # <<>> /\ lhs' = Tail(lhs) /\ UNCHANGED rhs

\* The longest of the prefixes lhs and rhs have in common.
TakeCommonPrefix ==
    /\ IsPrefix(lhs', lhs) /\ IsPrefix(lhs', rhs)
    /\ Len(lhs') < Len(lhs) /\ Len(lhs') < Len(rhs) =>
          lhs[Len(lhs') + 1] # rhs[Len(lhs') + 1]
    /\ UNCHANGED rhs

Concatenate ==
    Len(lhs) + Len(rhs) <= MaxSize /\ lhs' = lhs \o rhs /\ UNCHANGED rhs

Next ==
    \/ Make \/ Swap \/ Consume \/ ConsumeOne
    \/ TakeCommonPrefix \/ Concatenate

Spec == Init /\ [][Next]_vars

================================================================================
