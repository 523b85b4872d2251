--------------------------------- MODULE MCPath --------------------------------
(* Small instances of Path for TLC.                                            *)
EXTENDS Path

\* Byte vectors that part in the low half, in the high half or not at all of a
\* byte, with nibbles that have the bit of kOddFlag in either half.
MCInputs == {<<16>>, <<17, 31>>}

================================================================================
