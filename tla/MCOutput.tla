------------------------------- MODULE MCOutput -------------------------------
(* Small instances of Output for TLC.                                          *)
EXTENDS Output

Tok(form, n, m) == [form |-> form, n |-> n, m |-> m]

\* Every form with numbers around the last index of the tables and the limit
\* of an int; texts of one part, and some of several.
Numbers == {0, 1, 2, 7, 8, IntMax, IntMax + 1}
MCTexts ==
    {<<Tok(f, n, 0)>> : f \in {"N", "N-", "-N", "bad"}, n \in Numbers}
    \cup {<<Tok("N-M", n, m)>> : n, m \in Numbers \ {2, IntMax}}
    \cup {<<Tok("-N", 0, 0), Tok("", 0, 0), Tok("N-", 1, 0)>>,
          <<Tok("N", 1, 0), Tok("bad", 0, 0)>>, <<Tok("", 0, 0)>>}

Column(type, t) == [type |-> type, text |-> t]

A == <<Tok("N-", 0, 0)>>

\* All texts for the rows, and for the witness columns; two options for columns,
\* of the same type or not; an unknown type, an empty text, an unknown table.
MCOptions ==
    {[tables |-> <<"bytecode">>, rows |-> t, columns |-> <<>>] : t \in MCTexts}
    \cup {[tables |-> <<"rw", "bytecode">>, rows |-> <<>>, columns |-> <<Column("witness", t)>>]
             : t \in MCTexts}
    \cup {[tables |-> <<"bytecode", "rw">>, rows |-> A,
           columns |-> <<Column("selector", A), Column(type, <<Tok("-N", 0, 0)>>)>>]
             : type \in ToSet(Kinds) \cup {"other"}}
    \cup {[tables |-> <<"copy">>, rows |-> <<>>, columns |-> <<>>],
          [tables |-> <<>>, rows |-> <<>>, columns |-> <<Column("constant", <<>>)>>],
          [tables |-> <<"other">>, rows |-> <<>>, columns |-> <<>>]}

\* Eight rows, which are doubled; columns of unequal sizes, and an empty kind;
\* no rows; a table whose padding does not fit the width; one whose cells do not.
B1 == << <<3, 8>>, <<1>>, <<5>>, <<0, 2>> >>
B2 == << <<9>>, <<>>, <<2, 1>>, <<1>> >>
B3 == << <<0, 0>>, <<0>>, <<>>, <<0>> >>
R1 == << <<1>>, <<>>, <<>>, <<1>> >>
R2 == << <<33>>, <<1>>, <<1>>, <<1>> >>
R3 == << <<17, 1>>, <<1>>, <<1>>, <<1>> >>

MCAssignments ==
    {"bytecode" :> B1, "bytecode" :> B3, <<>>,
     ("bytecode" :> B1) @@ ("rw" :> R1), ("bytecode" :> B2) @@ ("rw" :> R2),
     ("bytecode" :> B2) @@ ("rw" :> R3)}

================================================================================
