------------------------------- MODULE MCAssigner ------------------------------
(* Small instances of Assigner for TLC.                                        *)
EXTENDS Assigner, TLC

CONSTANTS a1, a2, empty, code1, code2, parent, other, absent

MCAddress == {a1, a2}
MCCode == {empty, code1, code2}
MCBlockHash == {parent, other}
MCSize == (empty :> 0) @@ (code1 :> 1) @@ (code2 :> 2)

\* An account without code, contracts that differ between blocks, and accounts
\* the node does not have.
MCCodeAt ==
    (parent :> ((a1 :> code1) @@ (a2 :> empty))) @@
    (other :> ((a1 :> code2) @@ (a2 :> absent)))

Call(to) == [to |-> to, flags |-> {"Internal"}]

MCContents ==
    {[price |-> p, messages |-> ms] : p \in {0, 1}, ms \in {
        <<>>,
        <<Call(a1), Call(a2), Call(a1)>>,
        <<[to |-> a2, flags |-> {"Deploy"}], Call(a1)>>,
        <<[to |-> a1, flags |-> {"Internal", "Deploy"}],
          [to |-> a1, flags |-> {"Refund"}],
          [to |-> a2, flags |-> {"Deploy"}]>>}}

Usual == [line |-> "good", curve |-> "pallas", circuits |-> <<>>, source |-> "rpc",
          state |-> "none", entries |-> <<>>, text |-> FALSE, tables |-> <<>>]

\* Everything the command line can say, one or two departures at a time.
MCOptions ==
    {[Usual EXCEPT !.source = s, !.state = f] :
        s \in {"rpc", "file", "unparented", "missing", "malformed", "directory"},
        f \in {"none", "missing", "malformed", "directory"}}
    \cup {[Usual EXCEPT !.source = s, !.state = "file", !.entries = es] :
        s \in {"rpc", "file"},
        es \in {<<>>, <<<<a1, code1>>, <<a2, code2>>, <<a1, code2>>>>}}
    \cup {[Usual EXCEPT !.curve = c, !.text = x, !.tables = t] :
        c \in {"pallas", "vesta", "ed25519", "bls12381"}, x \in BOOLEAN,
        t \in {<<>>, <<"bytecode">>, <<"other">>}}
    \cup {[Usual EXCEPT !.line = l] : l \in {"help", "wrong", "malformed"}}
    \cup {[Usual EXCEPT !.circuits = c, !.text = TRUE] :
        c \in {<<"bytecode">>, <<"other">>, <<"other", "bytecode">>}}

================================================================================
