------------------------------- MODULE MCLoader -------------------------------
(* Small documents for Loader: what the schemas admit and what they do not,    *)
(* numbers at the limits of their fields, and replies of every wrong form.     *)
EXTENDS Loader

CONSTANTS a1, a2, code1, code2, other

\* ------------------------------------------------------------- JSON values
Str(form, num, of) == [is |-> "string", form |-> form, num |-> num, of |-> of]
Hex(of) == Str("hex", 0, of)
Key(of, num) == Str("hex", num, of)
Odd == Str("odd", 1, other)
Dec(n) == Str("decimal", n, other)
Bad == Str("other", 0, other)
Num(is, n) == [is |-> is, num |-> n]
Array(items) == [is |-> "array", items |-> items]
Object(at) == [is |-> "object", at |-> at]
Null == [is |-> "null"]

Stream(text) == [opens |-> TRUE, fails |-> FALSE, text |-> text]

\* Numbers at both sides of WordMax = 3 and WideMax = 5.
Decimals == {Dec(0), Dec(3), Dec(4)}
Wides == {Dec(5), Dec(6), Dec(8), Key(other, 5), Str("hex", 6, other), Str("", 0, other), Bad}

\* ------------------------------------------------------------- block files
Flags(names) == Array([i \in DOMAIN names |-> Str("other", 0, names[i])])
M1 == [flags |-> Flags(<<"Internal", "Deploy">>), from |-> Hex(a1), to |-> Str("HEX", 0, a2),
       feeCredit |-> Dec(2), value |-> Dec(1), data |-> Hex(code1)]
M2 == [M1 EXCEPT !.flags = Flags(<<>>), !.data = Str("HEX", 0, code2)]
M3 == [M1 EXCEPT !.from = Hex(a2), !.flags = Flags(<<"Refund", "Refund">>), !.value = Key(other, 5)]
BlockText(number, hash, price, ms) ==
    Object([number |-> number, parentHash |-> hash, gasPrice |-> price, messages |-> Array(ms)])
Good == Num("int64", 2)
Parent == Hex(<<1, 0>>)

BlockFiles ==
    {BlockText(n, Parent, Dec(1), <<Object(M1), Object(M2)>>) :
        n \in {Good, Num("int64", -1), Num("uint64", 9), Num("double", 0), Bad}}
    \cup {BlockText(Good, h, p, <<Object(M2), Object(M1)>>) : p \in Decimals,
        h \in {Hex(<<1>>), Hex(<<0, 1>>), Hex(<<1, 1, 1>>), Odd, Str("HEX", 0, <<1, 0>>)}}
    \cup {BlockText(Good, Parent, Dec(1), ms) : ms \in {<<>>, <<Object(M1), Object(M1)>>}}
    \cup {BlockText(Good, Parent, Dec(1), <<Object(M1), Object([M2 EXCEPT !.feeCredit = c, !.value = v])>>)
            : c \in {Dec(3), Dec(4), Bad}, v \in Wides}
    \cup {BlockText(Good, Parent, Dec(1), <<Object([M1 EXCEPT !.data = d, !.value = v]), Object(M2)>>)
            : d \in {Hex(code2), Odd}, v \in {Dec(5), Dec(8), Bad}}
    \cup {BlockText(Good, Parent, Dec(1), <<Object(M1), m>>) : m \in {Null,
            Object([M2 EXCEPT !.to = Odd]), Object([M2 EXCEPT !.flags = Flags(<<"Unknown">>)]),
            Object([k \in DOMAIN M2 \ {"value"} |-> M2[k]])}}
    \cup {BlockText(Good, Parent, p, <<Object(x), Object(y), Object(z)>>) : p \in Decimals,
            x, y, z \in {M1, M2, M3, [M1 EXCEPT !.value = Bad], [M2 EXCEPT !.data = Odd]}}
    \cup {Null, Object([result |-> Null])}

\* ------------------------------------------------------------- state files
Slot(k, v) == Object([Key |-> k, Val |-> v])
ContractText(a, b) == Hex([address |-> a, balance |-> b])
Entry(code, contract, storage) ==
    Object([code |-> code, contract |-> contract, proof |-> Hex(other), storage |-> storage])
E1 == Entry(Hex(code1), ContractText(a1, 1), Array(<<Slot(Key("1", 1), Dec(3)), Slot(Key("01", 1), Dec(4))>>))
E2 == Entry(Hex(code2), ContractText(a2, 0), Array(<<>>))
E3 == Entry(Hex(code2), ContractText(a1, 5), Array(<<Slot(Key("2", 2), Dec(0))>>))
E4 == Entry(Hex(code1), Hex(Null), Array(<<>>))
State(es) == Object([accounts |-> Array(es)])

StateFiles ==
    {State(es) : es \in {<<>>} \cup {<<x, y, z>> : x, y, z \in {E1, E2, E3, E4}}}
    \cup {State(<<E2, Entry(Hex(code1), ContractText(a1, 1), Array(<<Slot(Key("1", 1), v), Slot(k, Dec(1))>>))>>)
            : v \in Wides, k \in {Key("2", 2), Key("6", 6)}}
    \cup {State(<<E1, Entry(c, k, s)>>) : c \in {Hex(code1), Odd, Str("HEX", 0, code1)},
            k \in {ContractText(a2, 1), Odd, Hex(Null)},
            s \in {Array(<<>>), Null, Array(<<Object([Key |-> Key("1", 1)])>>)}}
    \cup {Null}

\* ------------------------------------------------------------- replies
RawBlock(b, ms) == Object([result |-> Object([content |-> b, inMessages |-> ms])])
B == Hex([id |-> 3, parent |-> <<0, 1>>, timestamp |-> 1, price |-> 5])
RawM == Hex([flags |-> {"Refund"}, from |-> a2, to |-> a1, credit |-> 4, value |-> 5,
             data |-> code1])

Replies ==
    {Null, Object([error |-> Null]), Object([result |-> Null]), Object([result |-> Object(<<>>)])}

RawBlocks ==
    Replies \cup {Object([result |-> Object([content |-> B])])}
    \cup {RawBlock(b, Array(<<RawM>>)) : b \in {B, Null, Odd, Hex(Null)}}
    \cup {RawBlock(B, m) : m \in {Null, Array(<<>>)}}
    \cup {RawBlock(B, Array(<<RawM, m>>)) : m \in {RawM, Null, Odd, Hex(Null)}}

RawAccount(c, k, s) == Object([result |-> Object([code |-> c, contract |-> k, storage |-> s])])

RawAccounts ==
    Replies \cup {Object([result |-> Object([code |-> Hex(code1)])]),
                  Object([result |-> Object([code |-> Hex(code1), contract |-> ContractText(a1, 1)])])}
    \cup {RawAccount(c, k, s) : c \in {Hex(code1), Str("", 0, other), Odd, Null},
            k \in {ContractText(a1, 1), Odd, Null, Hex(Null)},
            s \in {Array(<<>>), Null}}
    \cup {RawAccount(Hex(code1), ContractText(a2, 2), Array(<<Slot(Key("1", 1), Dec(1)), s>>)) :
            s \in {Null, Object([Key |-> Key("1", 1)]), Slot(Null, Dec(1)), Slot(Key("2", 2), Bad),
                   Slot(Dec(2), Key("3", 3)), Slot(Key("1", 1), Dec(2)),
                   Slot(Dec(8), Dec(1)), Slot(Key("2", 2), Dec(8))}}

MCJson == <<"{", "x", "y", "}">>

\* Less than a document, more, or another one; characters 0 in a chunk.
Texts == {<<>>, <<"{", "x", "y">>, MCJson, MCJson \o <<"}">>, MCJson \o <<"nul", "}">>,
          <<"{", "nul", "x", "y", "}">>, <<"{", "x", "nul", "}", "y", "}">>, <<"x">>}

Input(kind, stream_, doc_) == [kind |-> kind, stream |-> stream_, doc |-> doc_]

MCInputs ==
    {Input("block", Stream(MCJson), d) : d \in BlockFiles}
    \cup {Input("state", Stream(MCJson), d) : d \in StateFiles}
    \cup {Input("raw block", Stream(MCJson), d) : d \in RawBlocks}
    \cup {Input("raw account", Stream(MCJson), d) : d \in RawAccounts}
    \cup {Input("block", [Stream(t) EXCEPT !.opens = o, !.fails = f],
                BlockText(Good, Parent, Dec(1), <<Object(M1)>>))
            : t \in Texts, o \in BOOLEAN, f \in BOOLEAN}

================================================================================
