-------------------------------- MODULE Ranges --------------------------------
(*****************************************************************************)
(* Range and Ranges of output_artifacts: indices of rows and columns as they *)
(* are written in an option, kept as bounds, and applied to a table.  A text *)
(* is the sequence of what stands between its commas, each by its form.      *)
(*****************************************************************************)
EXTENDS Integers, Sequences, SequencesExt

CONSTANT IntMax    \* the greatest int

ASSUME IntMaxAssumption == IntMax \in Nat

\* ""  stands for nothing between two commas, "bad" for what no form matches.
Form == {"N", "N-", "-N", "N-M", "bad", ""}
Token == [form : Form, n : Nat, m : Nat]

\* The fields of a Range; the upper is optional: a sequence of at most one number.
Bounds == [lower : Nat, upper : Seq(Nat)]
BoundsList == Seq(Bounds)

NewLower(n) == [lower |-> n, upper |-> <<>>]
NewUpper(n) == [lower |-> 0, upper |-> <<n>>]

Value(v) == [kind |-> "value", value |-> v]
Unexpected == [kind |-> "error", value |-> <<>>]
Throws == [kind |-> "throws", value |-> <<>>]

\* stoi() throws out_of_range, whatever size_t the number then goes to.
TooBig(t) == t.n > IntMax \/ (t.form = "N-M" /\ t.m > IntMax)

\* Range::parse
ParseRange(t) ==
    IF t.form \in {"bad", ""} THEN Unexpected
    ELSE IF TooBig(t) THEN Throws
    ELSE IF t.form = "N" THEN Value([lower |-> t.n, upper |-> <<t.n>>])
    ELSE IF t.form = "N-" THEN Value(NewLower(t.n))
    ELSE IF t.form = "-N" THEN Value(NewUpper(t.n))
    ELSE IF t.m < t.n THEN Unexpected
    ELSE Value([lower |-> t.n, upper |-> <<t.m>>])

\* Takes the bound 0 for none.
RangeToStringWithoutUpper(r) ==
    IF r.upper = <<>> \/ r.upper = <<0>> THEN [form |-> "N-", n |-> r.lower, m |-> 0]
    ELSE IF r.upper[1] # r.lower THEN [form |-> "N-M", n |-> r.lower, m |-> r.upper[1]]
    ELSE [form |-> "N", n |-> r.lower, m |-> 0]

\* Range::to_string
RangeToString(r) ==
    IF r.upper = <<>> THEN [form |-> "N-", n |-> r.lower, m |-> 0]
    ELSE IF r.upper[1] # r.lower THEN [form |-> "N-M", n |-> r.lower, m |-> r.upper[1]]
    ELSE [form |-> "N", n |-> r.lower, m |-> 0]

\* A size_t that becomes an int.
ToInt(n) == IF n <= IntMax THEN n
            ELSE ((n + IntMax + 1) % (2 * (IntMax + 1))) - IntMax - 1

\* Compares with the number of what there is, not with the last index.
ConcreteRangeUpTo(r, max) ==
    LET upper == IF r.upper = <<>> THEN max ELSE ToInt(r.upper[1])
    IN  IF upper > max + 1 \/ upper < 0 \/ r.lower > upper THEN Unexpected
                                                          ELSE Value(<<r.lower, upper>>)

\* Refuses the last index.
ConcreteRangeBelow(r, max) ==
    LET upper == IF r.upper = <<>> THEN max ELSE ToInt(r.upper[1])
    IN  IF (r.upper # <<>> /\ upper >= max) \/ upper < 0 \/ r.lower > upper
        THEN Unexpected ELSE Value(<<r.lower, upper>>)

\* Range::concrete_range.  An absent bound takes max to size_t and back.
ConcreteRange(r, max) ==
    LET upper == IF r.upper = <<>> THEN max ELSE ToInt(r.upper[1])
    IN  IF upper > max \/ upper < 0 \/ r.lower > upper THEN Unexpected
                                                       ELSE Value(<<r.lower, upper>>)

\* The values of all results, or the first result that has none.
Collect(results) ==
    IF \A i \in DOMAIN results : results[i].kind = "value"
    THEN Value([i \in DOMAIN results |-> results[i].value])
    ELSE results[CHOOSE i \in DOMAIN results :
                    /\ results[i].kind # "value"
                    /\ \A j \in 1..(i - 1) : results[j].kind = "value"]

\* The tokens of getline() without the empty ones.
NonEmpty(text) ==
    LET kept[i \in 0..Len(text)] ==
            IF i = 0 THEN <<>>
            ELSE IF text[i].form = "" THEN kept[i - 1]
            ELSE Append(kept[i - 1], text[i])
    IN  kept[Len(text)]

\* Ranges::parse, to_string and concrete_ranges
ParseRanges(text) ==
    LET ts == NonEmpty(text) IN Collect([i \in DOMAIN ts |-> ParseRange(ts[i])])

RangesToString(rs) == [i \in DOMAIN rs |-> RangeToString(rs[i])]

ConcreteRanges(rs, max) == Collect([i \in DOMAIN rs |-> ConcreteRange(rs[i], max)])

===============================================================================
