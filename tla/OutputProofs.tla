------------------------------ MODULE OutputProofs ------------------------------
(*****************************************************************************)
(* The artifacts and the binary files of Output, for every width of size_t,  *)
(* every limit of an int, and all options and tables that obey the           *)
(* assumptions of that module, in three parts.                               *)
(*                                                                           *)
(*   - Ranges: parsed, printed and applied to a table a range stands for the *)
(*     indices its text names, or is refused because there is no such one.   *)
(*   - OutputInv, the invariant that ties where the program is in its loops  *)
(*     over tables, kinds and ranges to the cells it has printed: what comes *)
(*     out is what was asked for, and only an index outside is refused.      *)
(*   - FilesInv, what a file holds after each write: a header, the sections  *)
(*     that are complete and the part of the one in progress, each where its *)
(*     start says. Read back without assignments it gives the table.         *)
(*                                                                           *)
(* What the recursive functions of Ranges and Output return is shown with    *)
(* the lemmas of Recursion.                                                  *)
(*****************************************************************************)
EXTENDS Output, Recursion, FiniteSetTheorems, TLAPS

\* The last index of something that an int can count; -1 if it is empty.
LastIndex == {n \in Int : -1 <= n /\ n <= IntMax}

(* Up to the greatest int, size_t and int are the same.                        *)
LEMMA ToIntKeeps == ASSUME NEW n \in Nat, n <= IntMax PROVE ToInt(n) = n
  BY DEF ToInt

(* The four forms that parse() accepts, with what it makes of them.            *)
LEMMA ParseRangeValues ==
    ASSUME NEW t \in Token, ParseRange(t).kind = "value"
    PROVE  LET r == ParseRange(t).value IN
           /\ t.n \in 0..IntMax
           /\ \/ t.form = "N" /\ r = [lower |-> t.n, upper |-> <<t.n>>]
              \/ t.form = "N-" /\ r = [lower |-> t.n, upper |-> <<>>]
              \/ t.form = "-N" /\ r = [lower |-> 0, upper |-> <<t.n>>]
              \/ /\ t.form = "N-M" /\ r = [lower |-> t.n, upper |-> <<t.m>>]
                 /\ t.m \in 0..IntMax /\ t.n <= t.m
<1>1. t.n \in Nat /\ t.m \in Nat /\ t.form \in Form
  BY DEF Token
<1>2. t.form \notin {"bad", ""} /\ ~ TooBig(t)
  BY DEF ParseRange, Unexpected, Throws
<1>3. t.n \in 0..IntMax /\ (t.form = "N-M" => t.m \in 0..IntMax)
  <2>1. ~ (t.n > IntMax) /\ (t.form = "N-M" => ~ (t.m > IntMax))
    BY <1>2 DEF TooBig
  <2>2. \A k \in Nat : ~ (k > IntMax) => k \in 0..IntMax
    BY IntMaxAssumption
  <2> QED BY <1>1, <2>1, <2>2
<1>4. CASE t.form = "N"
  BY <1>2, <1>3, <1>4 DEF ParseRange, Value
<1>5. CASE t.form = "N-"
  BY <1>2, <1>3, <1>5 DEF ParseRange, Value, NewLower
<1>6. CASE t.form = "-N"
  BY <1>2, <1>3, <1>6 DEF ParseRange, Value, NewUpper
<1>7. CASE t.form = "N-M"
  <2>1. ~ (t.m < t.n)
    BY <1>2, <1>7 DEF ParseRange, Unexpected
  <2>2. t.n <= t.m
    BY <1>1, <2>1
  <2> QED BY <1>2, <1>3, <1>7, <2>1, <2>2 DEF ParseRange, Value
<1> QED BY <1>1, <1>2, <1>4, <1>5, <1>6, <1>7 DEF Form

--------------------------------------------------------------------------------

(* A Range that was parsed is printed as a text that parses to it again:       *)
(* Range::to_string() and Range::parse(), with the bounds 0 and INT_MAX, equal *)
(* bounds and absent ones.                                                     *)
THEOREM RangeReadsBack ==
    ASSUME NEW t \in Token, ParseRange(t).kind = "value"
    PROVE  ParseRange(RangeToString(ParseRange(t).value)) = ParseRange(t)
<1> DEFINE r == ParseRange(t).value
<1>1. /\ t.n \in Nat /\ t.n <= IntMax
      /\ \/ t.form = "N" /\ r = [lower |-> t.n, upper |-> <<t.n>>]
         \/ t.form = "N-" /\ r = [lower |-> t.n, upper |-> <<>>]
         \/ t.form = "-N" /\ r = [lower |-> 0, upper |-> <<t.n>>]
         \/ /\ t.form = "N-M" /\ r = [lower |-> t.n, upper |-> <<t.m>>]
            /\ t.m \in Nat /\ t.m <= IntMax /\ t.n <= t.m
  BY ParseRangeValues, IntMaxAssumption
<1>2. ParseRange(t) = Value(r)
  BY DEF ParseRange, Value, Unexpected, Throws
<1> HIDE DEF r
<1>3. ASSUME NEW l \in Nat, NEW u \in Nat, l <= u, u <= IntMax,
             r = [lower |-> l, upper |-> <<u>>]
      PROVE  ParseRange(RangeToString(r)) = Value(r)
  <2>1. l <= IntMax /\ ~ (l > IntMax) /\ ~ (u > IntMax) /\ ~ (u < l)
    BY <1>3, IntMaxAssumption
  <2>2. CASE u = l
    <3>1. RangeToString(r) = [form |-> "N", n |-> l, m |-> 0]
      BY <1>3, <2>2 DEF RangeToString
    <3> DEFINE x == [form |-> "N", n |-> l, m |-> 0]
    <3>2. x.form = "N" /\ x.n = l
      OBVIOUS
    <3> HIDE DEF x
    <3>3. ~ TooBig(x)
      BY <2>1, <3>2 DEF TooBig
    <3>4. ParseRange(x) = Value([lower |-> l, upper |-> <<l>>])
      BY <3>2, <3>3 DEF ParseRange
    <3> QED BY <1>3, <2>2, <3>1, <3>4 DEF x
  <2>3. CASE u # l
    <3>1. RangeToString(r) = [form |-> "N-M", n |-> l, m |-> u]
      BY <1>3, <2>3 DEF RangeToString
    <3> DEFINE x == [form |-> "N-M", n |-> l, m |-> u]
    <3>2. x.form = "N-M" /\ x.n = l /\ x.m = u
      OBVIOUS
    <3> HIDE DEF x
    <3>3. ~ TooBig(x)
      BY <2>1, <3>2 DEF TooBig
    <3>4. ParseRange(x) = Value([lower |-> l, upper |-> <<u>>])
      BY <2>1, <3>2, <3>3 DEF ParseRange
    <3> QED BY <1>3, <3>1, <3>4 DEF x
  <2> QED BY <2>2, <2>3
<1>4. ASSUME r = [lower |-> t.n, upper |-> <<>>]
      PROVE  ParseRange(RangeToString(r)) = Value(r)
  <2>1. RangeToString(r) = [form |-> "N-", n |-> t.n, m |-> 0]
    BY <1>4 DEF RangeToString
  <2>2. ~ (t.n > IntMax)
    BY <1>1, IntMaxAssumption
  <2> DEFINE x == [form |-> "N-", n |-> t.n, m |-> 0]
  <2>3. x.form = "N-" /\ x.n = t.n
    OBVIOUS
  <2> HIDE DEF x
  <2>4. ~ TooBig(x)
    BY <2>2, <2>3 DEF TooBig
  <2>5. ParseRange(x) = Value([lower |-> t.n, upper |-> <<>>])
    BY <2>3, <2>4 DEF ParseRange, NewLower
  <2> QED BY <1>4, <2>1, <2>5 DEF x
<1>5. 0 \in Nat /\ t.n <= t.n /\ 0 <= t.n
  BY <1>1
<1>6. ParseRange(RangeToString(r)) = Value(r)
  BY <1>1, <1>3, <1>4, <1>5
<1> QED BY <1>2, <1>6 DEF r

(* Applied to what has the indices 0..max, a Range stands for the indices that *)
(* its text selects, no more and no less: Range::parse() followed by           *)
(* Range::concrete_range(), through size_t and back to int.                    *)
THEOREM ConcreteIsSelected ==
    ASSUME NEW t \in Token, ParseRange(t).kind = "value", NEW max \in LastIndex,
           ConcreteRange(ParseRange(t).value, max).kind = "value"
    PROVE  LET cr == ConcreteRange(ParseRange(t).value, max).value
           IN  cr[1]..cr[2] = {i \in 0..max : Selects(t, i)}
<1> DEFINE r == ParseRange(t).value
           upper == IF r.upper = <<>> THEN max ELSE ToInt(r.upper[1])
<1>1. /\ t.n \in Nat /\ t.n <= IntMax
      /\ \/ t.form = "N" /\ r = [lower |-> t.n, upper |-> <<t.n>>]
         \/ t.form = "N-" /\ r = [lower |-> t.n, upper |-> <<>>]
         \/ t.form = "-N" /\ r = [lower |-> 0, upper |-> <<t.n>>]
         \/ /\ t.form = "N-M" /\ r = [lower |-> t.n, upper |-> <<t.m>>]
            /\ t.m \in Nat /\ t.m <= IntMax /\ t.n <= t.m
  BY ParseRangeValues, IntMaxAssumption
<1>2. max \in Int /\ -1 <= max /\ max <= IntMax
  BY DEF LastIndex
<1>3. /\ ~ (upper > max \/ upper < 0 \/ r.lower > upper)
      /\ ConcreteRange(r, max) = Value(<<r.lower, upper>>)
  BY DEF ConcreteRange, Value, Unexpected
<1> HIDE DEF r
<1>4. CASE t.form = "N-"
  <2>1. r.lower = t.n /\ upper = max
    BY <1>1, <1>4
  <2>2. t.n..max = {i \in 0..max : i >= t.n}
    BY <1>1, <1>2
  <2>3. \A i \in 0..max : Selects(t, i) <=> i >= t.n
    BY <1>4 DEF Selects
  <2> QED BY <1>3, <2>1, <2>2, <2>3 DEF Value, r
<1>5. ASSUME NEW l \in Nat, NEW u \in Nat, u <= IntMax, r = [lower |-> l, upper |-> <<u>>]
      PROVE  /\ ConcreteRange(r, max) = Value(<<l, u>>)
             /\ l..u = {i \in 0..max : i >= l /\ i <= u}
  <2>1. r.lower = l /\ upper = u
    BY <1>5, ToIntKeeps
  <2>2. u <= max
    BY <1>2, <1>3, <2>1
  <2> QED BY <1>2, <1>3, <2>1, <2>2
<1>6. CASE t.form = "N"
  <2>1. ConcreteRange(r, max) = Value(<<t.n, t.n>>)
        /\ t.n..t.n = {i \in 0..max : i >= t.n /\ i <= t.n}
    BY <1>1, <1>5, <1>6
  <2>2. \A i \in 0..max : Selects(t, i) <=> i >= t.n /\ i <= t.n
    BY <1>1, <1>6 DEF Selects
  <2> QED BY <2>1, <2>2 DEF Value, r
<1>7. CASE t.form = "-N"
  <2>1. ConcreteRange(r, max) = Value(<<0, t.n>>)
        /\ 0..t.n = {i \in 0..max : i >= 0 /\ i <= t.n}
    BY <1>1, <1>5, <1>7
  <2>2. \A i \in 0..max : Selects(t, i) <=> i >= 0 /\ i <= t.n
    BY <1>1, <1>7 DEF Selects
  <2> QED BY <2>1, <2>2 DEF Value, r
<1>8. CASE t.form = "N-M"
  <2>1. ConcreteRange(r, max) = Value(<<t.n, t.m>>)
        /\ t.n..t.m = {i \in 0..max : i >= t.n /\ i <= t.m}
    BY <1>1, <1>5, <1>8
  <2>2. \A i \in 0..max : Selects(t, i) <=> i >= t.n /\ i <= t.m
    BY <1>8 DEF Selects
  <2> QED BY <2>1, <2>2 DEF Value, r
<1> QED BY <1>1, <1>4, <1>6, <1>7, <1>8

(* A Range is refused only where its text names an index that is not there,    *)
(* and never applied with less than it names: no conversion lets one through   *)
(* or turns one away.                                                          *)
THEOREM RefusedMeansOutside ==
    ASSUME NEW t \in Token, ParseRange(t).kind = "value", NEW max \in LastIndex
    PROVE  /\ ConcreteRange(ParseRange(t).value, max).kind \in {"value", "error"}
           /\ ConcreteRange(ParseRange(t).value, max).kind = "error"
              <=> Misses(<<t>>, max + 1)
<1> DEFINE r == ParseRange(t).value
           upper == IF r.upper = <<>> THEN max ELSE ToInt(r.upper[1])
<1>1. /\ t.n \in Nat /\ t.n <= IntMax
      /\ \/ t.form = "N" /\ r = [lower |-> t.n, upper |-> <<t.n>>]
         \/ t.form = "N-" /\ r = [lower |-> t.n, upper |-> <<>>]
         \/ t.form = "-N" /\ r = [lower |-> 0, upper |-> <<t.n>>]
         \/ /\ t.form = "N-M" /\ r = [lower |-> t.n, upper |-> <<t.m>>]
            /\ t.m \in Nat /\ t.m <= IntMax /\ t.n <= t.m
  BY ParseRangeValues, IntMaxAssumption
<1>2. max \in Int /\ -1 <= max /\ max <= IntMax
  BY DEF LastIndex
<1>3. /\ ConcreteRange(r, max).kind \in {"value", "error"}
      /\ ConcreteRange(r, max).kind = "error"
         <=> (upper > max \/ upper < 0 \/ r.lower > upper)
  BY DEF ConcreteRange, Value, Unexpected
<1>4. ToSet(<<t>>) = {t}
  BY DEF ToSet
<1>5. Misses(<<t>>, max + 1) <=>
         \/ t.form # "" /\ t.n > max
         \/ t.form = "N-M" /\ t.m > max
  <2>1. t.n >= max + 1 <=> t.n > max
    BY <1>1, <1>2
  <2>2. t.form = "N-M" => (t.m >= max + 1 <=> t.m > max)
    BY <1>1, <1>2
  <2> QED BY <1>4, <2>1, <2>2 DEF Misses
<1> HIDE DEF r
<1>6. ASSUME NEW l \in Nat, NEW u \in Nat, u <= IntMax, r = [lower |-> l, upper |-> <<u>>]
       PROVE  r.lower = l /\ upper = u
  BY <1>6, ToIntKeeps
<1>7. CASE t.form = "N-"
  <2>1. r.lower = t.n /\ upper = max
    BY <1>1, <1>7
  <2>2. (max > max \/ max < 0 \/ t.n > max) <=> t.n > max
    BY <1>1, <1>2
  <2> QED BY <1>3, <1>5, <1>7, <2>1, <2>2 DEF r
<1>8. CASE t.form = "N"
  <2>1. r.lower = t.n /\ upper = t.n
    BY <1>1, <1>8, <1>6
  <2>2. (t.n > max \/ t.n < 0 \/ t.n > t.n) <=> t.n > max
    BY <1>1, <1>2
  <2> QED BY <1>3, <1>5, <1>8, <2>1, <2>2 DEF r
<1>9. CASE t.form = "-N"
  <2>1. r.lower = 0 /\ upper = t.n
    BY <1>1, <1>9, <1>6
  <2>2. (t.n > max \/ t.n < 0 \/ 0 > t.n) <=> t.n > max
    BY <1>1, <1>2
  <2> QED BY <1>3, <1>5, <1>9, <2>1, <2>2 DEF r
<1>10. CASE t.form = "N-M"
  <2>1. r.lower = t.n /\ upper = t.m
    BY <1>1, <1>10, <1>6
  <2>2. (t.m > max \/ t.m < 0 \/ t.n > t.m) <=> (t.n > max \/ t.m > max)
    BY <1>1, <1>2, <1>10
  <2> QED BY <1>3, <1>5, <1>10, <2>1, <2>2 DEF r
<1> QED BY <1>1, <1>7, <1>8, <1>9, <1>10

--------------------------------------------------------------------------------

(* The loop of Ranges::parse() over the parts of a text: what is kept so far.  *)
LEMMA KeptExists ==
    ASSUME NEW ts \in Seq(Token)
    PROVE  \E kept \in [0..Len(ts) -> Seq(Token)] :
              /\ kept[0] = <<>>
              /\ \A i \in 1..Len(ts) :
                    kept[i] = IF ts[i].form = "" THEN kept[i - 1]
                              ELSE Append(kept[i - 1], ts[i])
              /\ NonEmpty(ts) = kept[Len(ts)]
<1> DEFINE N == Len(ts)
           step == [k \in 1..N |-> [s \in Seq(Token) |->
                      IF ts[k].form = "" THEN s ELSE Append(s, ts[k])]]
<1>1. N \in Nat /\ <<>> \in Seq(Token) /\ \A k \in 1..N : ts[k] \in Token
  OBVIOUS
<1>2. step \in [1..N -> [Seq(Token) -> Seq(Token)]]
  <2>1. \A k \in 1..N : \A s \in Seq(Token) :
            (IF ts[k].form = "" THEN s ELSE Append(s, ts[k])) \in Seq(Token)
    <3> SUFFICES ASSUME NEW k \in 1..N, NEW s \in Seq(Token)
                 PROVE  Append(s, ts[k]) \in Seq(Token)
      OBVIOUS
    <3>1. ts[k] \in Token
      BY <1>1
    <3> QED BY <3>1
  <2> QED BY <2>1
<1>3. PICK g \in [0..N -> Seq(Token)] :
          g[0] = <<>> /\ \A k \in 1..N : g[k] = step[k][g[k - 1]]
  <2>1. StepsStay(step, Seq(Token), N)
    BY <1>2 DEF StepsStay
  <2>2. N \in Nat /\ <<>> \in Seq(Token)
    BY <1>1
  <2> HIDE DEF N, step
  <2>3. \E g : Iterates(g, step, <<>>, Seq(Token), N)
    BY <2>1, <2>2, RecursionUpTo
  <2> QED BY <2>3 DEF Iterates
<1>4. g = [i \in 0..N |-> IF i = 0 THEN <<>>
                           ELSE IF ts[i].form = "" THEN g[i - 1]
                           ELSE Append(g[i - 1], ts[i])]
  <2>1. ASSUME NEW i \in 0..N
        PROVE  g[i] = IF i = 0 THEN <<>>
                      ELSE IF ts[i].form = "" THEN g[i - 1]
                      ELSE Append(g[i - 1], ts[i])
    <3>1. CASE i = 0
      BY <1>3, <3>1
    <3>2. CASE i # 0
      <4>1. i \in 1..N /\ i - 1 \in 0..N
        BY <1>1, <3>2
      <4>2. g[i] = step[i][g[i - 1]] /\ g[i - 1] \in Seq(Token)
        BY <1>3, <3>2, <4>1
      <4> QED BY <3>2, <4>1, <4>2
    <3> QED BY <3>1, <3>2
  <2> QED BY <1>3, <2>1
<1> DEFINE kept == CHOOSE f : f = [i \in 0..N |-> IF i = 0 THEN <<>>
                                   ELSE IF ts[i].form = "" THEN f[i - 1]
                                   ELSE Append(f[i - 1], ts[i])]
<1>5. NonEmpty(ts) = kept[N]
  BY Zenon DEF NonEmpty
<1>6. kept = [i \in 0..N |-> IF i = 0 THEN <<>>
                              ELSE IF ts[i].form = "" THEN kept[i - 1]
                              ELSE Append(kept[i - 1], ts[i])]
  BY <1>4, Zenon
<1> HIDE DEF kept
<1>7. 0 \in 0..N
  BY <1>1
<1>8. kept \in [0..N -> Seq(Token)]
  <2>1. kept[0] = <<>> /\ DOMAIN kept = 0..N /\ kept = [i \in DOMAIN kept |-> kept[i]]
    BY <1>6, <1>7
  <2>2. \A i \in 1..N : kept[i] = IF ts[i].form = "" THEN kept[i - 1]
                                   ELSE Append(kept[i - 1], ts[i])
    <3>1. \A i \in 1..N : i # 0 /\ i \in 0..N
      OBVIOUS
    <3> QED BY <1>6, <3>1
  <2>3. \A i \in 1..N : kept[i - 1] \in Seq(Token) => kept[i] \in Seq(Token)
    <3> SUFFICES ASSUME NEW i \in 1..N, kept[i - 1] \in Seq(Token)
                 PROVE  kept[i] \in Seq(Token)
      OBVIOUS
    <3>1. ts[i] \in Token
      BY <1>1
    <3>2. Append(kept[i - 1], ts[i]) \in Seq(Token)
      BY <3>1
    <3> QED BY <2>2, <3>2
  <2> HIDE DEF N
  <2> QED BY <1>1, <2>1, <2>3, RecursionStays, Zenon
<1>9. \A i \in 1..N : i # 0 /\ i \in 0..N
  OBVIOUS
<1>10. kept[0] = <<>>
  BY <1>6, <1>7
<1>11. \A i \in 1..N : kept[i] = IF ts[i].form = "" THEN kept[i - 1]
                                 ELSE Append(kept[i - 1], ts[i])
  BY <1>6, <1>9
<1> QED BY <1>5, <1>8, <1>10, <1>11, Zenon

LEMMA ToSetEmpty == ToSet(<<>>) = {}
<1>1. DOMAIN <<>> = {}
  OBVIOUS
<1> QED BY <1>1, Zenon DEF ToSet

(* A part more in a text.                                                      *)
LEMMA ToSetAppend ==
    ASSUME NEW T, NEW s \in Seq(T), NEW x \in T
    PROVE  ToSet(Append(s, x)) = ToSet(s) \cup {x}
<1>1. /\ DOMAIN Append(s, x) = DOMAIN s \cup {Len(s) + 1}
      /\ Append(s, x)[Len(s) + 1] = x
      /\ \A i \in DOMAIN s : Append(s, x)[i] = s[i]
  OBVIOUS
<1> QED BY <1>1 DEF ToSet

(* What Ranges::parse() keeps are the parts that are not empty.                *)
LEMMA KeptParts ==
    ASSUME NEW ts \in Seq(Token)
    PROVE  /\ NonEmpty(ts) \in Seq(Token)
           /\ ToSet(NonEmpty(ts)) = {t \in ToSet(ts) : t.form # ""}
<1>1. PICK kept \in [0..Len(ts) -> Seq(Token)] :
              /\ kept[0] = <<>>
              /\ \A i \in 1..Len(ts) :
                    kept[i] = IF ts[i].form = "" THEN kept[i - 1]
                              ELSE Append(kept[i - 1], ts[i])
              /\ NonEmpty(ts) = kept[Len(ts)]
  BY KeptExists
<1> DEFINE N == Len(ts)
           Parts(n) == {ts[i] : i \in {j \in 1..n : ts[j].form # ""}}
           S == {n \in 0..N : ToSet(kept[n]) = Parts(n)}
<1>2. N \in Nat /\ \A k \in 1..N : ts[k] \in Token
  OBVIOUS
<1>3. 0 \in S
  <2>1. ToSet(kept[0]) = {}
    BY <1>1, ToSetEmpty
  <2>2. Parts(0) = {}
    <3>1. 1..0 = {}
      OBVIOUS
    <3> QED BY <3>1
  <2>3. 0 \in 0..N
    BY <1>2
  <2> QED BY <2>1, <2>2, <2>3
<1>4. ASSUME NEW n \in 0..(N - 1), n \in S PROVE n + 1 \in S
  <2>1. n + 1 \in 1..N /\ n + 1 \in 0..N /\ (n + 1) - 1 = n /\ n \in 0..N
    BY <1>2
  <2>2. kept[n + 1] = IF ts[n + 1].form = "" THEN kept[n] ELSE Append(kept[n], ts[n + 1])
    BY <1>1, <2>1
  <2>3. Parts(n + 1) = IF ts[n + 1].form = "" THEN Parts(n)
                                              ELSE Parts(n) \cup {ts[n + 1]}
    <3>1. 1..(n + 1) = 1..n \cup {n + 1}
      BY <2>1
    <3> QED BY <3>1
  <2>4. ToSet(Append(kept[n], ts[n + 1])) = ToSet(kept[n]) \cup {ts[n + 1]}
    <3>1. kept[n] \in Seq(Token) /\ ts[n + 1] \in Token
      BY <1>1, <1>2, <2>1
    <3> QED BY <3>1, ToSetAppend
  <2> HIDE DEF Parts
  <2> QED BY <1>4, <2>1, <2>2, <2>3, <2>4
<1>5. N \in S
  <2>1. N \in 0..N
    BY <1>2
  <2> HIDE DEF S, N
  <2> QED BY <1>2, <1>3, <1>4, <2>1, InductionUpTo
<1>6. Parts(N) = {t \in ToSet(ts) : t.form # ""}
  <2>1. DOMAIN ts = 1..N
    OBVIOUS
  <2> HIDE DEF N
  <2> QED BY <2>1 DEF ToSet
<1> QED BY <1>1, <1>5, <1>6

NothingEmpty(ts) == \A i \in DOMAIN ts : ts[i].form # ""

(* A text without empty parts is kept whole.                                   *)
LEMMA KeptWhole ==
    ASSUME NEW ts \in Seq(Token), NothingEmpty(ts)
    PROVE  NonEmpty(ts) = ts
<1>1. PICK kept \in [0..Len(ts) -> Seq(Token)] :
              /\ kept[0] = <<>>
              /\ \A i \in 1..Len(ts) :
                    kept[i] = IF ts[i].form = "" THEN kept[i - 1]
                              ELSE Append(kept[i - 1], ts[i])
              /\ NonEmpty(ts) = kept[Len(ts)]
  BY KeptExists
<1> DEFINE N == Len(ts)
           S == {n \in 0..N : Len(kept[n]) = n /\ \A j \in 1..n : kept[n][j] = ts[j]}
<1>2. N \in Nat /\ \A k \in 1..N : ts[k] \in Token
  OBVIOUS
<1>3. 0 \in S
  <2>1. Len(kept[0]) = 0 /\ 0 \in 0..N
    <3>1. kept[0] = <<>>
      BY <1>1
    <3>2. 0 \in 0..N
      BY <1>2
    <3>3. \A q : q = <<>> => Len(q) = 0
      OBVIOUS
    <3> QED BY <3>2, <3>1, <3>3
  <2>2. \A j \in 1..0 : kept[0][j] = ts[j]
    OBVIOUS
  <2> QED BY <2>1, <2>2
<1>4. ASSUME NEW n \in 0..(N - 1), n \in S PROVE n + 1 \in S
  <2>1. n + 1 \in 1..N /\ n + 1 \in 0..N /\ (n + 1) - 1 = n /\ n \in 0..N /\ n \in Nat
    BY <1>2
  <2>2. kept[n + 1] = Append(kept[n], ts[n + 1])
    <3>1. ts[n + 1].form # ""
      <4>1. n + 1 \in DOMAIN ts
        BY <2>1
      <4> QED BY <4>1, Zenon DEF NothingEmpty
    <3> QED BY <1>1, <2>1, <3>1
  <2>3. kept[n] \in Seq(Token) /\ ts[n + 1] \in Token
    BY <1>1, <1>2, <2>1
  <2>4. /\ Len(kept[n + 1]) = Len(kept[n]) + 1
        /\ kept[n + 1][Len(kept[n]) + 1] = ts[n + 1]
        /\ \A j \in 1..Len(kept[n]) : kept[n + 1][j] = kept[n][j]
    BY <2>2, <2>3
  <2>5. Len(kept[n]) = n /\ \A j \in 1..n : kept[n][j] = ts[j]
    BY <1>4
  <2>6. \A j \in 1..(n + 1) : j \in 1..n \/ j = n + 1
    BY <2>1
  <2> QED BY <2>1, <2>4, <2>5, <2>6
<1>5. N \in S
  <2>1. N \in 0..N
    BY <1>2
  <2> HIDE DEF S, N
  <2> QED BY <1>2, <1>3, <1>4, <2>1, InductionUpTo
<1>6. kept[N] \in Seq(Token) /\ Len(kept[N]) = N /\ \A j \in 1..N : kept[N][j] = ts[j]
  BY <1>1, <1>2, <1>5
<1>7. kept[N] = ts
  BY <1>2, <1>6
<1> QED BY <1>1, <1>7

(* A list of results has either all its values, or the first that is none.     *)
LEMMA CollectValues ==
    ASSUME NEW results, \A i \in DOMAIN results : results[i].kind = "value"
    PROVE  Collect(results) = Value([i \in DOMAIN results |-> results[i].value])
  BY Zenon DEF Collect

LEMMA CollectFails ==
    ASSUME NEW results, NEW n \in Nat, DOMAIN results = 1..n,
           NEW e \in 1..n, results[e].kind # "value"
    PROVE  \E i \in 1..n : results[i].kind # "value" /\ Collect(results) = results[i]
<1> DEFINE Bad == {i \in 1..n : results[i].kind # "value"}
           First(i) == /\ results[i].kind # "value"
                       /\ \A j \in 1..(i - 1) : results[j].kind = "value"
           first == CHOOSE i \in DOMAIN results : First(i)
<1>1. PICK i \in Bad : \A j \in Bad : i <= j
  <2>1. Bad \subseteq Nat /\ e \in Bad
    OBVIOUS
  <2> HIDE DEF Bad
  <2> QED BY <2>1, LeastExists
<1>2. i \in 1..n /\ \A j \in 1..(i - 1) : j \in 1..n /\ ~ (i <= j)
  OBVIOUS
<1>3. i \in DOMAIN results /\ First(i)
  BY <1>1, <1>2
<1>4. first \in DOMAIN results /\ First(first)
  <2> HIDE DEF First
  <2> QED BY <1>3, Zenon
<1>5. Collect(results) = results[first]
  <2>1. ~ \A k \in DOMAIN results : results[k].kind = "value"
    BY <1>4
  <2> QED BY <2>1, Zenon DEF Collect
<1> QED BY <1>4, <1>5

(* A part is accepted with bounds, refused, or makes stoi() throw.             *)
LEMMA ParseRangeKinds ==
    ASSUME NEW t \in Token
    PROVE  /\ ParseRange(t).kind \in {"value", "error", "throws"}
           /\ ParseRange(t).kind = "value" =>
                 /\ ParseRange(t) = Value(ParseRange(t).value)
                 /\ ParseRange(t).value \in Bounds
                 /\ t.form # ""
<1>1. t.n \in Nat /\ t.m \in Nat
  BY DEF Token
<1>2. \A v : Value(v).kind = "value" /\ Value(v) = Value(Value(v).value)
  BY DEF Value
<1>3. Unexpected.kind = "error" /\ Throws.kind = "throws"
  BY DEF Unexpected, Throws
<1>4. \/ ParseRange(t) \in {Unexpected, Throws}
      \/ \E v : ParseRange(t) = Value(v)
  BY DEF ParseRange
<1>5. ParseRange(t).kind = "value" => ParseRange(t).value \in Bounds /\ t.form # ""
  <2>1. SUFFICES ASSUME ParseRange(t).kind = "value"
                 PROVE  ParseRange(t).value \in Bounds /\ t.form # ""
    OBVIOUS
  <2>2. \A a \in Nat, b \in Nat : /\ [lower |-> a, upper |-> <<b>>] \in Bounds
                                /\ [lower |-> a, upper |-> <<>>] \in Bounds
    BY DEF Bounds
  <2> DEFINE r == ParseRange(t).value
  <2>3. \/ t.form = "N" /\ r = [lower |-> t.n, upper |-> <<t.n>>]
        \/ t.form = "N-" /\ r = [lower |-> t.n, upper |-> <<>>]
        \/ t.form = "-N" /\ r = [lower |-> 0, upper |-> <<t.n>>]
        \/ t.form = "N-M" /\ r = [lower |-> t.n, upper |-> <<t.m>>]
    BY <2>1, ParseRangeValues
  <2> HIDE DEF r
  <2>4. r \in Bounds /\ t.form # ""
    BY <1>1, <2>2, <2>3
  <2> QED BY <2>4 DEF r
<1> QED BY <1>2, <1>3, <1>4, <1>5

(* Ranges::parse() returns the ranges of the parts that are not empty, in      *)
(* their order, or no ranges at all.                                           *)
LEMMA ParsedRanges ==
    ASSUME NEW ts \in Seq(Token), ParseRanges(ts).kind = "value"
    PROVE  LET rs == ParseRanges(ts).value
               ks == NonEmpty(ts)
           IN  /\ ParseRanges(ts) = Value(rs)
               /\ ks \in Seq(Token) /\ rs \in BoundsList /\ Len(rs) = Len(ks)
               /\ \A i \in 1..Len(ks) : ParseRange(ks[i]) = Value(rs[i])
<1> DEFINE ks == NonEmpty(ts)
           n == Len(ks)
           results == [i \in DOMAIN ks |-> ParseRange(ks[i])]
           rs == [i \in DOMAIN ks |-> results[i].value]
<1>1. ks \in Seq(Token) /\ n \in Nat /\ DOMAIN ks = 1..n /\ \A i \in 1..n : ks[i] \in Token
  <2>1. ks \in Seq(Token)
    BY KeptParts
  <2> HIDE DEF ks
  <2> QED BY <2>1
<1>2. ParseRanges(ts) = Collect(results)
  BY DEF ParseRanges
<1>3. \A i \in 1..n : results[i].kind = "value"
  <2> SUFFICES ASSUME NEW e \in 1..n, results[e].kind # "value" PROVE FALSE
    OBVIOUS
  <2>1. DOMAIN results = 1..n
    BY <1>1
  <2> HIDE DEF results
  <2>2. PICK i \in 1..n : results[i].kind # "value" /\ Collect(results) = results[i]
    BY <1>1, <2>1, CollectFails
  <2> QED BY <1>2, <2>2
<1>4. Collect(results) = Value(rs)
  <2>1. DOMAIN results = DOMAIN ks /\ \A i \in DOMAIN results : results[i].kind = "value"
    BY <1>1, <1>3
  <2> QED BY <2>1, CollectValues
<1>5. \A i \in 1..n : ParseRange(ks[i]) = Value(rs[i]) /\ rs[i] \in Bounds
  BY <1>1, <1>3, ParseRangeKinds
<1>6. rs \in BoundsList /\ Len(rs) = n
  BY <1>1, <1>5 DEF BoundsList
<1>7. ParseRanges(ts).value = rs
  BY <1>2, <1>4 DEF Value
<1> QED BY <1>1, <1>2, <1>4, <1>5, <1>6, <1>7

(* A range that Range::parse() may give is printed as a part of a text.        *)
LEMMA PrintedPart ==
    ASSUME NEW r \in Bounds
    PROVE  RangeToString(r) \in Token
<1>1. r.lower \in Nat /\ r.upper \in Seq(Nat)
  BY DEF Bounds
<1>2. r.upper # <<>> => r.upper[1] \in Nat
  BY <1>1
<1> QED BY <1>1, <1>2 DEF RangeToString, Token, Form

(* The ranges of an option, printed and parsed again, are the same ranges.     *)
LEMMA ParsedReadsBack ==
    ASSUME NEW ts \in Seq(Token), NEW rs, ParseRanges(ts) = Value(rs)
    PROVE  ParseRanges(RangesToString(rs)) = Value(rs)
<1> DEFINE ks == NonEmpty(ts)
           printed == RangesToString(rs)
           results == [i \in DOMAIN printed |-> ParseRange(printed[i])]
<1>1. /\ ks \in Seq(Token) /\ rs \in BoundsList /\ Len(rs) = Len(ks)
      /\ \A i \in 1..Len(ks) : ParseRange(ks[i]) = Value(rs[i])
  <2>1. ParseRanges(ts).kind = "value" /\ ParseRanges(ts).value = rs
    BY DEF Value
  <2> QED BY <2>1, ParsedRanges
<1> HIDE DEF ks
<1>2. Len(rs) \in Nat /\ DOMAIN rs = 1..Len(rs) /\ \A i \in 1..Len(rs) : rs[i] \in Bounds
  BY <1>1 DEF BoundsList
<1>3. DOMAIN printed = 1..Len(rs)
  BY <1>2 DEF RangesToString
<1>4. ASSUME NEW i \in 1..Len(rs)
      PROVE  /\ printed[i] \in Token /\ printed[i].form # ""
             /\ results[i] = Value(rs[i])
  <2>1. printed[i] = RangeToString(rs[i])
    BY <1>2 DEF RangesToString
  <2>2. printed[i] \in Token
    BY <1>2, <2>1, PrintedPart
  <2>3. ks[i] \in Token /\ ParseRange(ks[i]) = Value(rs[i])
    BY <1>1
  <2>4. ParseRange(ks[i]).kind = "value" /\ ParseRange(ks[i]).value = rs[i]
    BY <2>3 DEF Value
  <2>5. ParseRange(printed[i]) = Value(rs[i])
    BY <2>1, <2>3, <2>4, RangeReadsBack
  <2>6. results[i] = ParseRange(printed[i])
    BY <1>3
  <2> HIDE DEF printed, results
  <2>7. ParseRange(printed[i]).kind = "value"
    BY <2>5 DEF Value
  <2> QED BY <2>2, <2>5, <2>6, <2>7, ParseRangeKinds
<1>5. printed \in Seq(Token) /\ NothingEmpty(printed)
  <2>1. printed = [i \in 1..Len(rs) |-> printed[i]]
    BY <1>2, <1>3 DEF RangesToString
  <2> HIDE DEF printed
  <2>2. printed \in [1..Len(rs) -> Token]
    BY <1>4, <2>1
  <2>3. printed \in Seq(Token)
    BY <1>2, <2>2
  <2> QED BY <1>3, <1>4, <2>3, Zenon DEF NothingEmpty
<1>6. ParseRanges(printed) = Collect(results)
  <2>1. NonEmpty(printed) = printed
    BY <1>5, KeptWhole
  <2> HIDE DEF printed
  <2> QED BY <2>1 DEF ParseRanges
<1>7. Collect(results) = Value(rs)
  <2>1. DOMAIN results = 1..Len(rs) /\ \A i \in 1..Len(rs) : results[i] = Value(rs[i])
    BY <1>3, <1>4
  <2> HIDE DEF results
  <2>2. \A i \in 1..Len(rs) : results[i].kind = "value" /\ results[i].value = rs[i]
    BY <2>1 DEF Value
  <2>3. Collect(results) = Value([i \in DOMAIN results |-> results[i].value])
    BY <2>1, <2>2, CollectValues
  <2>4. [i \in DOMAIN results |-> results[i].value] = [i \in DOMAIN rs |-> rs[i]]
    BY <1>2, <2>1, <2>2
  <2>5. rs = [i \in DOMAIN rs |-> rs[i]]
    BY <1>1 DEF BoundsList
  <2> QED BY <2>3, <2>4, <2>5
<1> QED BY <1>6, <1>7

(* Whether a text names something outside depends on its parts that are not    *)
(* empty, and so does what it selects.                                         *)
LEMMA PartsDecide ==
    ASSUME NEW ts \in Seq(Token), NEW amount \in Nat
    PROVE  LET ks == NonEmpty(ts) IN
           /\ Misses(ts, amount) <=> \E i \in DOMAIN ks : Misses(<<ks[i]>>, amount)
           /\ \A x : (\E t \in ToSet(ts) : Selects(t, x))
                     <=> \E i \in DOMAIN ks : Selects(ks[i], x)
<1> DEFINE ks == NonEmpty(ts)
<1>1. {ks[i] : i \in DOMAIN ks} = {t \in ToSet(ts) : t.form # ""}
  BY KeptParts DEF ToSet
<1>2. \A t : ToSet(<<t>>) = {t}
  BY DEF ToSet
<1> HIDE DEF ks
<1> DEFINE Out(t) == \/ t.form # "" /\ t.n >= amount
                     \/ t.form = "N-M" /\ t.m >= amount
<1>3. \A t : Misses(<<t>>, amount) <=> Out(t)
  <2>1. \A q : Misses(q, amount) <=> \E t \in ToSet(q) : Out(t)
    BY Zenon DEF Misses
  <2> HIDE DEF Out
  <2> QED BY <1>2, <2>1
<1>4. Misses(ts, amount) <=> \E t \in ToSet(ts) : Out(t)
  BY Zenon DEF Misses
<1>5. \A t : Out(t) => t.form # ""
  OBVIOUS
<1>6. \A t : \A x : Selects(t, x) => t.form # ""
  BY DEF Selects
<1> HIDE DEF Out
<1>7. \A t : t \in {ks[i] : i \in DOMAIN ks} <=> t \in ToSet(ts) /\ t.form # ""
  BY <1>1
<1>8. Misses(ts, amount) <=> \E i \in DOMAIN ks : Misses(<<ks[i]>>, amount)
  BY <1>3, <1>4, <1>5, <1>7, Zenon
<1>9. \A x : (\E t \in ToSet(ts) : Selects(t, x)) <=> \E i \in DOMAIN ks : Selects(ks[i], x)
  BY <1>6, <1>7, Zenon
<1> QED BY <1>8, <1>9 DEF ks

(* Applied to what has amount rows or columns, the ranges of an option stand   *)
(* for those that its text selects, and are refused exactly if the text names  *)
(* one that is not there: the loops of Ranges::parse() and concrete_ranges().  *)
LEMMA AppliedRanges ==
    ASSUME NEW ts \in Seq(Token), NEW rs, ParseRanges(ts) = Value(rs),
           NEW amount \in 0..IntMax
    PROVE  LET c == Concrete(rs, amount) IN
           /\ c.kind = "value" => Covered(c.value) = Selected(ts, amount)
           /\ c.kind = "value" <=> ~ Misses(ts, amount)
<1> DEFINE ks == NonEmpty(ts)
           n == Len(ks)
           max == amount - 1
           results == [i \in DOMAIN rs |-> ConcreteRange(rs[i], max)]
<1>1. /\ ks \in Seq(Token) /\ rs \in BoundsList /\ Len(rs) = Len(ks)
      /\ \A i \in 1..Len(ks) : ParseRange(ks[i]) = Value(rs[i])
  <2>1. ParseRanges(ts).kind = "value" /\ ParseRanges(ts).value = rs
    BY DEF Value
  <2> QED BY <2>1, ParsedRanges
<1>2. /\ Misses(ts, amount) <=> \E i \in DOMAIN ks : Misses(<<ks[i]>>, amount)
      /\ \A x : (\E t \in ToSet(ts) : Selects(t, x))
                <=> \E i \in DOMAIN ks : Selects(ks[i], x)
  <2>1. amount \in Nat
    BY IntMaxAssumption
  <2> QED BY <2>1, PartsDecide
<1> HIDE DEF ks
<1>3. n \in Nat /\ DOMAIN ks = 1..n /\ DOMAIN rs = 1..n
  BY <1>1 DEF BoundsList
<1>4. ToInt(amount) - 1 = max /\ max \in LastIndex /\ max + 1 = amount
  <2>1. amount \in Nat /\ amount <= IntMax
    BY IntMaxAssumption
  <2>2. ToInt(amount) = amount
    BY <2>1, ToIntKeeps
  <2> QED BY <2>1, <2>2, IntMaxAssumption DEF LastIndex
<1>5. CASE rs = <<>>
  <2>1. DOMAIN ks = {}
    BY <1>1, <1>3, <1>5
  <2>2. Concrete(rs, amount).kind = "value" /\ Concrete(rs, amount).value = <<>>
    BY <1>5 DEF Concrete, Value
  <2>3. Covered(<<>>) = {}
    BY ToSetEmpty DEF Covered
  <2>4. Selected(ts, amount) = {}
    BY <1>2, <2>1 DEF Selected
  <2>5. ~ Misses(ts, amount)
    BY <1>2, <2>1
  <2> QED BY <2>2, <2>3, <2>4, <2>5
<1>6. CASE rs # <<>>
  <2>1. Concrete(rs, amount) = Collect(results)
    BY <1>4, <1>6 DEF Concrete, ConcreteRanges
  <2>2. ASSUME NEW i \in 1..n
        PROVE  /\ results[i].kind # "value" <=> Misses(<<ks[i]>>, amount)
               /\ results[i].kind = "value" =>
                    results[i].value[1]..results[i].value[2] = {x \in 0..max : Selects(ks[i], x)}
    <3>1. ks[i] \in Token /\ ParseRange(ks[i]).kind = "value" /\ ParseRange(ks[i]).value = rs[i]
      <4>1. ks[i] \in Token
        BY <1>1, <1>3
      <4>2. ParseRange(ks[i]) = Value(rs[i])
        BY <1>1
      <4> HIDE DEF n, results
      <4> QED BY <4>1, <4>2 DEF Value
    <3>2. results[i] = ConcreteRange(rs[i], max)
      BY <1>3
    <3> HIDE DEF results, max
    <3>3. /\ results[i].kind \in {"value", "error"}
          /\ results[i].kind = "error" <=> Misses(<<ks[i]>>, max + 1)
      BY <1>4, <3>1, <3>2, RefusedMeansOutside
    <3>4. results[i].kind = "value" =>
             results[i].value[1]..results[i].value[2] = {x \in 0..max : Selects(ks[i], x)}
      BY <1>4, <3>1, <3>2, ConcreteIsSelected
    <3> QED BY <1>4, <3>3, <3>4
  <2>3. DOMAIN results = 1..n
    BY <1>3
  <2> HIDE DEF results
  <2>4. CASE \E i \in 1..n : results[i].kind # "value"
    <3>1. PICK e \in 1..n : results[e].kind # "value"
      BY <2>4
    <3>2. Collect(results).kind # "value"
      BY <1>3, <2>3, <3>1, CollectFails
    <3>3. Misses(ts, amount)
      BY <1>2, <1>3, <2>2, <3>1
    <3> QED BY <2>1, <3>2, <3>3
  <2>5. CASE \A i \in 1..n : results[i].kind = "value"
    <3> DEFINE crs == [i \in DOMAIN results |-> results[i].value]
    <3>1. Collect(results) = Value(crs)
      BY <2>3, <2>5, CollectValues
    <3>2. ~ Misses(ts, amount)
      BY <1>2, <1>3, <2>2, <2>5
    <3>3. Covered(crs) = UNION {results[i].value[1]..results[i].value[2] : i \in 1..n}
      BY <2>3 DEF Covered, ToSet
    <3>4. \A x : x \in Covered(crs) <=> x \in Selected(ts, amount)
      <4>1. \A i \in 1..n : results[i].value[1]..results[i].value[2]
                                = {x \in 0..max : Selects(ks[i], x)}
        BY <2>2, <2>5
      <4>2. \A x : x \in Covered(crs)
                    <=> \E i \in 1..n : x \in {y \in 0..max : Selects(ks[i], y)}
        BY <3>3, <4>1
      <4>3. \A x : x \in Selected(ts, amount)
                    <=> x \in 0..max /\ \E i \in 1..n : Selects(ks[i], x)
        BY <1>2, <1>3 DEF Selected
      <4> QED BY <4>2, <4>3
    <3>5. Covered(crs) = Selected(ts, amount)
      BY <3>4
    <3> HIDE DEF crs
    <3>6. Collect(results).kind = "value" /\ Collect(results).value = crs
      BY <3>1 DEF Value
    <3> QED BY <2>1, <3>2, <3>5, <3>6
  <2> QED BY <2>4, <2>5
<1> QED BY <1>5, <1>6

--------------------------------------------------------------------------------

(* The powers of two up to that of the width: one, and then the double.        *)
LEMMA Pow2Values ==
    /\ Pow2 \in [0..Width -> Nat] /\ Pow2[0] = 1
    /\ \A n \in 1..Width : Pow2[n] = 2 * Pow2[n - 1]
<1> DEFINE step == [k \in 1..Width |-> [x \in Nat |-> 2 * x]]
<1>1. Width \in Nat /\ 1 \in Nat /\ 0 \in 0..Width
  BY OutputAssumption
<1>2. StepsStay(step, Nat, Width)
  <2>1. \A k \in 1..Width : \A x \in Nat : step[k][x] = 2 * x
    OBVIOUS
  <2>2. \A x \in Nat : 2 * x \in Nat
    OBVIOUS
  <2> HIDE DEF step
  <2> QED BY <2>1, <2>2 DEF StepsStay
<1>3. PICK g \in [0..Width -> Nat] :
          g[0] = 1 /\ \A k \in 1..Width : g[k] = step[k][g[k - 1]]
  <2> HIDE DEF step
  <2>1. \E g : Iterates(g, step, 1, Nat, Width)
    BY <1>1, <1>2, RecursionUpTo
  <2> QED BY <2>1 DEF Iterates
<1>4. g = [n \in 0..Width |-> IF n = 0 THEN 1 ELSE 2 * g[n - 1]]
  <2>1. ASSUME NEW n \in 0..Width PROVE g[n] = IF n = 0 THEN 1 ELSE 2 * g[n - 1]
    <3>1. CASE n = 0
      BY <1>3, <3>1
    <3>2. CASE n # 0
      <4>1. n \in 1..Width /\ n - 1 \in 0..Width
        BY <1>1, <3>2
      <4>2. g[n] = step[n][g[n - 1]] /\ g[n - 1] \in Nat
        BY <1>3, <4>1
      <4> QED BY <3>2, <4>1, <4>2
    <3> QED BY <3>1, <3>2
  <2> QED BY <1>3, <2>1
<1>5. Pow2 = [n \in 0..Width |-> IF n = 0 THEN 1 ELSE 2 * Pow2[n - 1]]
  BY <1>4, Zenon DEF Pow2
<1>6. Pow2[0] = 1
  BY <1>1, <1>5
<1>7. \A n \in 1..Width : Pow2[n] = 2 * Pow2[n - 1]
  <2>1. \A n \in 1..Width : n # 0 /\ n \in 0..Width
    BY <1>1
  <2> QED BY <1>5, <2>1
<1>8. Pow2 \in [0..Width -> Nat]
  <2>1. DOMAIN Pow2 = 0..Width /\ Pow2 = [n \in DOMAIN Pow2 |-> Pow2[n]]
    BY <1>5
  <2>2. \A n \in 1..Width : Pow2[n - 1] \in Nat => Pow2[n] \in Nat
    BY <1>7
  <2>3. Pow2[0] \in Nat
    BY <1>6
  <2> QED BY <1>1, <2>1, <2>2, <2>3, RecursionStays, Zenon
<1> QED BY <1>6, <1>7, <1>8

(* uint32_t holds the least padding.                                           *)
LEMMA Pow2Grows ==
    /\ Pow2[Width] \in Nat /\ Pow2[Width] >= 16
    /\ \A n \in 0..Width : Pow2[n] \in Nat /\ Pow2[n] >= 1 /\ Pow2[n] <= Pow2[Width]
<1>1. Width \in Nat /\ Width >= 4
  BY OutputAssumption
<1>2. /\ \A n \in 0..Width : Pow2[n] \in Nat
      /\ Pow2[0] = 1 /\ \A n \in 1..Width : Pow2[n] = 2 * Pow2[n - 1]
  BY Pow2Values
<1>3. Pow2[1] = 2 /\ Pow2[2] = 4 /\ Pow2[3] = 8 /\ Pow2[4] = 16
  <2>1. 1 \in 1..Width /\ 2 \in 1..Width /\ 3 \in 1..Width /\ 4 \in 1..Width
    BY <1>1
  <2>2. Pow2[1] = 2
    BY <1>2, <2>1
  <2>3. Pow2[2] = 4
    BY <1>2, <2>1, <2>2
  <2>4. Pow2[3] = 8
    BY <1>2, <2>1, <2>3
  <2> QED BY <1>2, <2>1, <2>2, <2>3, <2>4
<1> DEFINE S == {n \in 0..Width : /\ \A m \in 0..n : Pow2[m] >= 1 /\ Pow2[m] <= Pow2[n]
                                  /\ n >= 4 => Pow2[n] >= 16}
<1>4. 0 \in S
  BY <1>1, <1>2
<1>5. ASSUME NEW n \in 0..(Width - 1), n \in S PROVE n + 1 \in S
  <2>1. n + 1 \in 1..Width /\ n + 1 \in 0..Width /\ (n + 1) - 1 = n /\ n \in 0..Width /\ n \in 0..n
    BY <1>1
  <2>2. Pow2[n + 1] = 2 * Pow2[n] /\ Pow2[n] \in Nat
    BY <1>2, <2>1
  <2>3. Pow2[n] >= 1 /\ Pow2[n] <= Pow2[n + 1] /\ Pow2[n + 1] >= 1
    BY <1>5, <2>1, <2>2
  <2>4. ASSUME NEW m \in 0..(n + 1) PROVE Pow2[m] >= 1 /\ Pow2[m] <= Pow2[n + 1]
    <3>1. m \in 0..n \/ m = n + 1
      BY <2>1
    <3>2. CASE m \in 0..n
      <4>1. Pow2[m] >= 1 /\ Pow2[m] <= Pow2[n] /\ Pow2[m] \in Nat
        <5>1. m \in 0..Width
          BY <1>1, <3>2
        <5> QED BY <1>2, <1>5, <3>2, <5>1
      <4> QED BY <2>2, <2>3, <4>1
    <3> QED BY <2>2, <2>3, <3>1, <3>2
  <2>5. n + 1 >= 4 => Pow2[n + 1] >= 16
    <3>1. CASE n >= 4
      BY <1>5, <2>2, <3>1
    <3>2. CASE n = 3
      BY <1>3, <3>2
    <3> QED BY <2>1, <3>1, <3>2
  <2> QED BY <2>1, <2>4, <2>5
<1>6. Width \in S
  <2>1. Width \in 0..Width
    BY <1>1
  <2> HIDE DEF S
  <2> QED BY <1>1, <1>4, <1>5, <2>1, InductionUpTo
<1> QED BY <1>1, <1>2, <1>6

(* Max and Min of the library are those of the order.                          *)
LEMMA MaxOf ==
    ASSUME NEW B \in Nat, NEW S, S \subseteq 0..B, S # {}
    PROVE  Max(S) \in S /\ \A y \in S : y <= Max(S)
<1>1. S \subseteq Nat /\ \A y \in S : y <= B
  OBVIOUS
<1>2. PICK x \in S : \A y \in S : y <= x
  BY <1>1, GreatestExists
<1>3. \A y \in S : x >= y
  BY <1>1, <1>2
<1>4. Max(S) \in S /\ \A y \in S : Max(S) >= y
  BY <1>3, Zenon DEF Max
<1> QED BY <1>1, <1>4

LEMMA MinOf ==
    ASSUME NEW S, S \subseteq Nat, S # {}
    PROVE  Min(S) \in S /\ \A y \in S : Min(S) <= y
<1>1. PICK x \in S : \A y \in S : x <= y
  BY LeastExists
<1>2. Min(S) \in S /\ \A y \in S : Min(S) <= y
  BY <1>1, Zenon DEF Min
<1> QED BY <1>2

\* The sizes of a table that ints count.
Table == {t \in [1..4 -> Seq(0..IntMax)] : \A k \in 1..4 : Len(t[k]) <= IntMax}

LEMMA TablesAreTables ==
    ASSUME NEW a \in Assignments, NEW name \in DOMAIN a PROVE a[name] \in Table
  BY AssignmentsAssumption DEF Table

(* The rows in use are at most those of the longest column.                    *)
LEMMA Sizes ==
    ASSUME NEW t \in Table
    PROVE  /\ UsableRows(t) \in 0..IntMax
           /\ \A k \in 1..4 : Amount(t, k) \in 0..IntMax
<1>1. /\ \A k \in 1..4 : t[k] \in Seq(0..IntMax) /\ Len(t[k]) <= IntMax
      /\ IntMax \in Nat
  BY IntMaxAssumption DEF Table
<1>2. ASSUME NEW k \in 1..4 PROVE MaxSize(t[k]) \in 0..IntMax
  <2> DEFINE S == ToSet(t[k]) \cup {0}
  <2>1. S \subseteq 0..IntMax /\ S # {}
    BY <1>1 DEF ToSet
  <2> HIDE DEF S
  <2>2. Max(S) \in S
    BY <1>1, <2>1, MaxOf
  <2>3. Max(S) \in 0..IntMax
    BY <2>1, <2>2
  <2> QED BY <2>3 DEF MaxSize, S
<1>3. UsableRows(t) \in 0..IntMax
  <2> DEFINE S == {MaxSize(t[k]) : k \in 1..4}
  <2>1. S \subseteq 0..IntMax /\ S # {}
    BY <1>2
  <2> HIDE DEF S
  <2>2. Max(S) \in S
    BY <1>1, <2>1, MaxOf
  <2>3. Max(S) \in 0..IntMax
    BY <2>1, <2>2
  <2> QED BY <2>3 DEF UsableRows, S
<1>4. \A k \in 1..4 : Amount(t, k) \in 0..IntMax
  BY <1>1 DEF Amount
<1> QED BY <1>3, <1>4

(* The padding fits the width, whatever the conversions make of it.            *)
LEMMA PaddedFits ==
    ASSUME NEW n \in 0..IntMax
    PROVE  \A p \in PaddedRows(n) : p \in 0..(Pow2[Width] - 1)
<1> DEFINE W == Pow2[Width]
<1>1. W \in Nat /\ W >= 16 /\ IntMax \in Nat /\ IntMax < W /\ n \in Nat /\ n < W
  BY Pow2Grows, OutputAssumption, IntMaxAssumption
<1>2. \A p \in RoundedUp(n) : p \in 0..(W - 1)
  <2> DEFINE S == {Pow2[i] : i \in {j \in 0..Width : Pow2[j] >= n}}
             p == Min(S)
  <2>1. S \subseteq Nat
    BY Pow2Grows
  <2>2. W \in S
    <3>1. Width \in 0..Width /\ W >= n
      BY <1>1, OutputAssumption
    <3> QED BY <3>1
  <2>3. p \in Nat
    <3> HIDE DEF S
    <3> QED BY <2>1, <2>2, MinOf
  <2> HIDE DEF p, S, W
  <2>4. RoundedUp(n) = IF n = 0 THEN {0} ELSE IF p < W THEN {p} ELSE {0, W - 1}
    BY DEF RoundedUp, p, S, W
  <2> QED BY <1>1, <2>3, <2>4
<1> HIDE DEF W
<1>3. ASSUME NEW p \in 0..(W - 1)
      PROVE  Max({8, IF p = n THEN (2 * p) % W ELSE p}) \in 0..(W - 1)
  <2> DEFINE q == IF p = n THEN (2 * p) % W ELSE p
             S == {8, q}
  <2>1. q \in 0..(W - 1)
    BY <1>1
  <2>2. W - 1 \in Nat /\ 8 \in 0..(W - 1)
    BY <1>1
  <2> HIDE DEF q
  <2>3. S \subseteq 0..(W - 1) /\ S # {}
    BY <2>1, <2>2
  <2> HIDE DEF S
  <2>4. Max(S) \in S
    BY <2>2, <2>3, MaxOf
  <2> QED BY <2>3, <2>4 DEF S, q
<1>4. PaddedRows(n) = {Max({8, IF p = n THEN (2 * p) % W ELSE p}) : p \in RoundedUp(n)}
  BY DEF PaddedRows, W
<1> QED BY <1>2, <1>3, <1>4 DEF W

--------------------------------------------------------------------------------

\* The steps after the options.
Later == {"open", "header", "section", "column", "artifacts",
          "cannot open", "no table", "out of bounds", "done"}

Artifacts == [tables : Seq(STRING), rows : BoundsList, columns : [1..4 -> BoundsList]]

\* The types that TypeOK leaves open.
Typed ==
    /\ artifacts \in Artifacts
    /\ arg \in 1..(Len(vm.columns) + 1)
    /\ col \in (1..5) \X Nat \X (0..(Pow2[Width] - 1)) /\ (pc = "column" => col[1] <= 4)
    /\ exported \in Seq(ToSet(exported))
    /\ IsFiniteSet(completed)

\* What has been parsed, and what has not.
OptionsKept ==
    /\ pc \in {"rows", "columns"} \cup Later => artifacts.tables = vm.tables
    /\ \/ ParseRanges(vm.rows) = Value(artifacts.rows)
       \/ artifacts.rows = <<>> /\ pc \notin {"columns"} \cup Later
    /\ pc \in Later => arg = Len(vm.columns) + 1
    /\ pc \notin Later => exported = <<>>

Parsed(k) == {i \in 1..(arg - 1) : vm.columns[i].type = Kinds[k]}

\* The ranges of a kind of column are those of the option for it, if there is one.
ColumnsKept ==
    /\ \A i, j \in 1..(arg - 1) : vm.columns[i].type = vm.columns[j].type => i = j
    /\ \A k \in 1..4 :
          IF Parsed(k) = {} THEN artifacts.columns[k] = <<>>
          ELSE \A i \in Parsed(k) :
                  ParseRanges(vm.columns[i].text) = Value(artifacts.columns[k])

\* The invariant that the steps preserve.
OutputInv ==
    /\ TypeOK /\ Typed /\ OptionsKept /\ ColumnsKept
    /\ ExportIsAsked /\ RefusedOnlyOutside

ColumnOption == [type : STRING, text : Seq(Token)]

LEMMA OptionTypes ==
    ASSUME vm \in Options
    PROVE  /\ vm.tables \in Seq(STRING) /\ vm.rows \in Seq(Token)
           /\ vm.columns \in Seq(ColumnOption)
  BY OptionsAssumption DEF Option, ColumnOption

LEMMA NothingParsed == ParseRanges(<<>>) = Value(<<>>)
<1>1. <<>> \in Seq(Token) /\ NothingEmpty(<<>>)
  BY DEF NothingEmpty
<1>2. NonEmpty(<<>>) = <<>>
  BY <1>1, KeptWhole
<1>3. ParseRanges(<<>>) = Collect([i \in DOMAIN <<>> |-> ParseRange(<<>>[i])])
  BY <1>2 DEF ParseRanges
<1>4. [i \in DOMAIN <<>> |-> ParseRange(<<>>[i])] = <<>>
  OBVIOUS
<1>5. Collect(<<>>) = Value([i \in DOMAIN <<>> |-> <<>>[i].value])
  <2>1. \A i \in DOMAIN <<>> : <<>>[i].kind = "value"
    OBVIOUS
  <2> QED BY <2>1, CollectValues
<1>6. [i \in DOMAIN <<>> |-> <<>>[i].value] = <<>>
  OBVIOUS
<1> QED BY <1>3, <1>4, <1>5, <1>6

LEMMA InitOutputInv == Init => OutputInv
<1> SUFFICES ASSUME Init PROVE OutputInv
  OBVIOUS
<1>1. /\ vm \in Options /\ assignments \in Assignments /\ pc = "tables"
      /\ artifacts = NoArtifacts /\ completed = {} /\ arg = 1
      /\ queue = DOMAIN assignments /\ col = <<1, 0, 0>> /\ files = <<>>
      /\ full = FALSE /\ shown = 0 /\ exported = <<>>
  BY Zenon DEF Init
<1>2. 1..(arg - 1) = {}
  BY <1>1
<1> HIDE DEF Init
<1> USE <1>1
<1>3. /\ vm.columns \in Seq(ColumnOption) /\ Len(vm.columns) \in Nat
  BY OptionTypes
<1>4. artifacts \in Artifacts /\ artifacts.tables = <<>> /\ artifacts.rows = <<>>
      /\ \A k \in 1..4 : artifacts.columns[k] = <<>>
  BY DEF NoArtifacts, Artifacts, BoundsList
<1>5. Typed
  <2>1. arg \in 1..(Len(vm.columns) + 1)
    BY <1>2, <1>3
  <2>2. col \in (1..5) \X Nat \X (0..(Pow2[Width] - 1))
    BY Pow2Grows
  <2> QED BY <1>2, <1>4, <2>1, <2>2, FS_EmptySet, ToSetEmpty DEF Typed
<1>6. TypeOK
  <2>1. completed = {vm.columns[i].type : i \in 1..(arg - 1)} /\ Cardinality(completed) = arg - 1
    BY <1>2, FS_EmptySet
  <2>2. queue \cup DOMAIN files = DOMAIN assignments
    OBVIOUS
  <2>3. col[1] \in 1..5 /\ col[2] \in Nat /\ col[3] \in 0..Pow2[Width] - 1
    BY Pow2Grows
  <2>4. artifacts.rows \in BoundsList /\ \A k \in 1..4 : artifacts.columns[k] \in BoundsList
    <3>1. <<>> \in BoundsList
      BY DEF BoundsList
    <3> QED BY <1>4, <3>1
  <2>5. shown = Len(exported) /\ shown <= Len(artifacts.tables)
    BY <1>2, <1>4
  <2> QED BY <2>1, <2>2, <2>3, <2>4, <2>5 DEF TypeOK
<1>7. OptionsKept
  BY <1>2, <1>4 DEF OptionsKept, Later
<1>8. ColumnsKept
  BY <1>2, <1>4 DEF ColumnsKept, Parsed
<1>9. ExportIsAsked /\ RefusedOnlyOutside
  BY <1>2 DEF ExportIsAsked, RefusedOnlyOutside
<1> QED BY <1>5, <1>6, <1>7, <1>8, <1>9 DEF OutputInv

(* What is exported stays as it was asked while the options and the tables do. *)
LEMMA ExportsStay ==
    ASSUME ExportIsAsked, RefusedOnlyOutside, UNCHANGED <<vm, assignments, exported, shown>>,
           pc' = "out of bounds" => pc = "out of bounds"
    PROVE  ExportIsAsked' /\ RefusedOnlyOutside'
<1>1. ExportIsAsked'
  BY DEF ExportIsAsked
<1>2. RefusedOnlyOutside'
  BY DEF RefusedOnlyOutside
<1> QED BY <1>1, <1>2

(* The steps after the options leave what was parsed.                          *)
LEMMA OptionsStay ==
    ASSUME OptionsKept, ColumnsKept, UNCHANGED <<vm, artifacts, arg, exported>>, pc \in Later, pc' \in Later
    PROVE  OptionsKept' /\ ColumnsKept'
<1>1. OptionsKept'
  BY DEF OptionsKept, Later
<1>2. \A k : Parsed(k)' = Parsed(k)
  BY DEF Parsed
<1>3. ColumnsKept'
  BY <1>2 DEF ColumnsKept
<1> QED BY <1>1, <1>3

(* A step of the writing of the files.                                         *)
LEMMA FileStep ==
    ASSUME OutputInv, UNCHANGED <<vm, assignments, parsed, text>>,
           pc \in Later, pc' \in Later \ {"out of bounds"},
           queue' \cup DOMAIN files' = DOMAIN assignments,
           pc' \in {"header", "section", "column"} => table' \in DOMAIN files',
           col' \in (1..5) \X Nat \X (0..(Pow2[Width] - 1)), pc' = "column" => col'[1] <= 4,
           full' \in BOOLEAN
    PROVE  OutputInv'
<1>1. /\ vm' = vm /\ assignments' = assignments /\ artifacts' = artifacts
      /\ completed' = completed /\ arg' = arg /\ exported' = exported /\ shown' = shown
  BY DEF parsed, text
<1>2. TypeOK /\ Typed /\ OptionsKept /\ ColumnsKept /\ ExportIsAsked /\ RefusedOnlyOutside
  BY DEF OutputInv
<1>3. OptionsKept' /\ ColumnsKept'
  BY <1>1, <1>2, OptionsStay
<1>4. ExportIsAsked' /\ RefusedOnlyOutside'
  BY <1>1, <1>2, ExportsStay
<1>5. Typed'
  BY <1>1, <1>2 DEF Typed
<1>6. TypeOK'
  <2>1. pc' \in Ended \cup {"tables", "rows", "columns", "open", "header", "section",
                             "column", "artifacts"}
    BY DEF Later, Ended
  <2>2. col'[1] \in 1..5 /\ col'[2] \in Nat /\ col'[3] \in 0..Pow2[Width] - 1
    OBVIOUS
  <2> QED BY <1>1, <1>2, <2>1, <2>2 DEF TypeOK
<1> QED BY <1>3, <1>4, <1>5, <1>6 DEF OutputInv

LEMMA FileActions ==
    ASSUME OutputInv,
           OpenFile \/ WriteHeader \/ WriteSectionSize \/ WriteNextColumn \/ FilesWritten \/ DiskFills
    PROVE  OutputInv'
<1> DEFINE Cols == (1..5) \X Nat \X (0..(Pow2[Width] - 1))
<1>1. /\ assignments \in Assignments /\ queue \cup DOMAIN files = DOMAIN assignments
      /\ pc \in {"header", "section", "column"} => table \in DOMAIN files
      /\ full \in BOOLEAN /\ col \in Cols /\ (pc = "column" => col[1] <= 4)
  BY DEF OutputInv, TypeOK, Typed
<1>2. /\ col = <<col[1], col[2], col[3]>> /\ col[1] \in 1..5 /\ col[2] \in Nat
      /\ col[3] \in 0..(Pow2[Width] - 1)
  BY <1>1
<1>3. \A a \in 1..5, b \in Nat, c \in 0..(Pow2[Width] - 1) : <<a, b, c>> \in Cols
  OBVIOUS
<1> HIDE DEF Cols
<1>4. CASE OpenFile
  <2>1. /\ pc = "open" /\ pc' \in {"header", "cannot open"}
        /\ UNCHANGED <<vm, assignments, parsed, col, full, text>>
    BY <1>4 DEF OpenFile
  <2>2. /\ queue' \cup DOMAIN files' = DOMAIN assignments
        /\ pc' = "header" => table' \in DOMAIN files'
    BY <1>1, <1>4 DEF OpenFile
  <2> QED BY <1>1, <2>1, <2>2, FileStep DEF Later, Cols
<1>5. CASE WriteHeader
  <2>1. /\ pc = "header" /\ pc' = "section"
        /\ UNCHANGED <<vm, assignments, parsed, queue, table, full, text>>
        /\ DOMAIN files' = DOMAIN files
    BY <1>5 DEF WriteHeader, Write
  <2>2. PICK padded \in PaddedRows(UsableRows(assignments[table])) : col' = <<1, 0, padded>>
    BY <1>5 DEF WriteHeader
  <2>3. padded \in 0..(Pow2[Width] - 1)
    <3>1. assignments[table] \in Table
      BY <1>1, <2>1, TablesAreTables
    <3>2. UsableRows(assignments[table]) \in 0..IntMax
      BY <3>1, Sizes
    <3> QED BY <3>2, <2>2, PaddedFits
  <2>4. col' \in Cols
    BY <1>3, <2>2, <2>3
  <2> QED BY <1>1, <2>1, <2>4, FileStep DEF Later, Cols
<1>6. CASE WriteSectionSize
  <2>1. /\ pc = "section" /\ col' = col /\ pc' \in {"column", "open"}
        /\ pc' = "column" => col[1] <= 4
        /\ UNCHANGED <<vm, assignments, parsed, queue, table, full, text>>
        /\ DOMAIN files' = DOMAIN files
    BY <1>6 DEF WriteSectionSize, Write
  <2> QED BY <1>1, <2>1, FileStep DEF Later, Cols
<1>7. CASE WriteNextColumn
  <2>1. /\ pc = "column" /\ pc' \in {"column", "section"}
        /\ UNCHANGED <<vm, assignments, parsed, queue, table, full, text>>
        /\ DOMAIN files' = DOMAIN files
        /\ \/ col' = [col EXCEPT ![2] = @ + 1]
           \/ col' = <<col[1] + 1, 0, col[3]>> /\ pc' = "section"
    BY <1>7 DEF WriteNextColumn, Write
  <2>2. col' \in Cols /\ (pc' = "column" => col'[1] <= 4)
    <3>1. CASE col' = [col EXCEPT ![2] = @ + 1]
      <4>1. col' = <<col[1], col[2] + 1, col[3]>>
        BY <1>2, <3>1
      <4>2. col[2] + 1 \in Nat
        BY <1>2
      <4>3. col' \in Cols
        BY <1>2, <1>3, <4>1, <4>2
      <4>4. col[1] <= 4 /\ col'[1] = col[1]
        BY <1>1, <2>1, <4>1
      <4> QED BY <4>3, <4>4
    <3>2. CASE col' = <<col[1] + 1, 0, col[3]>> /\ pc' = "section"
      <4>1. col[1] + 1 \in 1..5
        BY <1>1, <1>2, <2>1
      <4> QED BY <1>2, <1>3, <3>2, <4>1
    <3> QED BY <2>1, <3>1, <3>2
  <2> QED BY <1>1, <2>1, <2>2, FileStep DEF Later, Cols
<1>8. CASE FilesWritten
  <2>1. /\ pc = "open" /\ pc' \in {"done", "artifacts"}
        /\ UNCHANGED <<vm, assignments, parsed, text, queue, table, col, files, full>>
    BY <1>8 DEF FilesWritten, binary
  <2> QED BY <1>1, <2>1, FileStep DEF Later, Cols
<1>9. CASE DiskFills
  <2>1. /\ pc \in {"header", "section", "column"} /\ full' = TRUE
        /\ UNCHANGED <<vm, assignments, pc, parsed, queue, table, col, files, text>>
    BY <1>9 DEF DiskFills
  <2> QED BY <1>1, <2>1, FileStep DEF Later, Cols
<1> QED BY <1>4, <1>5, <1>6, <1>7, <1>8, <1>9

LEMMA LenIsNat == ASSUME NEW T, NEW q \in Seq(T) PROVE Len(q) \in Nat /\ 0 <= Len(q)
  OBVIOUS

(* What the steps of from_program_options() leave.                             *)
LEMMA ParseLeaves ==
    ASSUME OutputInv, pc \notin Later, UNCHANGED <<vm, assignments, binary, text>>,
           pc' \in Ended \cup {"rows", "columns", "open"}, pc' # "out of bounds",
           artifacts' \in Artifacts,
           arg' \in 1..(Len(vm.columns) + 1), Cardinality(completed') = arg' - 1, IsFiniteSet(completed'),
           completed' = {vm.columns[i].type : i \in 1..(arg' - 1)},
           OptionsKept', ColumnsKept'
    PROVE  OutputInv'
<1>1. /\ vm' = vm /\ assignments' = assignments /\ exported' = exported /\ shown' = shown
      /\ queue' = queue /\ table' = table /\ col' = col /\ files' = files /\ full' = full
  BY DEF binary, text
<1>2. TypeOK /\ Typed /\ OptionsKept /\ ColumnsKept /\ ExportIsAsked /\ RefusedOnlyOutside
  BY DEF OutputInv
<1>3. ExportIsAsked' /\ RefusedOnlyOutside'
  BY <1>1, <1>2, ExportsStay
<1>4. Typed'
  BY <1>1, <1>2 DEF Typed, Ended
<1>5. TypeOK'
  <2>1. shown = 0 /\ shown = Len(exported)
    BY <1>2 DEF OptionsKept, TypeOK
  <2>2. /\ artifacts'.rows \in BoundsList /\ \A k \in 1..4 : artifacts'.columns[k] \in BoundsList
        /\ artifacts'.tables \in Seq(STRING)
    BY DEF Artifacts
  <2>3. shown' <= Len(artifacts'.tables)
    <3>1. 0 <= Len(artifacts'.tables)
      BY <2>2, LenIsNat, Zenon
    <3>2. shown' = 0
      BY <1>1, <2>1
    <3> QED BY <3>1, <3>2
  <2>4. pc' \in Ended \cup {"tables", "rows", "columns", "open", "header", "section",
                             "column", "artifacts"}
    OBVIOUS
  <2>5. pc' \notin {"header", "section", "column"}
    BY DEF Ended
  <2> QED BY <1>1, <1>2, <2>2, <2>3, <2>4, <2>5 DEF TypeOK
<1> QED BY <1>3, <1>4, <1>5 DEF OutputInv

LEMMA OptionsRefused ==
    ASSUME OutputInv, pc \in {"tables", "rows", "columns"}, pc' \in {"bad options", "crashed"},
           UNCHANGED <<vm, assignments, artifacts, completed, arg, binary, text>>
    PROVE  OutputInv'
<1>1. /\ vm' = vm /\ exported' = exported /\ artifacts' = artifacts /\ arg' = arg
      /\ completed' = completed
  BY DEF text
<1>2. /\ artifacts \in Artifacts /\ arg \in 1..(Len(vm.columns) + 1)
      /\ Cardinality(completed) = arg - 1 /\ IsFiniteSet(completed)
      /\ completed = {vm.columns[i].type : i \in 1..(arg - 1)}
      /\ OptionsKept /\ ColumnsKept
  BY DEF OutputInv, TypeOK, Typed
<1>3. OptionsKept'
  BY <1>1, <1>2 DEF OptionsKept, Later
<1>4. ColumnsKept'
  <2>1. \A k : Parsed(k)' = Parsed(k)
    BY <1>1 DEF Parsed
  <2> QED BY <1>1, <1>2, <2>1 DEF ColumnsKept
<1>5. pc \notin Later /\ pc' \in Ended /\ pc' # "out of bounds"
  BY DEF Later, Ended
<1> QED BY <1>1, <1>2, <1>3, <1>4, <1>5, ParseLeaves

LEMMA ParseTablesKeeps == OutputInv /\ ParseTables => OutputInv'
<1> SUFFICES ASSUME OutputInv, ParseTables PROVE OutputInv'
  OBVIOUS
<1>1. /\ pc = "tables" /\ UNCHANGED <<vm, assignments, completed, arg, binary, text>>
      /\ \/ pc' = "bad options" /\ artifacts' = artifacts
         \/ pc' = "rows" /\ artifacts' = [artifacts EXCEPT !.tables = vm.tables]
  BY Zenon DEF ParseTables
<1>2. /\ artifacts \in Artifacts /\ arg \in 1..(Len(vm.columns) + 1)
      /\ Cardinality(completed) = arg - 1 /\ IsFiniteSet(completed)
      /\ completed = {vm.columns[i].type : i \in 1..(arg - 1)}
      /\ OptionsKept /\ ColumnsKept /\ vm \in Options
  BY DEF OutputInv, TypeOK, Typed
<1>3. CASE pc' = "bad options" /\ artifacts' = artifacts
  BY <1>1, <1>3, OptionsRefused
<1>4. CASE pc' = "rows" /\ artifacts' = [artifacts EXCEPT !.tables = vm.tables]
  <2>1. /\ artifacts' \in Artifacts /\ artifacts'.tables = vm.tables
        /\ artifacts'.rows = artifacts.rows /\ artifacts'.columns = artifacts.columns
    BY <1>2, <1>4, OptionTypes DEF Artifacts
  <2>2. vm' = vm /\ arg' = arg /\ completed' = completed /\ exported' = exported
    BY <1>1 DEF text
  <2>3. OptionsKept'
    BY <1>1, <1>2, <1>4, <2>1, <2>2 DEF OptionsKept, Later
  <2>4. ColumnsKept'
    <3>1. \A k : Parsed(k)' = Parsed(k)
      BY <2>2 DEF Parsed
    <3> QED BY <1>2, <2>1, <2>2, <3>1 DEF ColumnsKept
  <2>5. pc \notin Later /\ pc' # "out of bounds"
    BY <1>1, <1>4 DEF Later
  <2> QED BY <1>1, <1>2, <1>4, <2>1, <2>2, <2>3, <2>4, <2>5, ParseLeaves
<1> QED BY <1>1, <1>3, <1>4

LEMMA ParseRowsKeeps == OutputInv /\ ParseRows => OutputInv'
<1> SUFFICES ASSUME OutputInv, ParseRows PROVE OutputInv'
  OBVIOUS
<1> DEFINE result == ParseRanges(vm.rows)
<1>1. /\ pc = "rows" /\ UNCHANGED <<vm, assignments, completed, arg, binary, text>>
      /\ \/ pc' \in {"bad options", "crashed"} /\ artifacts' = artifacts
         \/ /\ result.kind = "value" /\ pc' = "columns"
            /\ artifacts' = [artifacts EXCEPT !.rows = result.value]
  BY DEF ParseRows, Leave
<1>2. /\ artifacts \in Artifacts /\ arg \in 1..(Len(vm.columns) + 1)
      /\ Cardinality(completed) = arg - 1 /\ IsFiniteSet(completed)
      /\ completed = {vm.columns[i].type : i \in 1..(arg - 1)}
      /\ OptionsKept /\ ColumnsKept /\ vm \in Options
  BY DEF OutputInv, TypeOK, Typed
<1>3. CASE pc' \in {"bad options", "crashed"} /\ artifacts' = artifacts
  BY <1>1, <1>3, OptionsRefused
<1>4. CASE /\ result.kind = "value" /\ pc' = "columns"
           /\ artifacts' = [artifacts EXCEPT !.rows = result.value]
  <2>1. ParseRanges(vm.rows) = Value(result.value) /\ result.value \in BoundsList
    BY <1>2, <1>4, OptionTypes, ParsedRanges
  <2> HIDE DEF result
  <2>2. /\ artifacts' \in Artifacts /\ artifacts'.tables = artifacts.tables
        /\ artifacts'.rows = result.value /\ artifacts'.columns = artifacts.columns
    BY <1>2, <1>4, <2>1 DEF Artifacts
  <2>3. vm' = vm /\ arg' = arg /\ completed' = completed /\ exported' = exported
    BY <1>1 DEF text
  <2>4. OptionsKept'
    BY <1>1, <1>2, <1>4, <2>1, <2>2, <2>3 DEF OptionsKept, Later
  <2>5. ColumnsKept'
    <3>1. \A k : Parsed(k)' = Parsed(k)
      BY <2>3 DEF Parsed
    <3> QED BY <1>2, <2>2, <2>3, <3>1 DEF ColumnsKept
  <2>6. pc \notin Later /\ pc' # "out of bounds"
    BY <1>1, <1>4 DEF Later
  <2> QED BY <1>1, <1>2, <1>4, <2>2, <2>3, <2>4, <2>5, <2>6, ParseLeaves
<1> QED BY <1>1, <1>3, <1>4

LEMMA ColumnsParsedKeeps == OutputInv /\ ColumnsParsed => OutputInv'
<1> SUFFICES ASSUME OutputInv, ColumnsParsed PROVE OutputInv'
  OBVIOUS
<1>1. /\ pc = "columns" /\ arg > Len(vm.columns) /\ pc' = "open"
      /\ UNCHANGED <<vm, assignments, artifacts, completed, arg, binary, text>>
  BY DEF ColumnsParsed, parsed
<1>2. /\ artifacts \in Artifacts /\ arg \in 1..(Len(vm.columns) + 1)
      /\ Cardinality(completed) = arg - 1 /\ IsFiniteSet(completed)
      /\ completed = {vm.columns[i].type : i \in 1..(arg - 1)}
      /\ OptionsKept /\ ColumnsKept /\ vm \in Options
  BY DEF OutputInv, TypeOK, Typed
<1>3. vm' = vm /\ arg' = arg /\ completed' = completed /\ exported' = exported
      /\ artifacts' = artifacts
  BY <1>1 DEF text
<1>4. arg = Len(vm.columns) + 1
  <2>1. Len(vm.columns) \in Nat
    BY <1>2, OptionTypes
  <2> QED BY <1>1, <1>2, <2>1
<1>5. OptionsKept'
  BY <1>1, <1>2, <1>3, <1>4 DEF OptionsKept, Later
<1>6. ColumnsKept'
  <2>1. \A k : Parsed(k)' = Parsed(k)
    BY <1>3 DEF Parsed
  <2> QED BY <1>2, <1>3, <2>1 DEF ColumnsKept
<1>7. pc \notin Later /\ pc' # "out of bounds"
  BY <1>1 DEF Later
<1> QED BY <1>1, <1>2, <1>3, <1>5, <1>6, <1>7, ParseLeaves

LEMMA KindOfType ==
    ASSUME NEW type \in ToSet(Kinds)
    PROVE  /\ Index(type) \in 1..4 /\ Kinds[Index(type)] = type
           /\ \A k \in 1..4 : Kinds[k] = type => k = Index(type)
<1>1. /\ DOMAIN Kinds = 1..4
      /\ \A k, l \in 1..4 : Kinds[k] = Kinds[l] => k = l
  BY DEF Kinds
<1>2. PICK k \in DOMAIN Kinds : Kinds[k] = type
  BY DEF ToSet
<1>3. Index(type) \in DOMAIN Kinds /\ Kinds[Index(type)] = type
  BY <1>2, Zenon DEF Index
<1> QED BY <1>1, <1>3

LEMMA ParseColumnKeeps == OutputInv /\ ParseColumn => OutputInv'
<1> SUFFICES ASSUME OutputInv, ParseColumn PROVE OutputInv'
  OBVIOUS
<1> DEFINE column == vm.columns[arg]
           result == ParseRanges(column.text)
<1>1. Value(result).kind = "value" /\ Unexpected.kind # "value"
  BY DEF Value, Unexpected
<1>2. /\ pc = "columns" /\ arg <= Len(vm.columns)
      /\ UNCHANGED <<vm, assignments, binary, text>>
      /\ \/ pc' \in {"bad options", "crashed"} /\ UNCHANGED parsed
         \/ /\ result.kind = "value" /\ Matches(column) /\ column.type \notin completed
            /\ artifacts' = [artifacts EXCEPT !.columns[Index(column.type)] = result.value]
            /\ completed' = completed \cup {column.type}
            /\ arg' = arg + 1
            /\ pc' = pc
  BY <1>1 DEF ParseColumn, Leave
<1>3. /\ artifacts \in Artifacts /\ arg \in 1..(Len(vm.columns) + 1)
      /\ Cardinality(completed) = arg - 1 /\ IsFiniteSet(completed)
      /\ completed = {vm.columns[i].type : i \in 1..(arg - 1)}
      /\ OptionsKept /\ ColumnsKept /\ vm \in Options
  BY DEF OutputInv, TypeOK, Typed
<1>4. CASE pc' \in {"bad options", "crashed"} /\ UNCHANGED parsed
  <2>1. UNCHANGED <<artifacts, completed, arg>>
    BY <1>4 DEF parsed
  <2> QED BY <1>2, <1>4, <2>1, OptionsRefused
<1>5. CASE /\ result.kind = "value" /\ Matches(column) /\ column.type \notin completed
           /\ artifacts' = [artifacts EXCEPT !.columns[Index(column.type)] = result.value]
           /\ completed' = completed \cup {column.type}
           /\ arg' = arg + 1
           /\ pc' = pc
  <2>1. /\ Len(vm.columns) \in Nat /\ arg \in 1..Len(vm.columns)
        /\ column \in ColumnOption
    <3>1. vm.columns \in Seq(ColumnOption)
      BY <1>3, OptionTypes
    <3>2. Len(vm.columns) \in Nat
      BY <3>1
    <3>3. arg \in 1..Len(vm.columns)
      <4> DEFINE n == Len(vm.columns)
      <4>1. n \in Nat /\ arg \in 1..(n + 1) /\ arg <= n
        BY <1>2, <1>3, <3>2
      <4> HIDE DEF n
      <4>2. arg \in 1..n
        BY <4>1
      <4> QED BY <4>2 DEF n
    <3>4. column \in ColumnOption
      BY <3>1, <3>3
    <3> QED BY <3>2, <3>3, <3>4
  <2>2. column.text \in Seq(Token) /\ column.type \in ToSet(Kinds)
    BY <1>5, <2>1 DEF Matches, ColumnOption
  <2>3. result = Value(result.value) /\ result.value \in BoundsList
    BY <1>5, <2>2, ParsedRanges
  <2>4. PICK index \in 1..4 :
            /\ index = Index(column.type) /\ Kinds[index] = column.type
            /\ \A k \in 1..4 : Kinds[k] = column.type => k = index
    BY <2>2, KindOfType
  <2>5. vm' = vm /\ exported' = exported
    BY <1>2 DEF text
  <2>6. 1..(arg' - 1) = 1..(arg - 1) \cup {arg} /\ arg \notin 1..(arg - 1)
    BY <1>3, <1>5
  <2>7. \A i \in 1..(arg - 1) : vm.columns[i].type # column.type
    BY <1>3, <1>5
  <2> HIDE DEF result
  <2>8. /\ artifacts' \in Artifacts /\ artifacts'.tables = artifacts.tables
        /\ artifacts'.rows = artifacts.rows /\ artifacts'.columns[index] = result.value
        /\ \A k \in 1..4 : k # index => artifacts'.columns[k] = artifacts.columns[k]
    BY <1>3, <1>5, <2>3, <2>4 DEF Artifacts
  <2>9. completed' = {vm.columns[i].type : i \in 1..(arg' - 1)}
    BY <1>3, <1>5, <2>6
  <2>10. Cardinality(completed') = arg' - 1 /\ IsFiniteSet(completed')
    <3>1. IsFiniteSet(completed)
      BY DEF OutputInv, Typed
    <3>2. /\ Cardinality(completed \cup {column.type}) = Cardinality(completed) + 1
          /\ IsFiniteSet(completed \cup {column.type})
      BY <1>5, <3>1, FS_AddElement, Zenon
    <3> QED BY <1>3, <1>5, <3>2
  <2>11. arg' \in 1..(Len(vm.columns) + 1)
    BY <1>5, <2>1
  <2>12. OptionsKept'
    BY <1>2, <1>3, <1>5, <2>5, <2>8 DEF OptionsKept, Later
  <2>13. ColumnsKept'
    <3>1. ASSUME NEW i \in 1..(arg' - 1), NEW j \in 1..(arg' - 1),
                 vm.columns[i].type = vm.columns[j].type
          PROVE  i = j
      BY <1>3, <2>6, <2>7, <3>1 DEF ColumnsKept
    <3>2. ASSUME NEW k \in 1..4, k # index
          PROVE  Parsed(k)' = Parsed(k)
      <4>1. Kinds[k] # column.type
        BY <2>4, <3>2
      <4> QED BY <2>5, <2>6, <4>1 DEF Parsed
    <3>3. Parsed(index)' = {arg}
      <4>1. Parsed(index)' = {i \in 1..(arg' - 1) : vm.columns[i].type = column.type}
        <5>1. Parsed(index)' = {i \in 1..(arg' - 1) : vm.columns[i].type = Kinds[index]}
          BY <2>5 DEF Parsed
        <5> HIDE DEF column
        <5> QED BY <2>4, <5>1
      <4> HIDE DEF column
      <4>2. vm.columns[arg].type = column.type
        BY DEF column
      <4> QED BY <2>6, <2>7, <4>1, <4>2
    <3>4. ASSUME NEW k \in 1..4
          PROVE  IF Parsed(k)' = {} THEN artifacts'.columns[k] = <<>>
                 ELSE \A i \in Parsed(k)' :
                         ParseRanges(vm.columns[i].text) = Value(artifacts'.columns[k])
      <4>1. CASE k = index
        <5>1. ParseRanges(vm.columns[arg].text) = Value(artifacts'.columns[k])
          BY <2>3, <2>8, <4>1 DEF result
        <5> QED BY <3>3, <4>1, <5>1
      <4>2. CASE k # index
        BY <1>3, <2>8, <3>2, <4>2 DEF ColumnsKept
      <4> QED BY <4>1, <4>2
    <3> QED BY <2>5, <3>1, <3>4 DEF ColumnsKept
  <2>14. pc \notin Later /\ pc' \in Ended \cup {"rows", "columns", "open"} /\ pc' # "out of bounds"
    BY <1>2, <1>5 DEF Later
  <2> QED BY <1>2, <2>8, <2>9, <2>10, <2>11, <2>12, <2>13, <2>14, ParseLeaves
<1> QED BY <1>2, <1>4, <1>5

(* The option for a kind of column is what its ranges come from.               *)
LEMMA TextOfKind ==
    ASSUME OutputInv, arg = Len(vm.columns) + 1, NEW k \in 1..4
    PROVE  /\ TextOf(vm.columns, k) \in Seq(Token)
           /\ ParseRanges(TextOf(vm.columns, k)) = Value(artifacts.columns[k])
<1> DEFINE is == {i \in DOMAIN vm.columns : vm.columns[i].type = Kinds[k]}
<1>1. ColumnsKept /\ vm \in Options
  BY DEF OutputInv, TypeOK
<1>2. vm.columns \in Seq(ColumnOption)
  BY <1>1, OptionTypes
<1>3. is = Parsed(k)
  <2>1. 1..(arg - 1) = DOMAIN vm.columns
    BY <1>2
  <2> QED BY <2>1, Zenon DEF Parsed
<1>4. CASE is = {}
  <2>1. TextOf(vm.columns, k) = <<>> /\ artifacts.columns[k] = <<>>
    BY <1>1, <1>3, <1>4 DEF TextOf, ColumnsKept
  <2> QED BY <2>1, NothingParsed
<1>5. CASE is # {}
  <2> DEFINE i == CHOOSE j \in is : TRUE
  <2>1. i \in is
    BY <1>5, Zenon
  <2>2. TextOf(vm.columns, k) = vm.columns[i].text
    BY <1>5, Zenon DEF TextOf
  <2> HIDE DEF i, is
  <2>3. ParseRanges(vm.columns[i].text) = Value(artifacts.columns[k])
    BY <1>1, <1>3, <2>1 DEF ColumnsKept
  <2>4. vm.columns[i].text \in Seq(Token)
    <3>1. i \in DOMAIN vm.columns
      BY <2>1, Zenon DEF is
    <3>2. vm.columns[i] \in ColumnOption
      BY <1>2, <3>1
    <3> QED BY <3>2 DEF ColumnOption
  <2> QED BY <2>2, <2>3, <2>4
<1> QED BY <1>4, <1>5

(* The parts of a table that the options ask for.                              *)
LEMMA AskedParts ==
    ASSUME OutputInv, pc = "artifacts", NEW name \in DOMAIN assignments
    PROVE  LET t == assignments[name]
               rows == ConcreteRows(t)
               columns == ConcreteColumns(t)
           IN  /\ rows.kind = "value" =>
                      Covered(rows.value) = Selected(vm.rows, UsableRows(t))
               /\ rows.kind = "value" <=> ~ Misses(vm.rows, UsableRows(t))
               /\ \A k \in 1..4 :
                     /\ columns[k].kind = "value" =>
                           Covered(columns[k].value)
                               = Selected(TextOf(vm.columns, k), Amount(t, k))
                     /\ columns[k].kind = "value"
                           <=> ~ Misses(TextOf(vm.columns, k), Amount(t, k))
<1> DEFINE t == assignments[name]
<1>1. /\ vm \in Options /\ assignments \in Assignments
      /\ ParseRanges(vm.rows) = Value(artifacts.rows) /\ arg = Len(vm.columns) + 1
  BY DEF OutputInv, TypeOK, OptionsKept, Later
<1>2. UsableRows(t) \in 0..IntMax /\ \A k \in 1..4 : Amount(t, k) \in 0..IntMax
  <2>1. t \in Table
    BY <1>1, TablesAreTables
  <2> QED BY <2>1, Sizes
<1> HIDE DEF t
<1>3. /\ ConcreteRows(t).kind = "value" =>
             Covered(ConcreteRows(t).value) = Selected(vm.rows, UsableRows(t))
      /\ ConcreteRows(t).kind = "value" <=> ~ Misses(vm.rows, UsableRows(t))
  <2>1. vm.rows \in Seq(Token)
    BY <1>1, OptionTypes
  <2> QED BY <1>1, <1>2, <2>1, AppliedRanges DEF ConcreteRows
<1>4. ASSUME NEW k \in 1..4
      PROVE  /\ ConcreteColumns(t)[k].kind = "value" =>
                   Covered(ConcreteColumns(t)[k].value)
                       = Selected(TextOf(vm.columns, k), Amount(t, k))
             /\ ConcreteColumns(t)[k].kind = "value"
                   <=> ~ Misses(TextOf(vm.columns, k), Amount(t, k))
  <2>1. /\ TextOf(vm.columns, k) \in Seq(Token)
        /\ ParseRanges(TextOf(vm.columns, k)) = Value(artifacts.columns[k])
    BY <1>1, TextOfKind
  <2>2. ConcreteColumns(t)[k] = Concrete(artifacts.columns[k], Amount(t, k))
    BY DEF ConcreteColumns
  <2> QED BY <1>2, <2>1, <2>2, AppliedRanges
<1> QED BY <1>3, <1>4 DEF t

LEMMA ExportTableKeeps == OutputInv /\ ExportTable => OutputInv'
<1> SUFFICES ASSUME OutputInv, ExportTable PROVE OutputInv'
  OBVIOUS
<1> DEFINE name == artifacts.tables[shown + 1]
           t == assignments[name]
           rows == ConcreteRows(t)
           columns == ConcreteColumns(t)
           misses(n) == \/ Misses(vm.rows, UsableRows(assignments[n]))
                        \/ \E k \in 1..4 : Misses(TextOf(vm.columns, k), Amount(assignments[n], k))
           e == [table |-> name, rows |-> rows.value, columns |-> [k \in 1..4 |-> columns[k].value]]
<1>1. TypeOK /\ Typed /\ OptionsKept /\ ColumnsKept /\ ExportIsAsked /\ RefusedOnlyOutside
  BY DEF OutputInv
<1>2. /\ pc = "artifacts" /\ shown < Len(artifacts.tables)
      /\ UNCHANGED <<vm, assignments, parsed, binary>>
      /\ \/ pc' \in {"no table", "cannot open"} /\ UNCHANGED text
         \/ /\ name \in DOMAIN assignments /\ pc' = "out of bounds" /\ UNCHANGED text
            /\ ~ (rows.kind = "value" /\ \A k \in 1..4 : columns[k].kind = "value")
         \/ /\ name \in DOMAIN assignments /\ pc' = pc /\ shown' = shown + 1
            /\ rows.kind = "value" /\ \A k \in 1..4 : columns[k].kind = "value"
            /\ exported' = Append(exported, e)
  BY Zenon DEF ExportTable
<1>3. /\ vm' = vm /\ assignments' = assignments /\ artifacts' = artifacts
      /\ completed' = completed /\ arg' = arg /\ queue' = queue /\ table' = table
      /\ col' = col /\ files' = files /\ full' = full
  BY <1>2 DEF parsed, binary
<1>4. /\ artifacts.tables = vm.tables /\ exported \in Seq(ToSet(exported))
      /\ shown = Len(exported) /\ shown \in Nat /\ DOMAIN exported = 1..shown
      /\ Len(artifacts.tables) \in Nat
  <2>1. artifacts.tables = vm.tables /\ exported \in Seq(ToSet(exported)) /\ shown = Len(exported)
    BY <1>1, <1>2 DEF OptionsKept, TypeOK, Typed, Later
  <2>2. artifacts.tables \in Seq(STRING)
    BY <1>1 DEF Typed, Artifacts
  <2>3. Len(artifacts.tables) \in Nat
    BY <2>2, LenIsNat, Zenon
  <2> QED BY <2>1, <2>3
<1>5. CASE pc' \in {"no table", "cannot open"} /\ UNCHANGED text
  <2>1. queue' \cup DOMAIN files' = DOMAIN assignments /\ full' \in BOOLEAN
        /\ col' \in (1..5) \X Nat \X (0..(Pow2[Width] - 1))
    BY <1>1, <1>3 DEF TypeOK, Typed
  <2> QED BY <1>2, <1>5, <2>1, FileStep DEF Later
<1>6. ASSUME name \in DOMAIN assignments
      PROVE  /\ rows.kind = "value" => Covered(rows.value) = Selected(vm.rows, UsableRows(t))
             /\ rows.kind = "value" <=> ~ Misses(vm.rows, UsableRows(t))
             /\ \A k \in 1..4 :
                  /\ columns[k].kind = "value" =>
                         Covered(columns[k].value) = Selected(TextOf(vm.columns, k), Amount(t, k))
                  /\ columns[k].kind = "value" <=> ~ Misses(TextOf(vm.columns, k), Amount(t, k))
  BY <1>2, <1>6, AskedParts
<1>7. OptionsKept' /\ ColumnsKept' /\ (exported' \in Seq(ToSet(exported')) => Typed')
  <2>1. pc \in Later /\ pc' \in Later
    BY <1>2 DEF Later
  <2>2. OptionsKept'
    BY <1>1, <1>3, <2>1 DEF OptionsKept, Later
  <2>3. ColumnsKept'
    <3>1. \A k : Parsed(k)' = Parsed(k)
      BY <1>3 DEF Parsed
    <3> QED BY <1>1, <1>3, <3>1 DEF ColumnsKept
  <2>4. exported' \in Seq(ToSet(exported')) => Typed'
    <3>1. pc' # "column"
      BY <1>2
    <3> QED BY <1>1, <1>3, <3>1 DEF Typed
  <2> QED BY <2>2, <2>3, <2>4
<1>8. shown' = Len(exported') /\ shown' <= Len(artifacts.tables) => TypeOK'
  BY <1>1, <1>2, <1>3 DEF TypeOK, Ended
<1> HIDE DEF name, t, rows, columns, misses, e
<1>9. CASE /\ name \in DOMAIN assignments /\ pc' = "out of bounds" /\ UNCHANGED text
           /\ ~ (rows.kind = "value" /\ \A k \in 1..4 : columns[k].kind = "value")
  <2>1. exported' = exported /\ shown' = shown
    BY <1>9 DEF text
  <2>2. Typed' /\ TypeOK'
    <3>1. shown < Len(artifacts.tables)
      BY <1>2
    <3>2. shown' = Len(exported') /\ shown' <= Len(artifacts.tables)
      BY <1>4, <2>1, <3>1
    <3>3. exported' \in Seq(ToSet(exported'))
      BY <1>4, <2>1
    <3> QED BY <1>7, <1>8, <3>2, <3>3
  <2>3. misses(name)
    BY <1>6, <1>9 DEF misses, t
  <2>4. ExportIsAsked'
    BY <1>1, <1>3, <2>1 DEF ExportIsAsked
  <2>5. name = vm.tables[shown + 1]
    BY <1>4 DEF name
  <2>6. \A i \in DOMAIN exported : ~ misses(exported[i].table)
    BY <1>1 DEF RefusedOnlyOutside, misses
  <2>7. RefusedOnlyOutside'
    BY <1>3, <2>1, <2>3, <2>5, <2>6 DEF RefusedOnlyOutside, misses
  <2> QED BY <1>7, <2>2, <2>4, <2>7 DEF OutputInv
<1>10. CASE /\ name \in DOMAIN assignments /\ pc' = pc /\ shown' = shown + 1
            /\ rows.kind = "value" /\ \A k \in 1..4 : columns[k].kind = "value"
            /\ exported' = Append(exported, e)
  <2>1. /\ exported' \in Seq(ToSet(exported) \cup {e}) /\ Len(exported') = shown + 1
        /\ DOMAIN exported' = 1..(shown + 1)
        /\ exported'[shown + 1] = e /\ \A i \in 1..shown : exported'[i] = exported[i]
    <3>1. exported \in Seq(ToSet(exported) \cup {e})
      <4>1. \A i \in 1..shown : exported[i] \in ToSet(exported)
        BY <1>4 DEF ToSet
      <4>2. exported = [i \in 1..shown |-> exported[i]]
        BY <1>4
      <4>3. exported \in [1..shown -> ToSet(exported) \cup {e}]
        BY <4>1, <4>2
      <4> QED BY <1>4, <4>3
    <3> QED BY <1>4, <1>10, <3>1
  <2>2. exported' \in Seq(ToSet(exported'))
    <3>1. exported' = [i \in 1..(shown + 1) |-> exported'[i]]
      BY <2>1
    <3>2. \A i \in 1..(shown + 1) : exported'[i] \in ToSet(exported')
      BY <2>1 DEF ToSet
    <3>3. exported' \in [1..(shown + 1) -> ToSet(exported')]
      BY <3>1, <3>2
    <3> QED BY <1>4, <3>3
  <2>3. Typed' /\ TypeOK'
    <3>1. shown' = Len(exported') /\ shown' = shown + 1
      BY <1>10, <2>1
    <3>2. shown < Len(artifacts.tables)
      BY <1>2
    <3>3. shown' <= Len(artifacts.tables)
      BY <1>4, <3>1, <3>2
    <3> QED BY <1>7, <1>8, <2>2, <3>1, <3>3
  <2>4. /\ e.table = name /\ e.rows = rows.value
        /\ \A k \in 1..4 : e.columns[k] = columns[k].value
    BY DEF e
  <2>5. ~ misses(name)
    BY <1>6, <1>10 DEF misses, t
  <2>6. name = vm.tables[shown + 1]
    BY <1>4 DEF name
  <2>7. ExportIsAsked'
    <3> DEFINE Asked(x, n) ==
            /\ x.table = n
            /\ Covered(x.rows) = Selected(vm.rows, UsableRows(assignments[x.table]))
            /\ \A k \in 1..4 : Covered(x.columns[k])
                    = Selected(TextOf(vm.columns, k), Amount(assignments[x.table], k))
    <3>1. \A i \in 1..shown : Asked(exported[i], vm.tables[i])
      BY <1>1, <1>4 DEF ExportIsAsked
    <3>2. Asked(e, vm.tables[shown + 1])
      BY <1>6, <1>10, <2>4, <2>6 DEF t
    <3> HIDE DEF Asked
    <3>3. \A i \in 1..(shown + 1) : i \in 1..shown \/ i = shown + 1
      BY <1>4
    <3>4. \A i \in 1..(shown + 1) : Asked(exported'[i], vm.tables[i])
      BY <2>1, <3>1, <3>2, <3>3
    <3> QED BY <1>3, <2>1, <3>4 DEF ExportIsAsked, Asked
  <2>8. RefusedOnlyOutside'
    <3>1. \A i \in 1..shown : ~ misses(exported[i].table)
      BY <1>1, <1>4 DEF RefusedOnlyOutside, misses
    <3>2. ~ misses(e.table)
      BY <2>4, <2>5
    <3>3. \A i \in 1..(shown + 1) : i \in 1..shown \/ i = shown + 1
      BY <1>4
    <3>4. \A i \in 1..(shown + 1) : ~ misses(exported'[i].table)
      BY <2>1, <3>1, <3>2, <3>3
    <3>5. pc' # "out of bounds"
      BY <1>2, <1>10
    <3> QED BY <1>3, <2>1, <3>4, <3>5 DEF RefusedOnlyOutside, misses
  <2> QED BY <1>7, <2>3, <2>7, <2>8 DEF OutputInv
<1> QED BY <1>2, <1>5, <1>9, <1>10 DEF name, t, rows, columns, e

LEMMA OutputStep == OutputInv /\ [Next]_vars => OutputInv'
<1> SUFFICES ASSUME OutputInv, [Next]_vars PROVE OutputInv'
  OBVIOUS
<1>1. CASE ParseTables
  BY <1>1, ParseTablesKeeps
<1>2. CASE ParseRows
  BY <1>2, ParseRowsKeeps
<1>3. CASE ParseColumn
  BY <1>3, ParseColumnKeeps
<1>4. CASE ColumnsParsed
  BY <1>4, ColumnsParsedKeeps
<1>5. CASE OpenFile \/ WriteHeader \/ WriteSectionSize \/ WriteNextColumn \/ FilesWritten \/ DiskFills
  BY <1>5, FileActions
<1>6. CASE ExportTable
  BY <1>6, ExportTableKeeps
<1>7. CASE AllExported
  <2>1. /\ pc = "artifacts" /\ pc' = "done"
        /\ UNCHANGED <<vm, assignments, parsed, text, queue, table, col, files, full>>
    BY <1>7 DEF AllExported, binary
  <2>2. queue' \cup DOMAIN files' = DOMAIN assignments /\ full' \in BOOLEAN
        /\ col' \in (1..5) \X Nat \X (0..(Pow2[Width] - 1))
    BY <2>1 DEF OutputInv, TypeOK, Typed
  <2> QED BY <2>1, <2>2, FileStep DEF Later
<1>8. CASE UNCHANGED vars
  <2>1. /\ vm' = vm /\ assignments' = assignments /\ pc' = pc /\ artifacts' = artifacts
        /\ completed' = completed /\ arg' = arg /\ queue' = queue /\ table' = table
        /\ col' = col /\ files' = files /\ full' = full /\ shown' = shown /\ exported' = exported
    BY <1>8 DEF vars, parsed, binary, text
  <2>2. TypeOK' /\ Typed' /\ OptionsKept'
    BY <2>1 DEF OutputInv, TypeOK, Typed, OptionsKept
  <2>3. ColumnsKept'
    <3>1. \A k : Parsed(k)' = Parsed(k)
      BY <2>1 DEF Parsed
    <3> QED BY <2>1, <3>1 DEF OutputInv, ColumnsKept
  <2>4. ExportIsAsked' /\ RefusedOnlyOutside'
    BY <2>1, ExportsStay DEF OutputInv
  <2> QED BY <2>2, <2>3, <2>4 DEF OutputInv
<1> QED BY <1>1, <1>2, <1>3, <1>4, <1>5, <1>6, <1>7, <1>8 DEF Next

LEMMA OutputInvariant == Spec => []OutputInv
  BY InitOutputInv, OutputStep, PTL DEF Spec

--------------------------------------------------------------------------------

(* What the program keeps of the options and of its files has its type: a type *)
(* of column is parsed once, every table has its file or is still to come, and *)
(* the padding fits 32 bits whatever the doubles make of the size.             *)
THEOREM OutputTypes == Spec => []TypeOK
<1>1. OutputInv => TypeOK
  BY DEF OutputInv
<1> QED BY <1>1, OutputInvariant, PTL

(* What is printed of a table is what the options asked for, for all options   *)
(* and all tables: the loops of parse() and parse_columns(), the bounds of     *)
(* every range, their completion by the sizes of this table, and the order of  *)
(* the tables.                                                                 *)
THEOREM PrintedIsAsked == Spec => []ExportIsAsked
<1>1. OutputInv => ExportIsAsked
  BY DEF OutputInv
<1> QED BY <1>1, OutputInvariant, PTL

(* write_output_artifacts() refuses a table only for a row or column that the  *)
(* options name and the table does not have, and prints none of which it was   *)
(* asked for one.                                                              *)
THEOREM RefusalsAreOutside == Spec => []RefusedOnlyOutside
<1>1. OutputInv => RefusedOnlyOutside
  BY DEF OutputInv
<1> QED BY <1>1, OutputInvariant, PTL

(* The ranges of the options, printed by Ranges::to_string() and parsed again, *)
(* are the same: of the rows and of every kind of column, at any time.         *)
THEOREM OptionsReadBack == Spec => []RangesReadBack
<1>1. ASSUME OutputInv PROVE RangesReadBack
  <2>1. vm \in Options /\ OptionsKept /\ ColumnsKept /\ arg \in 1..(Len(vm.columns) + 1)
    BY <1>1 DEF OutputInv, TypeOK, Typed
  <2>2. ParseRanges(RangesToString(<<>>)) = Value(<<>>)
    <3>1. <<>> \in Seq(Token)
      OBVIOUS
    <3> QED BY <3>1, NothingParsed, ParsedReadsBack
  <2>3. ParseRanges(RangesToString(artifacts.rows)) = Value(artifacts.rows)
    <3>1. CASE artifacts.rows = <<>>
      BY <2>2, <3>1
    <3>2. CASE ParseRanges(vm.rows) = Value(artifacts.rows)
      BY <2>1, <3>2, OptionTypes, ParsedReadsBack
    <3> QED BY <2>1, <3>1, <3>2 DEF OptionsKept
  <2>4. ASSUME NEW k \in 1..4
        PROVE  ParseRanges(RangesToString(artifacts.columns[k])) = Value(artifacts.columns[k])
    <3>1. CASE Parsed(k) = {}
      BY <2>1, <2>2, <3>1 DEF ColumnsKept
    <3>2. CASE Parsed(k) # {}
      <4>1. PICK i \in Parsed(k) : TRUE
        BY <3>2
      <4>2. ParseRanges(vm.columns[i].text) = Value(artifacts.columns[k])
        BY <2>1, <4>1 DEF ColumnsKept
      <4>3. vm.columns[i].text \in Seq(Token)
        <5>1. vm.columns \in Seq(ColumnOption) /\ Len(vm.columns) \in Nat
          BY <2>1, OptionTypes
        <5>2. i \in 1..Len(vm.columns)
          BY <2>1, <4>1, <5>1 DEF Parsed
        <5>3. vm.columns[i] \in ColumnOption
          BY <5>1, <5>2
        <5> QED BY <5>3 DEF ColumnOption
      <4> QED BY <4>2, <4>3, ParsedReadsBack
    <3> QED BY <3>1, <3>2
  <2> QED BY <2>3, <2>4 DEF RangesReadBack
<1> QED BY <1>1, OutputInvariant, PTL

--------------------------------------------------------------------------------

\* The layout of a file, for a table and its padding.
Item == Nat \X Nat \X Nat
Start(t, p, k) == 6 + k + p * Before([j \in 1..4 |-> Amount(t, j)])[k]

\* The section of a kind is in a file, with its size and its first n columns.
Section(f, t, p, k, n) ==
    /\ Start(t, p, k) \in DOMAIN f
    /\ f[Start(t, p, k)] = WriteSize(Amount(t, k) * p)
    /\ \A c \in 1..n, r \in 1..p :
          LET at == Start(t, p, k) + (c - 1) * p + r IN
          /\ at \in DOMAIN f
          /\ f[at] = IF r <= t[k][c] THEN WriteField(k, c, r) ELSE Zero

\* The header and the sections before a kind are in a file.
Laid(f, t, p, k) ==
    /\ \A i \in 1..6 : i \in DOMAIN f /\ f[i] = Header(t, p)[i]
    /\ \A j \in 1..(k - 1) : Section(f, t, p, j, Amount(t, j))

Busy(name) == name = table /\ pc \in {"header", "section", "column"}

\* How far the file of a table is written.
Written(name) ==
    LET f == files[name]
        t == assignments[name]
    IN  /\ f \in Seq(Item)
        /\ ~ Busy(name) =>
              \E p \in PaddedRows(UsableRows(t)) :
                  Laid(f, t, p, 5) /\ Len(f) + 1 = Start(t, p, 5)
        /\ Busy(name) /\ pc = "header" => f = <<>>
        /\ Busy(name) /\ pc # "header" =>
              col[3] \in PaddedRows(UsableRows(t)) /\ Laid(f, t, col[3], col[1])
        /\ Busy(name) /\ pc = "section" =>
              col[2] = 0 /\ Len(f) + 1 = Start(t, col[3], col[1])
        /\ Busy(name) /\ pc = "column" =>
              /\ Section(f, t, col[3], col[1], col[2])
              /\ col[2] <= Amount(t, col[1])
              /\ Len(f) = Start(t, col[3], col[1]) + col[2] * col[3]

FilesInv == ~ full => \A name \in DOMAIN files : Written(name)

(* What is written consists of items.                                          *)
LEMMA SizeIsItem == ASSUME NEW n \in Nat PROVE WriteSize(n) \in Item
<1>1. n % Pow2[Width] \in Nat
  BY Pow2Grows
<1> QED BY <1>1 DEF WriteSize, Word, Item

LEMMA HeaderItems ==
    ASSUME NEW t \in Table, NEW p \in Nat
    PROVE  Header(t, p) \in Seq(Item) /\ Len(Header(t, p)) = 6
<1>1. UsableRows(t) \in Nat /\ \A k \in 1..4 : Amount(t, k) \in Nat
  BY Sizes, IntMaxAssumption
<1> DEFINE a == [k \in 1..4 |-> WriteSize(Amount(t, k))]
           b == <<WriteSize(UsableRows(t)), WriteSize(p)>>
<1>2. a \in Seq(Item) /\ Len(a) = 4
  <2>1. a \in [1..4 -> Item]
    BY <1>1, SizeIsItem
  <2> HIDE DEF a
  <2>2. 4 \in Nat
    OBVIOUS
  <2> QED BY <2>1, <2>2, FunctionIsSeq, Zenon
<1>3. b \in Seq(Item) /\ Len(b) = 2
  <2>1. WriteSize(UsableRows(t)) \in Item /\ WriteSize(p) \in Item
    BY <1>1, SizeIsItem
  <2> QED BY <2>1
<1>4. Header(t, p) = a \o b
  BY DEF Header
<1> HIDE DEF a, b
<1>5. a \o b \in Seq(Item) /\ Len(a \o b) = 6
  <2>1. a \o b \in Seq(Item) /\ Len(a \o b) = Len(a) + Len(b)
    BY <1>2, <1>3, JoinedLength, Zenon
  <2> QED BY <1>2, <1>3, <2>1
<1> QED BY <1>4, <1>5

LEMMA ColumnItems ==
    ASSUME NEW k \in 1..4, NEW c \in Nat, NEW size, NEW p \in Nat
    PROVE  /\ WriteColumn(k, c, size, p) \in Seq(Item) /\ Len(WriteColumn(k, c, size, p)) = p
           /\ \A r \in 1..p : WriteColumn(k, c, size, p)[r]
                                  = IF r <= size THEN WriteField(k, c, r) ELSE Zero
<1> DEFINE w == WriteColumn(k, c, size, p)
<1>1. w = [r \in 1..p |-> IF r <= size THEN WriteField(k, c, r) ELSE Zero]
  BY DEF WriteColumn
<1>2. Zero \in Item /\ \A r \in 1..p : WriteField(k, c, r) \in Item
  BY DEF Zero, WriteField, Field, Item
<1> HIDE DEF w
<1>3. w \in [1..p -> Item]
  <2>1. \A r \in 1..p : (IF r <= size THEN WriteField(k, c, r) ELSE Zero) \in Item
    BY <1>2
  <2> QED BY <1>1, <2>1
<1>4. w \in Seq(Item) /\ Len(w) = p
  BY <1>3
<1> QED BY <1>1, <1>4 DEF w

\* A file and what is appended to it.
Grows(f, g, h) ==
    /\ Len(f) \in Nat /\ DOMAIN f = 1..Len(f) /\ DOMAIN h = 1..Len(h) /\ Len(h) = Len(f) + Len(g)
    /\ DOMAIN f \subseteq DOMAIN h /\ \A i \in DOMAIN f : h[i] = f[i]
    /\ \A i \in 1..Len(g) : Len(f) + i \in DOMAIN h /\ h[Len(f) + i] = g[i]

LEMMA Appended ==
    ASSUME NEW f \in Seq(Item), NEW g \in Seq(Item)
    PROVE  f \o g \in Seq(Item) /\ Grows(f, g, f \o g)
  BY DEF Grows

LEMMA SectionStays ==
    ASSUME NEW f, NEW g, NEW h, Grows(f, g, h), NEW t, NEW p, NEW k, NEW n, Section(f, t, p, k, n)
    PROVE  Section(h, t, p, k, n)
<1>1. DOMAIN f \subseteq DOMAIN h /\ \A i \in DOMAIN f : h[i] = f[i]
  BY DEF Grows
<1> QED BY <1>1, Zenon DEF Section

LEMMA LaidStays ==
    ASSUME NEW f, NEW g, NEW h, Grows(f, g, h), NEW t, NEW p, NEW k, Laid(f, t, p, k)
    PROVE  Laid(h, t, p, k)
<1>1. \A i \in 1..6 : i \in DOMAIN h /\ h[i] = Header(t, p)[i]
  BY Zenon DEF Grows, Laid
<1>2. \A j \in 1..(k - 1) : Section(h, t, p, j, Amount(t, j))
  BY SectionStays, Zenon DEF Laid
<1> QED BY <1>1, <1>2 DEF Laid

(* Where the sections start: each is one size and its columns.                 *)
LEMMA Starts ==
    ASSUME NEW t \in Table, NEW p \in Nat
    PROVE  /\ Start(t, p, 1) = 7
           /\ \A k \in 1..5 : Start(t, p, k) \in Nat
           /\ \A k \in 1..4 : Start(t, p, k + 1) = Start(t, p, k) + 1 + Amount(t, k) * p
<1> DEFINE n == [j \in 1..4 |-> Amount(t, j)]
           b == Before(n)
<1>1. \A k \in 1..4 : n[k] \in Nat /\ n[k] = Amount(t, k)
  BY Sizes, IntMaxAssumption
<1> HIDE DEF n
<1>2. b[1] = 0 /\ (\A k \in 1..5 : b[k] \in Nat) /\ \A k \in 1..4 : b[k + 1] = b[k] + n[k]
  <2>1. /\ b[1] = 0 /\ b[2] = n[1] /\ b[3] = n[1] + n[2] /\ b[4] = n[1] + n[2] + n[3]
        /\ b[5] = n[1] + n[2] + n[3] + n[4]
    BY DEF Before
  <2>2. n[1] \in Nat /\ n[2] \in Nat /\ n[3] \in Nat /\ n[4] \in Nat
    BY <1>1
  <2> HIDE DEF b
  <2> QED BY <2>1, <2>2
<1>3. \A k : Start(t, p, k) = 6 + k + p * b[k]
  BY DEF Start, n
<1> HIDE DEF b
<1>4. Start(t, p, 1) = 7
  BY <1>2, <1>3
<1>5. \A k \in 1..5 : Start(t, p, k) \in Nat
  <2> SUFFICES ASSUME NEW k \in 1..5 PROVE 6 + k + p * b[k] \in Nat
    BY <1>3
  <2>1. b[k] \in Nat
    BY <1>2
  <2>2. p * b[k] \in Nat
    BY <2>1
  <2> QED BY <2>2
<1>6. ASSUME NEW k \in 1..4 PROVE Start(t, p, k + 1) = Start(t, p, k) + 1 + Amount(t, k) * p
  <2>1. b[k] \in Nat /\ n[k] \in Nat /\ b[k + 1] = b[k] + n[k] /\ n[k] = Amount(t, k)
    BY <1>1, <1>2
  <2>2. p * (b[k] + n[k]) = p * b[k] + n[k] * p
    BY <2>1
  <2>3. p * b[k] \in Nat /\ n[k] * p \in Nat
    BY <2>1
  <2> QED BY <1>3, <2>1, <2>2, <2>3
<1> QED BY <1>4, <1>5, <1>6

(* The three ways in which a file grows.                                       *)
LEMMA HeaderIsLaid ==
    ASSUME NEW t \in Table, NEW p \in Nat
    PROVE  /\ Laid(Header(t, p), t, p, 1)
           /\ Len(Header(t, p)) + 1 = Start(t, p, 1)
<1>1. /\ Header(t, p) \in Seq(Item) /\ Len(Header(t, p)) = 6
      /\ Start(t, p, 1) = 7
  BY HeaderItems, Starts
<1>2. DOMAIN Header(t, p) = 1..6
  BY <1>1
<1>3. 1..(1 - 1) = {}
  OBVIOUS
<1>4. Laid(Header(t, p), t, p, 1)
  BY <1>2, <1>3 DEF Laid
<1> QED BY <1>1, <1>4

LEMMA SizeIsLaid ==
    ASSUME NEW t \in Table, NEW p \in Nat, NEW k \in 1..4, NEW f \in Seq(Item),
           Laid(f, t, p, k), Len(f) + 1 = Start(t, p, k)
    PROVE  LET h == f \o <<WriteSize(Amount(t, k) * p)>> IN
           /\ h \in Seq(Item) /\ Laid(h, t, p, k) /\ Section(h, t, p, k, 0)
           /\ Len(h) = Start(t, p, k) + 0 * p
<1> DEFINE x == WriteSize(Amount(t, k) * p)
           g == <<x>>
           h == f \o g
<1>1. x \in Item
  <2>1. Amount(t, k) \in Nat
    BY Sizes, IntMaxAssumption
  <2>2. Amount(t, k) * p \in Nat
    BY <2>1
  <2> QED BY <2>2, SizeIsItem
<1>2. g \in Seq(Item) /\ Len(g) = 1 /\ g[1] = x
  <2> HIDE DEF x
  <2> QED BY <1>1
<1> HIDE DEF g
<1>3. h \in Seq(Item) /\ Grows(f, g, h)
  BY <1>2, Appended
<1> HIDE DEF h, x
<1>4. Laid(h, t, p, k)
  BY <1>3, LaidStays
<1>5. Start(t, p, k) \in DOMAIN h /\ h[Start(t, p, k)] = x /\ Len(h) = Start(t, p, k)
  <2>1. Len(f) + 1 \in DOMAIN h /\ h[Len(f) + 1] = g[1] /\ Len(h) = Len(f) + 1
    BY <1>2, <1>3 DEF Grows
  <2> QED BY <1>2, <2>1
<1>6. Section(h, t, p, k, 0)
  <2>1. 1..0 = {}
    OBVIOUS
  <2> QED BY <1>5, <2>1 DEF Section, x
<1>7. 0 * p = 0 /\ Start(t, p, k) \in Nat
  <2>1. k \in 1..5
    OBVIOUS
  <2>2. Start(t, p, k) \in Nat
    BY <2>1, Starts
  <2> QED BY <2>2
<1>8. Len(h) = Start(t, p, k) + 0 * p
  BY <1>5, <1>7
<1> QED BY <1>3, <1>4, <1>6, <1>8 DEF h, g, x

LEMMA ColumnIsLaid ==
    ASSUME NEW t \in Table, NEW p \in Nat, NEW k \in 1..4, NEW n \in Nat, NEW f \in Seq(Item),
           Laid(f, t, p, k), Section(f, t, p, k, n), Len(f) = Start(t, p, k) + n * p
    PROVE  LET h == f \o WriteColumn(k, n + 1, t[k][n + 1], p) IN
           /\ h \in Seq(Item) /\ Laid(h, t, p, k) /\ Section(h, t, p, k, n + 1)
           /\ Len(h) = Start(t, p, k) + (n + 1) * p
<1> DEFINE size == t[k][n + 1]
           g == WriteColumn(k, n + 1, size, p)
           h == f \o g
<1>1. /\ g \in Seq(Item) /\ Len(g) = p
      /\ \A r \in 1..p : g[r] = IF r <= size THEN WriteField(k, n + 1, r) ELSE Zero
  <2> HIDE DEF size
  <2>1. n + 1 \in Nat
    OBVIOUS
  <2> QED BY <2>1, ColumnItems
<1> HIDE DEF g
<1>2. h \in Seq(Item) /\ Grows(f, g, h)
  BY <1>1, Appended
<1> HIDE DEF h
<1>3. Laid(h, t, p, k) /\ Section(h, t, p, k, n)
  BY <1>2, LaidStays, SectionStays
<1>4. Start(t, p, k) \in Nat /\ n * p \in Nat /\ (n + 1) * p = n * p + p /\ ((n + 1) - 1) * p = n * p
  <2>1. k \in 1..5
    OBVIOUS
  <2>2. Start(t, p, k) \in Nat
    BY <2>1, Starts
  <2>3. n * p \in Nat /\ (n + 1) * p = n * p + p
    OBVIOUS
  <2>4. (n + 1) - 1 = n
    OBVIOUS
  <2> QED BY <2>2, <2>3, <2>4
<1>5. Len(h) = Start(t, p, k) + (n + 1) * p
  <2>1. Len(h) = Len(f) + p
    BY <1>1, <1>2 DEF Grows
  <2> QED BY <1>4, <2>1
<1>6. ASSUME NEW r \in 1..p
      PROVE  LET at == Start(t, p, k) + ((n + 1) - 1) * p + r IN
             at \in DOMAIN h /\ h[at] = IF r <= t[k][n + 1] THEN WriteField(k, n + 1, r) ELSE Zero
  <2>1. Len(f) + r \in DOMAIN h /\ h[Len(f) + r] = g[r]
    BY <1>1, <1>2 DEF Grows
  <2>2. Start(t, p, k) + ((n + 1) - 1) * p + r = Len(f) + r
    BY <1>4
  <2> QED BY <1>1, <2>1, <2>2
<1>7. Section(h, t, p, k, n + 1)
  <2>1. \A c \in 1..(n + 1) : c \in 1..n \/ c = n + 1
    OBVIOUS
  <2>2. ASSUME NEW c \in 1..(n + 1), NEW r \in 1..p
        PROVE  LET at == Start(t, p, k) + (c - 1) * p + r IN
               /\ at \in DOMAIN h
               /\ h[at] = IF r <= t[k][c] THEN WriteField(k, c, r) ELSE Zero
    <3>1. CASE c \in 1..n
      BY <1>3, <3>1 DEF Section
    <3>2. CASE c = n + 1
      BY <1>6, <3>2
    <3> QED BY <2>1, <3>1, <3>2
  <2> QED BY <1>3, <2>2 DEF Section
<1> QED BY <1>2, <1>3, <1>5, <1>7 DEF h, g

(* A section with all its columns ends where the next one starts.              *)
LEMMA SectionIsComplete ==
    ASSUME NEW t \in Table, NEW p \in Nat, NEW k \in 1..4, NEW f \in Seq(Item),
           Laid(f, t, p, k), Section(f, t, p, k, Amount(t, k)),
           Len(f) = Start(t, p, k) + Amount(t, k) * p
    PROVE  Laid(f, t, p, k + 1) /\ Len(f) + 1 = Start(t, p, k + 1)
<1>1. \A j \in 1..((k + 1) - 1) : j \in 1..(k - 1) \/ j = k
  OBVIOUS
<1>2. Laid(f, t, p, k + 1)
  <2>1. \A j \in 1..((k + 1) - 1) : Section(f, t, p, j, Amount(t, j))
    BY <1>1 DEF Laid
  <2> QED BY <2>1 DEF Laid
<1>3. Start(t, p, k + 1) = Start(t, p, k) + 1 + Amount(t, k) * p /\ Start(t, p, k) \in Nat
  <2>1. k \in 1..5
    OBVIOUS
  <2> QED BY <2>1, Starts
<1>4. Amount(t, k) * p \in Nat
  <2>1. Amount(t, k) \in Nat
    BY Sizes, IntMaxAssumption
  <2> QED BY <2>1
<1> QED BY <1>2, <1>3, <1>4

(* Between the files, all that were opened are complete.                       *)
LEMMA FilesStay ==
    ASSUME FilesInv, assignments' = assignments, files' = files, full' = full,
           pc \notin {"header", "section", "column"}, pc' \notin {"header", "section", "column"}
    PROVE  FilesInv'
<1>1. \A name : ~ Busy(name) /\ ~ Busy(name)'
  BY DEF Busy
<1>2. \A name : Written(name) => Written(name)'
  BY <1>1, Zenon DEF Written
<1> QED BY <1>2 DEF FilesInv

(* A step of one file leaves the others.                                       *)
LEMMA OtherFilesStay ==
    ASSUME FilesInv, full' = full, ~ full, assignments' = assignments, table' = table,
           DOMAIN files' = DOMAIN files,
           \A name \in DOMAIN files : name # table => files'[name] = files[name],
           Written(table)'
    PROVE  FilesInv'
<1>1. ASSUME NEW name \in DOMAIN files, name # table PROVE Written(name)'
  <2>1. ~ Busy(name) /\ ~ Busy(name)'
    BY <1>1 DEF Busy
  <2>2. Written(name)
    BY DEF FilesInv
  <2>3. files'[name] = files[name]
    BY <1>1
  <2> QED BY <2>1, <2>2, <2>3, Zenon DEF Written
<1>2. \A name \in DOMAIN files' : Written(name)'
  BY <1>1
<1> QED BY <1>2 DEF FilesInv

LEMMA OpenFileWrites == OutputInv /\ FilesInv /\ OpenFile => FilesInv'
<1> SUFFICES ASSUME OutputInv, FilesInv, OpenFile PROVE FilesInv'
  OBVIOUS
<1>1. /\ pc = "open" /\ assignments' = assignments /\ full' = full
      /\ \/ pc' = "cannot open" /\ UNCHANGED <<table, queue, files>>
         \/ \E t \in queue : /\ pc' = "header" /\ table' = t
               /\ files' = [u \in DOMAIN files \cup {t} |-> IF u = t THEN <<>> ELSE files[u]]
  BY DEF OpenFile
<1>2. CASE pc' = "cannot open" /\ UNCHANGED <<table, queue, files>>
  BY <1>1, <1>2, FilesStay
<1>3. ASSUME NEW t \in queue, pc' = "header", table' = t,
             files' = [u \in DOMAIN files \cup {t} |-> IF u = t THEN <<>> ELSE files[u]]
      PROVE  FilesInv'
  <2>1. SUFFICES ASSUME ~ full PROVE \A name \in DOMAIN files' : Written(name)'
    BY <1>1 DEF FilesInv
  <2>2. /\ DOMAIN files' = DOMAIN files \cup {t} /\ files'[t] = <<>>
        /\ \A name \in DOMAIN files : name # t => files'[name] = files[name]
    BY <1>3
  <2>3. ASSUME NEW name \in DOMAIN files, name # t PROVE Written(name)'
    <3>1. ~ Busy(name) /\ ~ Busy(name)'
      BY <1>1, <1>3, <2>3 DEF Busy
    <3>2. Written(name)
      BY <2>1 DEF FilesInv
    <3>3. files'[name] = files[name]
      BY <2>2, <2>3
    <3> QED BY <1>1, <3>1, <3>2, <3>3, Zenon DEF Written
  <2>4. Written(t)'
    <3>1. Busy(t)' /\ <<>> \in Seq(Item)
      BY <1>3 DEF Busy
    <3> QED BY <1>3, <2>2, <3>1 DEF Written
  <2> QED BY <2>2, <2>3, <2>4
<1> QED BY <1>1, <1>2, <1>3

(* The file that is being written, and its table.                              *)
LEMMA TableWritten ==
    ASSUME OutputInv, FilesInv, ~ full, pc \in {"header", "section", "column"}
    PROVE  /\ table \in DOMAIN files /\ assignments[table] \in Table /\ Busy(table) /\ Written(table)
           /\ UsableRows(assignments[table]) \in 0..IntMax
           /\ \A p \in PaddedRows(UsableRows(assignments[table])) : p \in Nat
           /\ col = <<col[1], col[2], col[3]>> /\ col[1] \in 1..5 /\ col[2] \in Nat /\ col[3] \in Nat
<1>1. /\ table \in DOMAIN files /\ assignments \in Assignments /\ table \in DOMAIN assignments
      /\ col \in (1..5) \X Nat \X (0..(Pow2[Width] - 1))
  BY DEF OutputInv, TypeOK, Typed
<1>2. assignments[table] \in Table
  BY <1>1, TablesAreTables
<1>3. UsableRows(assignments[table]) \in 0..IntMax
  BY <1>2, Sizes
<1>4. \A p \in PaddedRows(UsableRows(assignments[table])) : p \in Nat
  <2>1. \A p \in PaddedRows(UsableRows(assignments[table])) : p \in 0..(Pow2[Width] - 1)
    BY <1>3, PaddedFits
  <2> QED BY <2>1
<1>5. col = <<col[1], col[2], col[3]>> /\ col[1] \in 1..5 /\ col[2] \in Nat /\ col[3] \in Nat
  BY <1>1
<1>6. Busy(table) /\ Written(table)
  BY <1>1 DEF Busy, FilesInv
<1> QED BY <1>1, <1>2, <1>3, <1>4, <1>5, <1>6

LEMMA HeaderWrites == OutputInv /\ FilesInv /\ WriteHeader => FilesInv'
<1> SUFFICES ASSUME OutputInv, FilesInv, WriteHeader PROVE FilesInv'
  OBVIOUS
<1>1. /\ pc = "header" /\ pc' = "section" /\ assignments' = assignments /\ table' = table
      /\ full' = full
  BY DEF WriteHeader
<1>2. SUFFICES ASSUME ~ full PROVE FilesInv'
  BY <1>1 DEF FilesInv
<1> DEFINE t == assignments[table]
<1>3. /\ table \in DOMAIN files /\ t \in Table /\ Busy(table) /\ Written(table)
      /\ \A p \in PaddedRows(UsableRows(t)) : p \in Nat
  BY <1>1, <1>2, TableWritten
<1>4. PICK p \in PaddedRows(UsableRows(t)) :
          /\ files' = [files EXCEPT ![table] = @ \o Header(t, p)] /\ col' = <<1, 0, p>>
  BY <1>2 DEF WriteHeader, Write
<1>5. files[table] = <<>>
  BY <1>1, <1>3 DEF Written
<1>6. Header(t, p) \in Seq(Item) /\ Laid(Header(t, p), t, p, 1) /\ Len(Header(t, p)) + 1 = Start(t, p, 1)
  BY <1>3, HeaderItems, HeaderIsLaid
<1> DEFINE h == Header(t, p)
<1>7. files' = [files EXCEPT ![table] = h] /\ files'[table] = h
  <2>1. <<>> \o h = h
    BY <1>6
  <2> HIDE DEF h, t
  <2> QED BY <1>3, <1>4, <1>5, <2>1 DEF h
<1>8. Written(table)'
  <2>1. Busy(table)'
    BY <1>1 DEF Busy
  <2>2. col'[1] = 1 /\ col'[2] = 0 /\ col'[3] = p
    BY <1>4
  <2> HIDE DEF h
  <2>3. t' = t
    BY <1>1
  <2> HIDE DEF t
  <2>4. /\ h \in Seq(Item) /\ Laid(h, t, p, 1) /\ Len(h) + 1 = Start(t, p, 1)
    BY <1>6 DEF h
  <2> QED BY <1>1, <1>4, <1>7, <2>1, <2>2, <2>3, <2>4 DEF Written, t
<1> HIDE DEF h
<1>9. /\ DOMAIN files' = DOMAIN files
      /\ \A name \in DOMAIN files : name # table => files'[name] = files[name]
  BY <1>7
<1> QED BY <1>1, <1>2, <1>3, <1>8, <1>9, OtherFilesStay

LEMMA SectionWrites == OutputInv /\ FilesInv /\ WriteSectionSize => FilesInv'
<1> SUFFICES ASSUME OutputInv, FilesInv, WriteSectionSize PROVE FilesInv'
  OBVIOUS
<1>1. /\ pc = "section" /\ assignments' = assignments /\ table' = table /\ full' = full /\ col' = col
  BY DEF WriteSectionSize
<1>2. SUFFICES ASSUME ~ full PROVE FilesInv'
  BY <1>1 DEF FilesInv
<1> DEFINE t == assignments[table]
           f == files[table]
           k == col[1]
           p == col[3]
<1>3. /\ table \in DOMAIN files /\ t \in Table /\ Busy(table) /\ Written(table)
      /\ p \in Nat /\ k \in 1..5
  BY <1>1, <1>2, TableWritten
<1>4. /\ f \in Seq(Item) /\ p \in PaddedRows(UsableRows(t)) /\ Laid(f, t, p, k)
      /\ col[2] = 0 /\ Len(f) + 1 = Start(t, p, k)
  BY <1>1, <1>3 DEF Written
<1>5. CASE k <= 4
  <2> DEFINE h == f \o <<WriteSize(Amount(t, k) * p)>>
  <2>1. files' = [files EXCEPT ![table] = h] /\ pc' = "column"
    BY <1>2, <1>5 DEF WriteSectionSize, Write
  <2>2. k \in 1..4
    BY <1>3, <1>5
  <2>3. /\ h \in Seq(Item) /\ Laid(h, t, p, k) /\ Section(h, t, p, k, 0)
        /\ Len(h) = Start(t, p, k) + 0 * p
    <3> HIDE DEF t, f, k, p
    <3> QED BY <1>3, <1>4, <2>2, SizeIsLaid
  <2> HIDE DEF h
  <2>4. /\ DOMAIN files' = DOMAIN files /\ files'[table] = h
        /\ \A name \in DOMAIN files : name # table => files'[name] = files[name]
    BY <1>3, <2>1
  <2>5. Written(table)'
    <3>1. Busy(table)'
      BY <1>1, <2>1 DEF Busy
    <3>2. 0 <= Amount(t, k)
      BY <1>3, <2>2, Sizes
    <3>3. t' = t /\ k' = k /\ p' = p /\ col'[2] = 0
      BY <1>1, <1>4
    <3> HIDE DEF t
    <3> QED BY <1>1, <1>4, <2>1, <2>3, <2>4, <3>1, <3>2, <3>3 DEF Written, t
  <2> QED BY <1>1, <1>2, <1>3, <2>5, <2>4, OtherFilesStay
<1>6. CASE ~ (k <= 4)
  <2>1. files' = files /\ pc' = "open"
    BY <1>6 DEF WriteSectionSize
  <2>2. k = 5
    BY <1>3, <1>6
  <2>3. Written(table)'
    <3>1. ~ Busy(table)'
      BY <2>1 DEF Busy
    <3>2. t' = t /\ f' = f
      BY <1>1, <2>1
    <3> HIDE DEF t, f
    <3> QED BY <1>4, <2>2, <3>1, <3>2 DEF Written, t, f
  <2> QED BY <1>1, <1>2, <1>3, <2>1, <2>3, OtherFilesStay
<1> QED BY <1>5, <1>6

LEMMA ColumnWrites == OutputInv /\ FilesInv /\ WriteNextColumn => FilesInv'
<1> SUFFICES ASSUME OutputInv, FilesInv, WriteNextColumn PROVE FilesInv'
  OBVIOUS
<1>1. /\ pc = "column" /\ assignments' = assignments /\ table' = table /\ full' = full
  BY DEF WriteNextColumn
<1>2. SUFFICES ASSUME ~ full PROVE FilesInv'
  BY <1>1 DEF FilesInv
<1> DEFINE t == assignments[table]
           f == files[table]
           k == col[1]
           n == col[2]
           p == col[3]
<1>3. /\ table \in DOMAIN files /\ t \in Table /\ Busy(table) /\ Written(table)
      /\ p \in Nat /\ n \in Nat /\ k \in 1..5 /\ col = <<k, n, p>>
  BY <1>1, <1>2, TableWritten
<1>4. /\ f \in Seq(Item) /\ p \in PaddedRows(UsableRows(t)) /\ Laid(f, t, p, k)
      /\ Section(f, t, p, k, n) /\ n <= Amount(t, k) /\ Len(f) = Start(t, p, k) + n * p
  BY <1>1, <1>3 DEF Written
<1>5. k \in 1..4
  BY <1>1, <1>3 DEF OutputInv, Typed
<1>6. Amount(t, k) \in Nat
  BY <1>3, <1>5, Sizes, IntMaxAssumption
<1>7. CASE n < Amount(t, k)
  <2> DEFINE h == f \o WriteColumn(k, n + 1, t[k][n + 1], p)
  <2>1. files' = [files EXCEPT ![table] = h] /\ pc' = "column" /\ col' = [col EXCEPT ![2] = @ + 1]
    BY <1>1, <1>2, <1>7 DEF WriteNextColumn, Write
  <2>2. k' = k /\ n' = n + 1 /\ p' = p /\ t' = t
    BY <1>1, <1>3, <2>1
  <2>3. /\ h \in Seq(Item) /\ Laid(h, t, p, k) /\ Section(h, t, p, k, n + 1)
        /\ Len(h) = Start(t, p, k) + (n + 1) * p
    <3> HIDE DEF t, f, k, n, p
    <3> QED BY <1>3, <1>4, <1>5, ColumnIsLaid
  <2> HIDE DEF h
  <2>4. n + 1 <= Amount(t, k)
    <3> HIDE DEF t, k, n
    <3> QED BY <1>3, <1>6, <1>7
  <2>5. /\ DOMAIN files' = DOMAIN files /\ files'[table] = h
        /\ \A name \in DOMAIN files : name # table => files'[name] = files[name]
    BY <1>3, <2>1
  <2>6. Written(table)'
    <3>1. Busy(table)'
      BY <1>1, <2>1 DEF Busy
    <3> HIDE DEF t
    <3> QED BY <1>1, <1>4, <2>1, <2>2, <2>3, <2>4, <2>5, <3>1 DEF Written, t
  <2> QED BY <1>1, <1>2, <1>3, <2>6, <2>5, OtherFilesStay
<1>8. CASE ~ (n < Amount(t, k))
  <2>1. files' = files /\ pc' = "section" /\ col' = <<k + 1, 0, p>>
    BY <1>8 DEF WriteNextColumn
  <2>2. k' = k + 1 /\ col'[2] = 0 /\ p' = p /\ t' = t /\ f' = f
    BY <1>1, <2>1
  <2>3. n = Amount(t, k)
    <3> HIDE DEF t, k, n
    <3> QED BY <1>3, <1>4, <1>6, <1>8
  <2>4. Laid(f, t, p, k + 1) /\ Len(f) + 1 = Start(t, p, k + 1)
    <3> HIDE DEF t, f, k, n, p
    <3> QED BY <1>3, <1>4, <1>5, <2>3, SectionIsComplete
  <2>5. Written(table)'
    <3>1. Busy(table)'
      BY <1>1, <2>1 DEF Busy
    <3> HIDE DEF t, f
    <3> QED BY <1>1, <1>4, <2>1, <2>2, <2>4, <3>1 DEF Written, t, f
  <2> QED BY <1>1, <1>2, <1>3, <2>1, <2>5, OtherFilesStay
<1> QED BY <1>7, <1>8

LEMMA FilesStep == OutputInv /\ FilesInv /\ [Next]_vars => FilesInv'
<1> SUFFICES ASSUME OutputInv, FilesInv, [Next]_vars PROVE FilesInv'
  OBVIOUS
<1>1. CASE \/ ParseTables \/ ParseRows \/ ParseColumn \/ ColumnsParsed
           \/ FilesWritten \/ ExportTable \/ AllExported
  <2>1. assignments' = assignments /\ files' = files /\ full' = full
    BY <1>1 DEF ParseTables, ParseRows, ParseColumn, ColumnsParsed, FilesWritten, ExportTable,
                AllExported, binary
  <2>2. /\ pc \notin {"header", "section", "column"}
        /\ pc' \notin {"header", "section", "column"}
    BY <1>1 DEF ParseTables, ParseRows, ParseColumn, ColumnsParsed, FilesWritten, ExportTable,
                AllExported, Leave
  <2> QED BY <2>1, <2>2, FilesStay
<1>2. CASE OpenFile
  BY <1>2, OpenFileWrites
<1>3. CASE WriteHeader
  BY <1>3, HeaderWrites
<1>4. CASE WriteSectionSize
  BY <1>4, SectionWrites
<1>5. CASE WriteNextColumn
  BY <1>5, ColumnWrites
<1>6. CASE DiskFills
  BY <1>6 DEF DiskFills, FilesInv
<1>7. CASE UNCHANGED vars
  <2>1. /\ assignments' = assignments /\ pc' = pc /\ table' = table /\ col' = col
        /\ files' = files /\ full' = full
    BY <1>7 DEF vars, binary
  <2>2. \A name : Busy(name)' = Busy(name)
    BY <2>1 DEF Busy
  <2>3. \A name : Written(name) => Written(name)'
    BY <2>1, <2>2, Zenon DEF Written
  <2> QED BY <2>1, <2>3 DEF FilesInv
<1> QED BY <1>1, <1>2, <1>3, <1>4, <1>5, <1>6, <1>7 DEF Next

(* The padding of a size that half of the width holds is a power of two, at    *)
(* least eight, and greater than the size: a row is left over.                 *)
LEMMA PaddingIsGreater ==
    ASSUME NEW n \in 0..IntMax, n < Pow2[Width - 1], NEW p \in PaddedRows(n)
    PROVE  p > n /\ p >= 8 /\ \E i \in 3..Width : p = Pow2[i]
<1> DEFINE W == Pow2[Width]
           H == Pow2[Width - 1]
<1>1. /\ Width \in Nat /\ Width >= 4 /\ Width \in 1..Width /\ Width - 1 \in 1..Width
      /\ Width - 1 \in 0..Width /\ IntMax \in Nat
  BY OutputAssumption, IntMaxAssumption
<1>2. /\ \A i \in 0..Width : Pow2[i] \in Nat /\ Pow2[i] >= 1
      /\ Pow2[0] = 1 /\ \A i \in 1..Width : Pow2[i] = 2 * Pow2[i - 1]
  BY Pow2Values, Pow2Grows
<1>3. Pow2[1] = 2 /\ Pow2[2] = 4 /\ Pow2[3] = 8
  <2>1. 1 \in 1..Width /\ 2 \in 1..Width /\ 3 \in 1..Width
    BY <1>1
  <2>2. Pow2[1] = 2
    BY <1>2, <2>1
  <2>3. Pow2[2] = 4
    BY <1>2, <2>1, <2>2
  <2> QED BY <1>2, <2>1, <2>3
<1>4. W = 2 * H /\ H \in Nat /\ H >= 1 /\ W \in Nat /\ n \in Nat /\ n < H
  BY <1>1, <1>2
<1>5. 3 \in 3..Width
  BY <1>1
<1>6. PICK q \in RoundedUp(n) : p = Max({8, IF q = n THEN (2 * q) % W ELSE q})
  BY DEF PaddedRows
<1>7. CASE n = 0
  <2>1. q = 0
    BY <1>6, <1>7 DEF RoundedUp
  <2>2. (2 * q) % W = 0
    <3> HIDE DEF W
    <3> QED BY <1>4, <2>1
  <2>3. p = Max({8, 0})
    <3> HIDE DEF W
    <3> QED BY <1>6, <1>7, <2>1, <2>2
  <2>4. {8, 0} \subseteq 0..8 /\ 8 \in Nat
    OBVIOUS
  <2>5. Max({8, 0}) = 8
    <3>1. Max({8, 0}) \in {8, 0} /\ \A y \in {8, 0} : y <= Max({8, 0})
      BY <2>4, MaxOf
    <3> QED BY <3>1
  <2> QED BY <1>3, <1>5, <1>7, <2>3, <2>5
<1>8. CASE n # 0
  <2> DEFINE S == {Pow2[i] : i \in {j \in 0..Width : Pow2[j] >= n}}
  <2>1. S \subseteq Nat /\ H \in S
    <3>1. Width - 1 \in {j \in 0..Width : Pow2[j] >= n}
      BY <1>1, <1>4
    <3> QED BY <1>2, <3>1
  <2>2. Min(S) \in S /\ Min(S) <= H
    <3> HIDE DEF S
    <3> QED BY <2>1, MinOf
  <2>3. PICK i \in 0..Width : Min(S) = Pow2[i] /\ Pow2[i] >= n
    BY <2>2
  <2>4. Pow2[i] <= H /\ Pow2[i] < W /\ Pow2[i] \in Nat
    BY <1>2, <1>4, <2>2, <2>3
  <2>5. q = Pow2[i]
    <3>1. RoundedUp(n) = IF Min(S) < W THEN {Min(S)} ELSE {0, W - 1}
      BY <1>8 DEF RoundedUp
    <3> HIDE DEF S, W
    <3> QED BY <1>6, <2>3, <2>4, <3>1
  <2> DEFINE x == IF q = n THEN (2 * q) % W ELSE q
  <2>6. \E j \in 0..Width : x = Pow2[j] /\ x > n
    <3>1. CASE q = n
      <4>1. 2 * q < W /\ 2 * q > n /\ 2 * q \in Nat
        BY <1>4, <1>8, <3>1
      <4>2. x = 2 * q
        <5> HIDE DEF W
        <5>1. (2 * q) % W = 2 * q
          BY <1>4, <4>1
        <5> QED BY <3>1, <5>1
      <4>3. i # Width
        <5>1. i = Width => Pow2[i] = W
          OBVIOUS
        <5> QED BY <2>4, <5>1
      <4>4. i + 1 \in 1..Width /\ i + 1 \in 0..Width /\ (i + 1) - 1 = i
        BY <1>1, <4>3
      <4>5. Pow2[i + 1] = 2 * q
        BY <1>2, <2>5, <4>4
      <4> QED BY <4>1, <4>2, <4>4, <4>5
    <3>2. CASE q # n
      BY <1>4, <2>3, <2>4, <2>5, <3>2
    <3> QED BY <3>1, <3>2
  <2> HIDE DEF x
  <2>7. PICK j \in 0..Width : x = Pow2[j] /\ x > n
    BY <2>6
  <2>8. x \in Nat
    BY <1>2, <2>7
  <2>9. p \in {8, x} /\ 8 <= p /\ x <= p
    <3>1. p = Max({8, x})
      BY <1>6 DEF x
    <3>2. {8, x} \subseteq 0..(8 + x) /\ 8 + x \in Nat
      BY <2>8
    <3>3. Max({8, x}) \in {8, x} /\ \A y \in {8, x} : y <= Max({8, x})
      BY <3>2, MaxOf
    <3> QED BY <3>1, <3>3
  <2>10. p > n /\ p >= 8
    BY <1>4, <2>7, <2>8, <2>9
  <2>11. \E l \in 3..Width : p = Pow2[l]
    <3>1. CASE p = 8
      BY <1>3, <1>5, <3>1
    <3>2. CASE p = x /\ p # 8
      <4>1. Pow2[j] >= 8
        BY <2>7, <2>9, <3>2
      <4>2. j # 0 /\ j # 1 /\ j # 2
        BY <1>2, <1>3, <4>1
      <4>3. j \in 3..Width
        BY <1>1, <4>2
      <4> QED BY <2>7, <3>2, <4>3
    <3> QED BY <2>9, <3>1, <3>2
  <2> QED BY <2>10, <2>11
<1> QED BY <1>7, <1>8

(* What is written with assertions, and what a reader makes of it.             *)
LEMMA SizeIsWord ==
    ASSUME Asserts, NEW n \in Nat, n < Pow2[Width] PROVE WriteSize(n) = Word(n)
<1>1. n % Pow2[Width] = n
  <2> DEFINE W == Pow2[Width]
  <2>1. W \in Nat /\ n < W
    BY Pow2Grows
  <2> HIDE DEF W
  <2>2. n % W = n
    BY <2>1
  <2> QED BY <2>2 DEF W
<1> QED BY <1>1 DEF WriteSize

LEMMA HeaderValues ==
    ASSUME Asserts, NEW t \in Table, NEW p \in 0..(Pow2[Width] - 1)
    PROVE  /\ \A k \in 1..4 : Header(t, p)[k] = Word(Amount(t, k))
           /\ Header(t, p)[5] = Word(UsableRows(t)) /\ Header(t, p)[6] = Word(p)
<1> DEFINE W == Pow2[Width]
           u == UsableRows(t)
           a == [k \in 1..4 |-> WriteSize(Amount(t, k))]
           b == <<WriteSize(u), WriteSize(p)>>
<1>1. W \in Nat /\ IntMax \in Nat /\ IntMax < W
  BY Pow2Grows, OutputAssumption, IntMaxAssumption
<1> HIDE DEF W, u
<1>2. /\ u \in Nat /\ u < W /\ p \in Nat /\ p < W
      /\ \A k \in 1..4 : Amount(t, k) \in Nat /\ Amount(t, k) < W
  <2>1. u \in 0..IntMax /\ \A k \in 1..4 : Amount(t, k) \in 0..IntMax
    BY Sizes DEF u
  <2>2. p \in 0..(W - 1)
    BY DEF W
  <2> QED BY <1>1, <2>1, <2>2
<1>3. /\ WriteSize(u) = Word(u) /\ WriteSize(p) = Word(p)
      /\ \A k \in 1..4 : WriteSize(Amount(t, k)) = Word(Amount(t, k))
  BY <1>2, SizeIsWord DEF W
<1>4. Header(t, p) = a \o b
  BY DEF Header, u
<1>5. a \in Seq(Item) /\ Len(a) = 4 /\ \A k \in 1..4 : a[k] = WriteSize(Amount(t, k))
  <2>1. a \in [1..4 -> Item] /\ \A k \in 1..4 : a[k] = WriteSize(Amount(t, k))
    BY <1>2, SizeIsItem
  <2> HIDE DEF a
  <2>2. 4 \in Nat
    OBVIOUS
  <2>3. a \in Seq(Item) /\ Len(a) = 4
    BY <2>1, <2>2, FunctionIsSeq, Zenon
  <2> QED BY <2>1, <2>3
<1>6. b \in Seq(Item) /\ Len(b) = 2 /\ b[1] = WriteSize(u) /\ b[2] = WriteSize(p)
  <2>1. WriteSize(u) \in Item /\ WriteSize(p) \in Item
    BY <1>2, SizeIsItem
  <2> QED BY <2>1
<1> HIDE DEF a, b
<1>7. Grows(a, b, a \o b)
  BY <1>5, <1>6, Appended
<1>8. /\ \A k \in 1..4 : (a \o b)[k] = a[k]
      /\ (a \o b)[5] = b[1] /\ (a \o b)[6] = b[2]
  <2>1. DOMAIN a = 1..4
    BY <1>5
  <2>2. \A i \in 1..4 : (a \o b)[i] = a[i]
    BY <1>7, <2>1 DEF Grows
  <2>3. \A i \in 1..2 : (a \o b)[4 + i] = b[i]
    BY <1>5, <1>6, <1>7 DEF Grows
  <2> HIDE DEF W
  <2>4. (a \o b)[4 + 1] = b[1] /\ (a \o b)[4 + 2] = b[2]
    <3>1. 1 \in 1..2 /\ 2 \in 1..2
      OBVIOUS
    <3> QED BY <2>3, <3>1, Zenon
  <2>5. 4 + 1 = 5 /\ 4 + 2 = 6
    OBVIOUS
  <2>6. (a \o b)[5] = b[1] /\ (a \o b)[6] = b[2]
    BY <2>4, <2>5, Zenon
  <2> QED BY <2>2, <1>5, <2>6
<1> QED BY <1>3, <1>4, <1>5, <1>6, <1>8 DEF u

(* Compiled with assertions, a file that is complete gives back its table to a *)
(* reader who knows nothing but the format - the six sizes of the header, then *)
(* one size and the padded columns for every kind - for all tables whose sizes *)
(* fit 32 bits.                                                                *)
THEOREM FilesReadBack == ASSUME Asserts PROVE Spec => []FileReadsBack
<1>1. ASSUME OutputInv, FilesInv PROVE FileReadsBack
  <2> SUFFICES ASSUME NEW name \in DOMAIN files, Complete(name), Fits(assignments[name])
               PROVE  LET f == files[name]
                          t == assignments[name]
                          padded == f[6][3]
                          count == [k \in 1..4 |-> f[k][3]]
                          start(k) == 6 + k + padded * Before(count)[k]
                      IN  /\ Len(f) = 10 + padded * Before(count)[5]
                          /\ f[5] = Word(UsableRows(t)) /\ padded > UsableRows(t) /\ padded >= 8
                          /\ \E i \in 3..Width : padded = Pow2[i]
                          /\ \A k \in 1..4 :
                                /\ count[k] = Len(t[k])
                                /\ f[start(k)] = Word(count[k] * padded)
                                /\ \A c \in 1..count[k], r \in 1..padded :
                                      f[start(k) + (c - 1) * padded + r]
                                          = IF r <= t[k][c] THEN Field(k, c, r) ELSE Zero
    BY Zenon DEF FileReadsBack
  <2> DEFINE f == files[name]
             t == assignments[name]
             padded == f[6][3]
             count == [k \in 1..4 |-> f[k][3]]
             n == [j \in 1..4 |-> Amount(t, j)]
  <2>1. ~ full /\ ~ Busy(name)
    BY DEF Complete, Busy
  <2>2. t \in Table
    <3>1. assignments \in Assignments /\ name \in DOMAIN assignments
      BY <1>1 DEF OutputInv, TypeOK
    <3> QED BY <3>1, TablesAreTables
  <2>3. f \in Seq(Item) /\ \E p \in PaddedRows(UsableRows(t)) :
                                Laid(f, t, p, 5) /\ Len(f) + 1 = Start(t, p, 5)
    BY <1>1, <2>1 DEF FilesInv, Written
  <2>4. PICK p \in PaddedRows(UsableRows(t)) : Laid(f, t, p, 5) /\ Len(f) + 1 = Start(t, p, 5)
    BY <2>3
  <2>5. Fits(t)
    OBVIOUS
  <2> HIDE DEF f, t
  <2>6. /\ UsableRows(t) \in 0..IntMax /\ UsableRows(t) \in Nat
        /\ \A k \in 1..4 : Amount(t, k) \in Nat
    BY <2>2, Sizes, IntMaxAssumption
  <2>7. p \in 0..(Pow2[Width] - 1) /\ p \in Nat
    <3>1. p \in 0..(Pow2[Width] - 1)
      BY <2>6, PaddedFits
    <3> QED BY <3>1
  <2>8. \A i \in 1..6 : f[i] = Header(t, p)[i]
    BY <2>4 DEF Laid
  <2>9. /\ \A k \in 1..4 : f[k] = Word(Amount(t, k))
        /\ f[5] = Word(UsableRows(t)) /\ f[6] = Word(p)
    BY <2>2, <2>7, <2>8, HeaderValues
  <2>10. \A x : Word(x)[3] = x
    BY DEF Word
  <2>11. padded = p /\ count = n
    BY <2>9, <2>10
  <2>12. p > UsableRows(t) /\ p >= 8 /\ \E i \in 3..Width : p = Pow2[i]
    BY <2>5, <2>6, PaddingIsGreater DEF Fits
  <2>13. \A k : 6 + k + padded * Before(count)[k] = Start(t, p, k)
    <3> HIDE DEF padded, count
    <3> QED BY <2>11 DEF Start
  <2>14. Len(f) = 10 + padded * Before(count)[5]
    <3>1. Start(t, p, 5) = 6 + 5 + padded * Before(count)[5] /\ Start(t, p, 5) \in Nat
      BY <2>2, <2>7, <2>13, Starts
    <3> DEFINE x == padded * Before(count)[5]
    <3>2. x \in Int
      <4>1. Before(n)[5] = n[1] + n[2] + n[3] + n[4]
        BY DEF Before
      <4>2. n[1] \in Nat /\ n[2] \in Nat /\ n[3] \in Nat /\ n[4] \in Nat
        BY <2>6
      <4> HIDE DEF n, padded, count
      <4>3. Before(count)[5] \in Nat /\ padded \in Nat
        BY <2>7, <2>11, <4>1, <4>2
      <4> QED BY <4>3
    <3> HIDE DEF x, padded, count
    <3>3. Len(f) \in Nat
      BY <2>3
    <3> QED BY <2>4, <3>1, <3>2, <3>3 DEF x
  <2>15. ASSUME NEW k \in 1..4
         PROVE  /\ count[k] = Len(t[k])
                /\ f[Start(t, p, k)] = Word(count[k] * p)
                /\ \A c \in 1..count[k], r \in 1..p :
                      f[Start(t, p, k) + (c - 1) * p + r]
                          = IF r <= t[k][c] THEN Field(k, c, r) ELSE Zero
    <3>1. count[k] = Amount(t, k)
      BY <2>11
    <3> HIDE DEF count
    <3>2. Section(f, t, p, k, Amount(t, k))
      <4>1. k \in 1..(5 - 1)
        OBVIOUS
      <4> QED BY <2>4, <4>1 DEF Laid
    <3>3. WriteSize(Amount(t, k) * p) = Word(Amount(t, k) * p)
      <4>1. Amount(t, k) * p \in Nat
        BY <2>6, <2>7
      <4>2. Amount(t, k) * p < Pow2[Width]
        BY <2>4, <2>5 DEF Fits
      <4> QED BY <4>1, <4>2, SizeIsWord
    <3>4. \A c : \A r : WriteField(k, c, r) = Field(k, c, r)
      BY DEF WriteField
    <3> QED BY <3>1, <3>2, <3>3, <3>4 DEF Section, Amount
  <2> DEFINE start(k) == 6 + k + padded * Before(count)[k]
  <2>16. \A k \in 1..4 :
            /\ count[k] = Len(t[k])
            /\ f[start(k)] = Word(count[k] * padded)
            /\ \A c \in 1..count[k], r \in 1..padded :
                  f[start(k) + (c - 1) * padded + r]
                      = IF r <= t[k][c] THEN Field(k, c, r) ELSE Zero
    <3>1. \A k : start(k) = Start(t, p, k)
      BY <2>13, Zenon
    <3> HIDE DEF start, padded, count
    <3> QED BY <2>11, <2>15, <3>1
  <2>17. /\ padded > UsableRows(t) /\ padded >= 8
         /\ \E i \in 3..Width : padded = Pow2[i]
    <3> HIDE DEF padded, count
    <3> QED BY <2>11, <2>12
  <2>18. f[5] = Word(UsableRows(t))
    BY <2>9
  <2> USE DEF f, t
  <2> QED BY <2>14, <2>16, <2>17, <2>18, Zenon
<1>2. Init => FilesInv
  <2>1. DOMAIN <<>> = {}
    OBVIOUS
  <2> QED BY <2>1, Zenon DEF Init, FilesInv
<1>3. Spec => []FilesInv
  BY <1>2, InitOutputInv, OutputStep, FilesStep, PTL DEF Spec
<1> QED BY <1>1, <1>3, OutputInvariant, PTL

================================================================================
