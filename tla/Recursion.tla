------------------------------- MODULE Recursion -------------------------------
(*****************************************************************************)
(* Induction up to a number, stated with sets instead of operators so that   *)
(* every prover can instantiate it, and what it gives: the value of a        *)
(* recursive function over 0..N, from either end, and the least and the      *)
(* greatest of the members of a set of numbers.                              *)
(*****************************************************************************)
EXTENDS Integers, Sequences, NaturalsInduction, WellFoundedInduction, TLAPS

(* A set of naturals that is not empty has a least member.                     *)
LEMMA LeastExists ==
    ASSUME NEW S, S \subseteq Nat, S # {}
    PROVE  \E x \in S : \A y \in S : x <= y
<1>1. PICK x \in S : \A y \in S : ~(<<y, x>> \in OpToRel(<, Nat))
  BY NatLessThanWellFounded, WFMin, Zenon
<1>2. \A y \in S : ~(y < x)
  BY <1>1 DEF OpToRel
<1> QED BY <1>2

(* A set of naturals with a bound that is not empty has a greatest member.     *)
LEMMA GreatestExists ==
    ASSUME NEW S, S \subseteq Nat, S # {}, NEW B \in Nat, \A y \in S : y <= B
    PROVE  \E x \in S : \A y \in S : y <= x
<1> DEFINE L == {B - y : y \in S}
<1>1. L \subseteq Nat /\ L # {}
  <2>1. \A y \in S : y \in Nat /\ B - y \in Nat
    OBVIOUS
  <2> QED BY <2>1
<1>2. PICK d \in L : \A e \in L : d <= e
  <2> HIDE DEF L
  <2> QED BY <1>1, LeastExists
<1>3. PICK x \in S : d = B - x
  OBVIOUS
<1>4. ASSUME NEW y \in S PROVE y <= x
  <2>1. B - y \in L
    OBVIOUS
  <2>2. d <= B - y
    BY <1>2, <2>1
  <2> QED BY <1>3, <2>2
<1> QED BY <1>4

(* What holds of 0 and carries over to the next number holds up to N.          *)
LEMMA InductionUpTo ==
    ASSUME NEW N \in Nat, NEW S, 0 \in S, \A n \in 0..(N - 1) : n \in S => n + 1 \in S
    PROVE  \A n \in 0..N : n \in S
<1> DEFINE Out == (0..N) \ S
<1>1. SUFFICES ASSUME Out # {} PROVE FALSE
  OBVIOUS
<1>2. PICK x \in Out : \A y \in Out : x <= y
  <2>1. Out \subseteq Nat
    OBVIOUS
  <2> HIDE DEF Out
  <2> QED BY <1>1, <2>1, LeastExists
<1>3. x # 0 /\ x \in 0..N /\ x \notin S
  OBVIOUS
<1>4. x - 1 \in 0..(N - 1) /\ x - 1 \in 0..N
  BY <1>3
<1>5. x - 1 \in S
  <2>1. x - 1 \in Out => x <= x - 1
    BY <1>2
  <2> QED BY <1>3, <1>4, <2>1
<1>6. (x - 1) + 1 \in S
  BY <1>4, <1>5
<1> QED BY <1>3, <1>6

\* The steps take every member of T to a member of T.
StepsStay(step, T, N) == \A k \in 1..N : \A x \in T : step[k][x] \in T

\* The values that the first k steps reach from a.
Iterates(g, step, a, T, N) ==
    /\ g \in [0..N -> T]
    /\ g[0] = a
    /\ \A k \in 1..N : g[k] = step[k][g[k - 1]]

(* A value for 0 and a step for every number up to N have such a function: the *)
(* recursive function over 0..N that is defined with them exists.              *)
LEMMA RecursionUpTo ==
    ASSUME NEW T, NEW a \in T, NEW N \in Nat, NEW step, StepsStay(step, T, N)
    PROVE  \E g : Iterates(g, step, a, T, N)
<1> USE DEF StepsStay, Iterates
<1> DEFINE S == {n \in 0..N : \E g \in [0..n -> T] :
                     g[0] = a /\ \A k \in 1..n : g[k] = step[k][g[k - 1]]}
<1>1. 0 \in S
  <2> DEFINE g == [k \in 0..0 |-> a]
  <2>1. g \in [0..0 -> T] /\ g[0] = a
    OBVIOUS
  <2> HIDE DEF g
  <2>2. \A k \in 1..0 : g[k] = step[k][g[k - 1]]
    OBVIOUS
  <2>3. 0 \in 0..N
    OBVIOUS
  <2> QED BY <2>1, <2>2, <2>3
<1>2. ASSUME NEW n \in 0..(N - 1), n \in S PROVE n + 1 \in S
  <2>1. PICK g \in [0..n -> T] : g[0] = a /\ \A k \in 1..n : g[k] = step[k][g[k - 1]]
    BY <1>2
  <2> DEFINE h == [k \in 0..(n + 1) |-> IF k = n + 1 THEN step[n + 1][g[n]] ELSE g[k]]
  <2>2. n \in Nat /\ n + 1 \in 1..N /\ n \in 0..n
    OBVIOUS
  <2>3. g[n] \in T /\ step[n + 1][g[n]] \in T
    BY <2>2
  <2>4. h \in [0..(n + 1) -> T]
    <3>1. \A k \in 0..(n + 1) : k # n + 1 => k \in 0..n
      BY <2>2
    <3> QED BY <2>3, <3>1
  <2>5. h[0] = a
    BY <2>1, <2>2
  <2>6. ASSUME NEW k \in 1..(n + 1) PROVE h[k] = step[k][h[k - 1]]
    <3>1. k \in 0..(n + 1) /\ k - 1 \in 0..n /\ k - 1 \in 0..(n + 1) /\ k - 1 # n + 1
      BY <2>2
    <3>2. h[k - 1] = g[k - 1]
      BY <3>1
    <3>3. CASE k = n + 1
      <4>1. h[k] = step[n + 1][g[n]] /\ k - 1 = n
        BY <3>1, <3>3, <2>2
      <4> QED BY <3>2, <3>3, <4>1
    <3>4. CASE k # n + 1
      <4>1. k \in 1..n /\ h[k] = g[k]
        BY <3>1, <3>4, <2>2
      <4> QED BY <2>1, <3>2, <4>1
    <3> QED BY <3>3, <3>4
  <2> HIDE DEF h
  <2>7. n + 1 \in 0..N
    BY <2>2
  <2> QED BY <2>4, <2>5, <2>6, <2>7
<1>3. N \in S
  <2> HIDE DEF S
  <2>1. \A n \in 0..N : n \in S
    BY <1>1, <1>2, InductionUpTo
  <2> QED BY <2>1
<1> QED BY <1>3

(* The values of a function over 0..N stay in a set that every step keeps.     *)
LEMMA RecursionStays ==
    ASSUME NEW T, NEW N \in Nat, NEW f, DOMAIN f = 0..N, f = [k \in DOMAIN f |-> f[k]],
           f[0] \in T, \A k \in 1..N : f[k - 1] \in T => f[k] \in T
    PROVE  f \in [0..N -> T]
<1> DEFINE S == {n \in 0..N : f[n] \in T}
<1>1. 0 \in S
  OBVIOUS
<1>2. ASSUME NEW n \in 0..(N - 1), n \in S PROVE n + 1 \in S
  <2>1. n + 1 \in 1..N /\ n + 1 \in 0..N /\ (n + 1) - 1 = n
    OBVIOUS
  <2>2. f[n + 1] \in T
    BY <1>2, <2>1
  <2> QED BY <2>1, <2>2
<1>3. \A n \in 0..N : n \in S
  <2> HIDE DEF S
  <2> QED BY <1>1, <1>2, InductionUpTo
<1> QED BY <1>3

\* Step i makes a member of T of the values above i, and of no others.
LooksUp(step, T, N) ==
    \A i \in 1..N : \A g \in [1..(N + 1) -> T] :
        /\ step[i][g] \in T
        /\ \A h \in [1..(N + 1) -> T] :
              (\A j \in (i + 1)..(N + 1) : g[j] = h[j]) => step[i][g] = step[i][h]

\* The values that the steps from N down to k make, after a.
Descends(g, step, a, T, N, k) ==
    /\ g \in [1..(N + 1) -> T]
    /\ g[N + 1] = a
    /\ \A i \in k..N : g[i] = step[i][g]

(* A function over 1..N+1 that is defined from its end on, by any of the       *)
(* values behind an argument, exists.                                          *)
LEMMA RecursionDownTo ==
    ASSUME NEW T, NEW a \in T, NEW N \in Nat, NEW step, LooksUp(step, T, N)
    PROVE  \E g : Descends(g, step, a, T, N, 1)
<1> DEFINE S == {n \in 0..N : \E g : Descends(g, step, a, T, N, N + 1 - n)}
<1>1. 0 \in S
  <2> DEFINE g == [k \in 1..(N + 1) |-> a]
  <2>1. g \in [1..(N + 1) -> T] /\ g[N + 1] = a
    OBVIOUS
  <2> HIDE DEF g
  <2>2. \A i \in (N + 1 - 0)..N : g[i] = step[i][g]
    OBVIOUS
  <2>3. Descends(g, step, a, T, N, N + 1 - 0)
    BY <2>1, <2>2, Zenon DEF Descends
  <2>4. 0 \in 0..N
    OBVIOUS
  <2> QED BY <2>3, <2>4, Zenon
<1>2. ASSUME NEW n \in 0..(N - 1), n \in S PROVE n + 1 \in S
  <2>1. PICK g : Descends(g, step, a, T, N, N + 1 - n)
    BY <1>2
  <2> DEFINE m == N - n
             h == [g EXCEPT ![m] = step[m][g]]
  <2>2. /\ m \in 1..N /\ m + 1 = N + 1 - n /\ N + 1 - (n + 1) = m
        /\ m \in 1..(N + 1) /\ m # N + 1 /\ N + 1 \in 1..(N + 1)
    OBVIOUS
  <2> HIDE DEF m
  <2>3. /\ g \in [1..(N + 1) -> T] /\ g[N + 1] = a
        /\ \A i \in (m + 1)..N : g[i] = step[i][g]
    BY <2>1, <2>2 DEF Descends
  <2>4. step[m][g] \in T
    BY <2>2, <2>3 DEF LooksUp
  <2>5. h \in [1..(N + 1) -> T] /\ h[N + 1] = a /\ h[m] = step[m][g]
    BY <2>2, <2>3, <2>4
  <2>6. \A j \in 1..(N + 1) : j # m => h[j] = g[j]
    BY <2>3
  <2> HIDE DEF h
  <2>7. ASSUME NEW i \in m..N PROVE h[i] = step[i][h]
    <3>1. i \in 1..N /\ i \in 1..(N + 1)
      BY <2>2
    <3>2. \A j \in (i + 1)..(N + 1) : g[j] = h[j]
      BY <2>2, <2>6, <3>1
    <3>3. step[i][g] = step[i][h]
      BY <2>3, <2>5, <3>1, <3>2 DEF LooksUp
    <3>4. CASE i = m
      BY <2>5, <3>3, <3>4
    <3>5. CASE i # m
      <4>1. i \in (m + 1)..N
        BY <2>2, <3>5
      <4> QED BY <2>3, <2>6, <3>1, <3>3, <3>5, <4>1
    <3> QED BY <3>4, <3>5
  <2>8. Descends(h, step, a, T, N, N + 1 - (n + 1))
    BY <2>2, <2>5, <2>7 DEF Descends
  <2>9. n + 1 \in 0..N
    OBVIOUS
  <2> QED BY <2>8, <2>9, Zenon
<1>3. N \in S
  <2> HIDE DEF S
  <2>1. \A n \in 0..N : n \in S
    BY <1>1, <1>2, InductionUpTo
  <2> QED BY <2>1
<1>4. PICK g : Descends(g, step, a, T, N, N + 1 - N)
  BY <1>3
<1>5. N + 1 - N = 1
  OBVIOUS
<1> QED BY <1>4, <1>5

(* The values of such a function stay in a set that it keeps from the end on.  *)
LEMMA RecursionStaysDown ==
    ASSUME NEW T, NEW N \in Nat, NEW f, DOMAIN f = 1..(N + 1), f = [k \in DOMAIN f |-> f[k]],
           f[N + 1] \in T,
           \A i \in 1..N : (\A j \in (i + 1)..(N + 1) : f[j] \in T) => f[i] \in T
    PROVE  f \in [1..(N + 1) -> T]
<1> DEFINE S == {n \in 0..N : \A j \in (N + 1 - n)..(N + 1) : f[j] \in T}
<1>1. 0 \in S
  OBVIOUS
<1>2. ASSUME NEW n \in 0..(N - 1), n \in S PROVE n + 1 \in S
  <2> DEFINE m == N - n
  <2>1. m \in 1..N /\ m + 1 = N + 1 - n /\ N + 1 - (n + 1) = m /\ n + 1 \in 0..N
    OBVIOUS
  <2> HIDE DEF m
  <2>2. \A j \in (m + 1)..(N + 1) : f[j] \in T
    BY <1>2, <2>1
  <2>3. f[m] \in T
    BY <2>1, <2>2
  <2>4. \A j \in m..(N + 1) : f[j] \in T
    BY <2>1, <2>2, <2>3
  <2> QED BY <2>1, <2>4
<1>3. \A n \in 0..N : n \in S
  <2> HIDE DEF S
  <2> QED BY <1>1, <1>2, InductionUpTo
<1>4. \A j \in (N + 1 - N)..(N + 1) : f[j] \in T
  BY <1>3
<1> QED BY <1>4

\* A step makes a member of T of the values at lower heights, and of no others.
LooksBelow(step, T, D, height) ==
    \A x \in D : \A g \in [D -> T] :
        /\ step[x][g] \in T
        /\ \A h \in [D -> T] :
              (\A y \in D : height[y] < height[x] => g[y] = h[y]) => step[x][g] = step[x][h]

(* A function that is defined by its values at lower heights exists.           *)
LEMMA RecursionByHeight ==
    ASSUME NEW T, NEW a \in T, NEW D, NEW N \in Nat, NEW height \in [D -> 0..N],
           NEW step, LooksBelow(step, T, D, height)
    PROVE  \E g \in [D -> T] : \A x \in D : g[x] = step[x][g]
<1> DEFINE S == {n \in 0..(N + 1) : \E g \in [D -> T] :
                     \A x \in D : height[x] < n => g[x] = step[x][g]}
<1>1. 0 \in S
  <2> DEFINE g == [x \in D |-> a]
  <2>1. g \in [D -> T] /\ 0 \in 0..(N + 1) /\ \A x \in D : ~(height[x] < 0)
    OBVIOUS
  <2> HIDE DEF g
  <2>2. \A x \in D : height[x] < 0 => g[x] = step[x][g]
    BY <2>1
  <2> QED BY <2>1, <2>2
<1>2. ASSUME NEW n \in 0..N, n \in S PROVE n + 1 \in S
  <2>1. PICK g \in [D -> T] : \A x \in D : height[x] < n => g[x] = step[x][g]
    BY <1>2
  <2> DEFINE h == [x \in D |-> IF height[x] < n THEN g[x] ELSE step[x][g]]
  <2>2. h \in [D -> T]
    BY DEF LooksBelow
  <2>3. \A x \in D : height[x] < n => h[x] = g[x]
    OBVIOUS
  <2>4. \A x \in D : h[x] = step[x][g]
    BY <2>1
  <2> HIDE DEF h
  <2>5. ASSUME NEW x \in D, height[x] < n + 1 PROVE h[x] = step[x][h]
    <3>1. \A y \in D : height[y] < height[x] => h[y] = g[y]
      BY <2>3, <2>5
    <3>2. step[x][h] = step[x][g]
      BY <2>2, <3>1 DEF LooksBelow
    <3> QED BY <2>4, <3>2
  <2> QED BY <2>2, <2>5
<1>3. N + 1 \in S
  <2> HIDE DEF S
  <2>1. N + 1 \in Nat /\ (N + 1) - 1 = N
    OBVIOUS
  <2>2. \A n \in 0..(N + 1) : n \in S
    BY <1>1, <1>2, <2>1, InductionUpTo
  <2> QED BY <2>1, <2>2
<1> QED BY <1>3

(* What holds of all that have lower heights, and so of each, holds of all.    *)
LEMMA InductionByHeight ==
    ASSUME NEW D, NEW height \in [D -> Nat], NEW S,
           \A x \in D : (\A y \in D : height[y] < height[x] => y \in S) => x \in S
    PROVE  D \subseteq S
<1> DEFINE H == {height[x] : x \in D \ S}
<1>1. SUFFICES ASSUME D \ S # {} PROVE FALSE
  OBVIOUS
<1>2. H \subseteq Nat /\ H # {}
  BY <1>1
<1>3. PICK m \in H : \A k \in H : m <= k
  <2> HIDE DEF H
  <2> QED BY <1>2, LeastExists
<1>4. PICK x \in D \ S : height[x] = m
  OBVIOUS
<1>5. \A y \in D : height[y] < height[x] => y \in S
  BY <1>3, <1>4
<1> QED BY <1>4, <1>5

--------------------------------------------------------------------------------

\* The facts about sequences that are cited with Zenon, which knows none.

LEMMA FunctionIsSeq ==
    ASSUME NEW T, NEW n \in Nat, NEW f \in [1..n -> T]
    PROVE  f \in Seq(T) /\ Len(f) = n
  OBVIOUS

LEMMA JoinedLength ==
    ASSUME NEW T, NEW a \in Seq(T), NEW b \in Seq(T)
    PROVE  a \o b \in Seq(T) /\ Len(a \o b) = Len(a) + Len(b)
  OBVIOUS

LEMMA PartIsSeq ==
    ASSUME NEW T, NEW s \in Seq(T), NEW m \in Nat \ {0}, NEW n \in Int, n <= Len(s)
    PROVE  /\ SubSeq(s, m, n) \in Seq(T)
           /\ Len(SubSeq(s, m, n)) = IF n < m THEN 0 ELSE n - m + 1
           /\ \A i \in 1..(n - m + 1) : SubSeq(s, m, n)[i] = s[m + i - 1] /\ s[m + i - 1] \in T
  OBVIOUS

================================================================================
