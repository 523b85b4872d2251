------------------------------- MODULE PathProofs ------------------------------
(* Theorems about Path for every set of byte vectors: however a path is kept,  *)
(* it stands for its nibbles, and the operations do to these what the trie     *)
(* takes them for.                                                             *)
EXTENDS Path, TLAPS, SequenceTheorems, FiniteSetTheorems

--------------------------------------------------------------------------------
(* Representation.                                                             *)

\* A number is twice its half and the rest.
LEMMA Halving ==
    ASSUME NEW n \in Nat
    PROVE  /\ n \div 2 \in Nat /\ n % 2 \in 0..1
           /\ n = 2 * (n \div 2) + (n % 2)
OBVIOUS

\* A packed byte gives its halves back.
LEMMA PackHalves ==
    ASSUME NEW hi \in Nibble, NEW lo \in Nibble
    PROVE  /\ Pack(hi, lo) \in Byte
           /\ Pack(hi, lo) \div 16 = hi
           /\ Pack(hi, lo) % 16 = lo
BY DEF Pack, Nibble, Byte

\* The nibbles of a path are as many as its size says.
LEMMA NibblesType ==
    ASSUME NEW p, IsPath(p)
    PROVE  /\ Size(p) \in Nat
           /\ \A i \in 0..Size(p) - 1 : At(p, i) \in Nibble
           /\ Nibbles(p) \in Seq(Nibble)
           /\ Len(Nibbles(p)) = Size(p)
           /\ \A i \in 1..Size(p) : Nibbles(p)[i] = At(p, i - 1)
<1>1. Len(p.data) \in Nat /\ p.offset \in Nat /\ p.offset <= 2 * Len(p.data)
    BY LenProperties DEF IsPath
<1>2. Size(p) \in Nat
    BY <1>1 DEF Size
<1>3. ASSUME NEW i \in 0..Size(p) - 1 PROVE At(p, i) \in Nibble
    <2>1. (i + p.offset) \div 2 + 1 \in 1..Len(p.data)
        BY <1>1 DEF Size
    <2>2. p.data[(i + p.offset) \div 2 + 1] \in Byte
        BY <2>1, ElementOfSeq DEF IsPath
    <2> QED BY <2>2 DEF At, Byte, Nibble
<1>4. \A i \in 1..Size(p) : At(p, i - 1) \in Nibble
    BY <1>2, <1>3
<1>5. Nibbles(p) \in [1..Size(p) -> Nibble]
    BY <1>4 DEF Nibbles
<1>6. Nibbles(p) \in Seq(Nibble) /\ Len(Nibbles(p)) = Size(p)
    BY <1>2, <1>5, SeqDef, LenProperties
<1>7. \A i \in 1..Size(p) : Nibbles(p)[i] = At(p, i - 1)
    BY DEF Nibbles
<1> QED BY <1>2, <1>3, <1>6, <1>7

\* A path with s at its nibbles stands for s.
LEMMA NibblesAre ==
    ASSUME NEW p, IsPath(p), NEW s \in Seq(Nibble), Size(p) = Len(s),
           \A i \in 1..Len(s) : At(p, i - 1) = s[i]
    PROVE  Nibbles(p) = s
<1>1. Nibbles(p) \in Seq(Nibble) /\ Len(Nibbles(p)) = Len(s)
    BY NibblesType
<1>2. \A i \in 1..Len(s) : Nibbles(p)[i] = s[i]
    BY NibblesType
<1> QED BY <1>1, <1>2, SeqEqual

\* Packing keeps the nibbles, even or odd.
LEMMA PackedNibbles ==
    ASSUME NEW s \in Seq(Nibble)
    PROVE  IsPath(Packed(s)) /\ Nibbles(Packed(s)) = s
<1> DEFINE odd == Len(s) % 2
           size == odd + Len(s) \div 2
           byte(i) == IF i <= odd THEN s[1]
                      ELSE Pack(s[2 * i - odd - 1], s[2 * i - odd])
           bytes == [i \in 1..size |-> byte(i)]
<1>1. Len(s) \in Nat /\ odd \in 0..1 /\ size \in Nat
    BY LenProperties
<1>2. 2 * size - odd = Len(s)
    BY <1>1
<1>3. \A i \in 1..Len(s) : s[i] \in Nibble
    BY ElementOfSeq
<1>4. ASSUME NEW i \in 1..size PROVE byte(i) \in Byte
    <2>1. CASE i <= odd
        <3>1. 1 \in 1..Len(s)
            BY <1>1, <2>1
        <3> QED BY <1>3, <2>1, <3>1 DEF Nibble, Byte
    <2>2. CASE ~(i <= odd)
        <3>1. 2 * i - odd - 1 \in 1..Len(s) /\ 2 * i - odd \in 1..Len(s)
            BY <1>1, <1>2, <2>2
        <3>2. s[2 * i - odd - 1] \in Nibble /\ s[2 * i - odd] \in Nibble
            BY <1>3, <3>1
        <3> QED BY <2>2, <3>2, PackHalves
    <2> QED BY <2>1, <2>2
<1>5. bytes \in [1..size -> Byte]
    BY <1>4
<1>6. bytes \in Seq(Byte) /\ Len(bytes) = size
    BY <1>1, <1>5, SeqDef, LenProperties
<1>7. Packed(s).data = bytes /\ Packed(s).offset = odd
    BY DEF Packed, NewPath
<1>8. IsPath(Packed(s)) /\ Size(Packed(s)) = Len(s)
    <2>1. Packed(s) = NewPath(bytes, odd)
        BY DEF Packed
    <2>2. Packed(s) \in [data : Seq(Byte), offset : Nat]
        BY <1>1, <1>6, <2>1 DEF NewPath
    <2> QED BY <1>1, <1>2, <1>6, <1>7, <2>2 DEF IsPath, Size
<1>9. ASSUME NEW i \in 1..Len(s) PROVE At(Packed(s), i - 1) = s[i]
    <2> DEFINE k == (i - 1 + odd) \div 2 + 1
    <2>1. k \in 1..size
        BY <1>1, <1>2
    <2>2. At(Packed(s), i - 1) = IF (i - 1 + odd) % 2 = 0 THEN byte(k) \div 16 ELSE byte(k) % 16
        BY <1>7, <2>1 DEF At
    <2>3. CASE k <= odd
        <3>1. odd = 1 /\ k = 1 /\ i = 1 /\ byte(k) = s[1]
            BY <1>1, <2>1, <2>3
        <3> QED BY <1>3, <2>2, <3>1 DEF Nibble
    <2>4. CASE ~(k <= odd) /\ (i - 1 + odd) % 2 = 0
        <3>1. 2 * k - odd - 1 = i /\ 2 * k - odd \in 1..Len(s)
            BY <1>1, <1>2, <2>1, <2>4
        <3>2. byte(k) = Pack(s[i], s[2 * k - odd])
            BY <2>4, <3>1
        <3>3. s[i] \in Nibble /\ s[2 * k - odd] \in Nibble
            BY <1>3, <3>1
        <3> QED BY <2>2, <2>4, <3>2, <3>3, PackHalves
    <2>5. CASE ~(k <= odd) /\ (i - 1 + odd) % 2 # 0
        <3>1. 2 * k - odd = i /\ 2 * k - odd - 1 \in 1..Len(s)
            BY <1>1, <1>2, <2>1, <2>5
        <3>2. byte(k) = Pack(s[2 * k - odd - 1], s[i])
            BY <2>5, <3>1
        <3>3. s[i] \in Nibble /\ s[2 * k - odd - 1] \in Nibble
            BY <1>3, <3>1
        <3> QED BY <2>2, <2>5, <3>2, <3>3, PackHalves
    <2> QED BY <2>3, <2>4, <2>5
<1> QED BY <1>8, <1>9, NibblesAre

\* A path comes back from the storage with its nibbles.
LEMMA StoredNibbles ==
    ASSUME NEW p, IsPath(p)
    PROVE  /\ IsPath(Deserialize(Serialize(p)))
           /\ Nibbles(Deserialize(Serialize(p))) = Nibbles(p)
<1> DEFINE odd == Size(p) % 2
           size == 1 + Size(p) \div 2
           pair(i) == Pack(At(p, 2 * (i - 2) + odd), At(p, 2 * (i - 2) + odd + 1))
           byte(i) == IF i = 1 THEN IF odd = 1 THEN OddFlag + At(p, 0) ELSE 0
                      ELSE pair(i)
           q == Deserialize(Serialize(p))
<1>1. Size(p) \in Nat /\ odd \in 0..1 /\ size \in Nat \ {0}
    BY NibblesType
<1>2. 2 * size - (2 - odd) = Size(p) /\ Size(p) = 2 * (size - 1) + odd
    <2>1. Size(p) = 2 * (Size(p) \div 2) + (Size(p) % 2)
        BY <1>1, Halving
    <2> QED BY <1>1, <2>1
<1>3. \A i \in 0..Size(p) - 1 : At(p, i) \in Nibble
    BY NibblesType
<1>4. odd = 1 => At(p, 0) \in Nibble
    BY <1>1, <1>3
<1>5. ASSUME NEW i \in 2..size
      PROVE  /\ At(p, 2 * (i - 2) + odd) \in Nibble
             /\ At(p, 2 * (i - 2) + odd + 1) \in Nibble
    <2>1. 2 * (i - 2) + odd \in 0..Size(p) - 1 /\ 2 * (i - 2) + odd + 1 \in 0..Size(p) - 1
        BY <1>1, <1>2
    <2> QED BY <1>3, <2>1
<1>6. ASSUME NEW i \in 1..size PROVE byte(i) \in Byte
    <2>1. CASE i = 1
        BY <1>1, <1>4, <2>1 DEF OddFlag, Nibble, Byte
    <2>2. CASE i # 1
        <3>1. i \in 2..size
            BY <2>2
        <3> QED BY <1>5, <2>2, <3>1, PackHalves
    <2> QED BY <2>1, <2>2
<1>7. Serialize(p) = [i \in 1..size |-> byte(i)]
    BY DEF Serialize
<1>8. Serialize(p) \in Seq(Byte) /\ Len(Serialize(p)) = size
    <2>1. Serialize(p) \in [1..size -> Byte]
        BY <1>6, <1>7
    <2> QED BY <1>1, <2>1, SeqDef, LenProperties
<1>9. Serialize(p)[1] = IF odd = 1 THEN OddFlag + At(p, 0) ELSE 0
    BY <1>1, <1>7
<1>10. (Serialize(p)[1] \div OddFlag) % 2 = odd
    BY <1>1, <1>4, <1>9 DEF OddFlag, Nibble
<1>11. q.data = Serialize(p) /\ q.offset = 2 - odd
    BY <1>1, <1>10 DEF Deserialize, NewPath
<1>12. IsPath(q) /\ Size(q) = Size(p)
    <2>1. q = NewPath(Serialize(p), 2 - odd)
        BY <1>1, <1>10 DEF Deserialize
    <2>2. q \in [data : Seq(Byte), offset : Nat]
        BY <1>1, <1>8, <2>1 DEF NewPath
    <2>3. Len(q.data) * 2 - q.offset = Size(p) /\ q.offset <= 2 * Len(q.data)
        <3>1. Len(q.data) = size /\ q.offset = 2 - odd
            BY <1>8, <1>11
        <3> HIDE DEF q, size, odd
        <3> QED BY <1>1, <1>2, <3>1
    <2> QED BY <2>2, <2>3 DEF IsPath, Size
<1>13. ASSUME NEW i \in 1..Size(p) PROVE At(q, i - 1) = At(p, i - 1)
    <2> DEFINE n == i - 1 + (2 - odd)
               k == n \div 2 + 1
    <2>1. k \in 1..size
        BY <1>1, <1>2
    <2>2. At(q, i - 1) = IF n % 2 = 0 THEN byte(k) \div 16 ELSE byte(k) % 16
        <3>1. q.data[k] = byte(k)
            BY <1>7, <1>11, <2>1
        <3> QED BY <1>11, <3>1 DEF At
    <2>3. CASE k = 1
        <3>1. odd = 1 /\ i = 1 /\ n % 2 # 0
            BY <1>1, <2>3
        <3>2. byte(k) = OddFlag + At(p, 0)
            BY <2>3, <3>1
        <3>3. byte(k) % 16 = At(p, 0)
            BY <1>4, <3>1, <3>2 DEF OddFlag, Nibble
        <3> QED BY <2>2, <3>1, <3>3
    <2>4. CASE k # 1
        <3>1. k \in 2..size /\ byte(k) = pair(k)
            BY <2>1, <2>4
        <3>2. /\ pair(k) \div 16 = At(p, 2 * (k - 2) + odd)
              /\ pair(k) % 16 = At(p, 2 * (k - 2) + odd + 1)
            BY <1>5, <3>1, PackHalves
        <3>3. n \in Nat /\ n = 2 * (k - 1) + (n % 2) /\ n % 2 \in 0..1
            <4>1. n \in Nat
                BY <1>1
            <4> HIDE DEF n
            <4> QED BY <4>1, Halving
        <3>4. i - 1 = 2 * (k - 2) + odd + (n % 2)
            BY <1>1, <3>3
        <3>5. CASE n % 2 = 0
            <4>1. i - 1 = 2 * (k - 2) + odd
                BY <1>1, <2>1, <3>4, <3>5
            <4> QED BY <2>2, <3>1, <3>2, <3>5, <4>1
        <3>6. CASE n % 2 = 1
            <4>1. i - 1 = 2 * (k - 2) + odd + 1
                BY <1>1, <2>1, <3>4, <3>6
            <4> QED BY <2>2, <3>1, <3>2, <3>6, <4>1
        <3> QED BY <3>3, <3>5, <3>6
    <2> QED BY <2>3, <2>4
<1>14. Nibbles(p) \in Seq(Nibble) /\ Len(Nibbles(p)) = Size(q)
    BY <1>12, NibblesType
<1>15. \A i \in 1..Len(Nibbles(p)) : At(q, i - 1) = Nibbles(p)[i]
    BY <1>12, <1>13, <1>14, NibblesType
<1> QED BY <1>12, <1>14, <1>15, NibblesAre

\* A path made from bytes stands for their halves.
LEMMA NewNibbles ==
    ASSUME NEW bytes \in Seq(Byte)
    PROVE  /\ IsPath(NewPath(bytes, 0))
           /\ Nibbles(NewPath(bytes, 0)) = Abstract!Halves(bytes)
<1> DEFINE p == NewPath(bytes, 0)
<1>1. Len(bytes) \in Nat /\ p.data = bytes /\ p.offset = 0
    BY LenProperties DEF NewPath
<1>2. IsPath(p) /\ Size(p) = 2 * Len(bytes)
    <2>1. p \in [data : Seq(Byte), offset : Nat]
        BY DEF NewPath
    <2> QED BY <1>1, <2>1 DEF IsPath, Size
<1>3. ASSUME NEW i \in 1..2 * Len(bytes)
      PROVE  At(p, i - 1) = LET byte == bytes[(i + 1) \div 2] IN
                            IF i % 2 = 1 THEN byte \div 16 ELSE byte % 16
    <2>1. (i - 1 + 0) \div 2 + 1 = (i + 1) \div 2 /\ ((i - 1 + 0) % 2 = 0 <=> i % 2 = 1)
        BY <1>1
    <2> QED BY <1>1, <2>1 DEF At
<1> QED BY <1>2, <1>3 DEF Nibbles, Abstract!Halves

\* Consuming drops nibbles from the front.
LEMMA ConsumedNibbles ==
    ASSUME NEW p, IsPath(p), NEW n \in 0..Size(p)
    PROVE  /\ IsPath(ConsumeNibbles(p, n))
           /\ Size(ConsumeNibbles(p, n)) = Size(p) - n
           /\ \A i \in 1..Size(p) - n :
                 Nibbles(ConsumeNibbles(p, n))[i] = Nibbles(p)[n + i]
<1> DEFINE q == ConsumeNibbles(p, n)
<1>1. Size(p) \in Nat /\ p.offset \in Nat /\ Len(p.data) \in Nat
    BY NibblesType, LenProperties DEF IsPath
<1>2. q.data = p.data /\ q.offset = p.offset + n
    BY DEF ConsumeNibbles, IsPath
<1>3. IsPath(q) /\ Size(q) = Size(p) - n
    <2>1. q \in [data : Seq(Byte), offset : Nat]
        BY <1>1 DEF ConsumeNibbles, IsPath
    <2> QED BY <1>1, <1>2, <2>1 DEF IsPath, Size
<1>4. ASSUME NEW i \in 1..Size(p) - n
      PROVE  Nibbles(q)[i] = Nibbles(p)[n + i]
    <2>1. i - 1 + (p.offset + n) = n + i - 1 + p.offset
        BY <1>1
    <2>2. At(q, i - 1) = At(p, n + i - 1)
        BY <1>2, <2>1 DEF At
    <2>3. i \in 1..Size(q) /\ n + i \in 1..Size(p)
        BY <1>1, <1>3
    <2> QED BY <1>3, <2>2, <2>3, NibblesType
<1> QED BY <1>3, <1>4

--------------------------------------------------------------------------------
(* What the operations compute.                                                *)

\* A prefix that is constructed holds the first nibbles.
LEMMA PrefixNibbles ==
    ASSUME NEW p, IsPath(p), NEW n \in 0..Size(p)
    PROVE  /\ IsPath(ConstructFromPrefix(p, n))
           /\ Len(Nibbles(ConstructFromPrefix(p, n))) = n
           /\ \A i \in 1..n : Nibbles(ConstructFromPrefix(p, n))[i] = Nibbles(p)[i]
<1> DEFINE s == [i \in 1..n |-> At(p, i - 1)]
<1>1. n \in Nat /\ \A i \in 1..n : At(p, i - 1) \in Nibble /\ Nibbles(p)[i] = At(p, i - 1)
    BY NibblesType
<1>2. s \in Seq(Nibble) /\ Len(s) = n
    <2>1. s \in [1..n -> Nibble]
        BY <1>1
    <2> QED BY <1>1, <2>1, SeqDef, LenProperties
<1>3. ConstructFromPrefix(p, n) = Packed(s)
    BY DEF ConstructFromPrefix
<1>4. IsPath(Packed(s)) /\ Nibbles(Packed(s)) = s
    BY <1>2, PackedNibbles
<1> QED BY <1>1, <1>2, <1>3, <1>4

\* A concatenation holds the nibbles of both.
LEMMA ConcatNibbles ==
    ASSUME NEW p, NEW q, IsPath(p), IsPath(q)
    PROVE  IsPath(Concat(p, q)) /\ Nibbles(Concat(p, q)) = Nibbles(p) \o Nibbles(q)
<1> DEFINE s == [i \in 1..Size(p) + Size(q) |->
                    IF i <= Size(p) THEN At(p, i - 1) ELSE At(q, i - Size(p) - 1)]
           t == Nibbles(p) \o Nibbles(q)
<1>1. /\ Size(p) \in Nat /\ Nibbles(p) \in Seq(Nibble) /\ Len(Nibbles(p)) = Size(p)
      /\ Size(q) \in Nat /\ Nibbles(q) \in Seq(Nibble) /\ Len(Nibbles(q)) = Size(q)
    BY NibblesType
<1>2. /\ t \in Seq(Nibble) /\ Len(t) = Size(p) + Size(q)
      /\ \A i \in 1..Size(p) + Size(q) :
            t[i] = IF i <= Size(p) THEN Nibbles(p)[i] ELSE Nibbles(q)[i - Size(p)]
    <2>1. ASSUME NEW a \in Seq(Nibble), NEW b \in Seq(Nibble)
          PROVE  /\ a \o b \in Seq(Nibble) /\ Len(a \o b) = Len(a) + Len(b)
                 /\ \A i \in 1..Len(a) + Len(b) :
                       (a \o b)[i] = IF i <= Len(a) THEN a[i] ELSE b[i - Len(a)]
        BY ConcatProperties, Zenon
    <2> QED BY <1>1, <2>1
<1>3. ASSUME NEW i \in 1..Size(p) + Size(q) PROVE s[i] = t[i]
    <2>1. CASE i <= Size(p)
        BY <1>1, <1>2, <2>1, NibblesType
    <2>2. CASE ~(i <= Size(p))
        <3>1. i - Size(p) \in 1..Size(q)
            BY <1>1, <2>2
        <3>2. Nibbles(q)[i - Size(p)] = At(q, i - Size(p) - 1)
            BY <3>1, NibblesType
        <3> QED BY <1>1, <1>2, <2>2, <3>2
    <2> QED BY <2>1, <2>2
<1>4. s = t
    <2>1. t = [i \in 1..Len(t) |-> t[i]]
        BY <1>2, LenProperties
    <2> QED BY <1>2, <1>3, <2>1
<1>5. Concat(p, q) = Packed(s)
    BY DEF Concat
<1> QED BY <1>2, <1>4, <1>5, PackedNibbles

\* Two paths agree where their nibbles do.
LEMMA AtNibbles ==
    ASSUME NEW p, NEW q, IsPath(p), IsPath(q), NEW n \in Nat,
           n <= Size(p), n <= Size(q)
    PROVE  (\A i \in 0..n - 1 : At(p, i) = At(q, i))
              <=> (\A i \in 1..n : Nibbles(p)[i] = Nibbles(q)[i])
<1>1. Size(p) \in Nat /\ Size(q) \in Nat
    BY NibblesType
<1>2. ASSUME NEW i \in 1..n
      PROVE  Nibbles(p)[i] = At(p, i - 1) /\ Nibbles(q)[i] = At(q, i - 1)
    <2>1. i \in 1..Size(p) /\ i \in 1..Size(q)
        BY <1>1
    <2> QED BY <2>1, NibblesType
<1>3. ASSUME \A i \in 0..n - 1 : At(p, i) = At(q, i), NEW i \in 1..n
      PROVE  Nibbles(p)[i] = Nibbles(q)[i]
    <2>1. i - 1 \in 0..n - 1
        OBVIOUS
    <2> QED BY <1>2, <1>3, <2>1
<1>4. ASSUME \A i \in 1..n : Nibbles(p)[i] = Nibbles(q)[i], NEW i \in 0..n - 1
      PROVE  At(p, i) = At(q, i)
    <2>1. i + 1 \in 1..n /\ (i + 1) - 1 = i
        OBVIOUS
    <2> QED BY <1>2, <1>4, <2>1
<1> QED BY <1>3, <1>4

\* The numbers up to n are n numbers.
LEMMA UpToFinite ==
    ASSUME NEW n \in Nat
    PROVE  IsFiniteSet(1..n) /\ Cardinality(1..n) = n
<1>1. 1 \in Int /\ n \in Int
    OBVIOUS
<1>2. IsFiniteSet(1..n) /\ Cardinality(1..n) = IF 1 > n THEN 0 ELSE n - 1 + 1
    BY <1>1, FS_Interval, Zenon
<1> QED BY <1>2

\* A set of numbers from 1 without gaps goes up to its size.
LEMMA WithoutGaps ==
    ASSUME NEW n \in Nat, NEW C \in SUBSET (1..n),
           \A x \in C : 1..x \subseteq C
    PROVE  Cardinality(C) \in Nat /\ C = 1..Cardinality(C)
<1>1. IsFiniteSet(C) /\ Cardinality(C) \in Nat
    BY UpToFinite, FS_Subset, FS_CardinalityType
<1>2. ASSUME NEW x \in C PROVE x \in 1..Cardinality(C)
    <2>1. x \in Nat /\ 1 <= x /\ 1..x \in SUBSET C
        OBVIOUS
    <2>2. Cardinality(1..x) = x
        BY <2>1, UpToFinite
    <2>3. Cardinality(1..x) <= Cardinality(C)
        BY <1>1, <2>1, FS_Subset
    <2> QED BY <1>1, <2>1, <2>2, <2>3
<1>3. C \in SUBSET (1..Cardinality(C))
    BY <1>2
<1>4. IsFiniteSet(1..Cardinality(C)) /\ Cardinality(1..Cardinality(C)) = Cardinality(C)
    BY <1>1, UpToFinite
<1>5. 1..Cardinality(C) = C
    BY <1>3, <1>4, FS_Subset
<1> QED BY <1>1, <1>5

\* The common size is that of the longest common prefix.
LEMMA CommonSizeIsLongest ==
    ASSUME NEW p, NEW q, IsPath(p), IsPath(q)
    PROVE  LET n == CommonSize(p, q) IN
           /\ n \in Nat /\ n <= Size(p) /\ n <= Size(q)
           /\ \A i \in 1..n : Nibbles(p)[i] = Nibbles(q)[i]
           /\ n < Size(p) /\ n < Size(q) => Nibbles(p)[n + 1] # Nibbles(q)[n + 1]
<1> DEFINE C == {m \in 1..Size(p) :
                    m <= Size(q) /\ \A i \in 0..m - 1 : At(p, i) = At(q, i)}
           n == Cardinality(C)
<1>1. Size(p) \in Nat /\ Size(q) \in Nat
    BY NibblesType
<1>2. ASSUME NEW m \in C PROVE 1..m \subseteq C
    BY <1>1
<1>3. n \in Nat /\ C = 1..n
    BY <1>1, <1>2, WithoutGaps
<1>4. \A m \in C : m <= Size(p) /\ m <= Size(q) /\ \A i \in 0..m - 1 : At(p, i) = At(q, i)
    BY <1>1
<1> HIDE DEF n, C
<1>5. n # 0 => n \in C
    BY <1>3
<1>6. n + 1 \notin C
    BY <1>3
<1>7. n <= Size(p) /\ n <= Size(q) /\ \A i \in 0..n - 1 : At(p, i) = At(q, i)
    BY <1>1, <1>3, <1>4, <1>5
<1>8. \A i \in 1..n : Nibbles(p)[i] = Nibbles(q)[i]
    BY <1>3, <1>7, AtNibbles
<1>9. ASSUME n < Size(p), n < Size(q), Nibbles(p)[n + 1] = Nibbles(q)[n + 1]
      PROVE  FALSE
    <2>1. n + 1 \in Nat /\ n + 1 \in 1..Size(p) /\ n + 1 <= Size(q)
        BY <1>1, <1>3, <1>9
    <2>2. \A i \in 1..n + 1 : Nibbles(p)[i] = Nibbles(q)[i]
        BY <1>3, <1>8, <1>9
    <2>3. \A i \in 0..(n + 1) - 1 : At(p, i) = At(q, i)
        BY <2>1, <2>2, AtNibbles
    <2> QED BY <1>6, <2>1, <2>3 DEF C
<1>10. CommonSize(p, q) = n
    BY DEF CommonSize, n, C
<1> QED BY <1>3, <1>7, <1>8, <1>9, <1>10

\* StartsWith compares the nibbles.
LEMMA StartsWithNibbles ==
    ASSUME NEW p, NEW q, IsPath(p), IsPath(q), StartsWith(p, q)
    PROVE  Size(q) <= Size(p) /\ \A i \in 1..Size(q) : Nibbles(p)[i] = Nibbles(q)[i]
<1>1. Size(q) \in Nat /\ Size(q) <= Size(p) /\ \A i \in 0..Size(q) - 1 : At(p, i) = At(q, i)
    BY NibblesType DEF StartsWith
<1> QED BY <1>1, AtNibbles

\* Equal paths are those with the same nibbles.
LEMMA EqualNibbles ==
    ASSUME NEW p, NEW q, IsPath(p), IsPath(q)
    PROVE  Equal(p, q) <=> Nibbles(p) = Nibbles(q)
<1>1. /\ Size(p) \in Nat /\ Nibbles(p) \in Seq(Nibble) /\ Len(Nibbles(p)) = Size(p)
      /\ Size(q) \in Nat /\ Nibbles(q) \in Seq(Nibble) /\ Len(Nibbles(q)) = Size(q)
    BY NibblesType
<1>2. ASSUME Equal(p, q) PROVE Nibbles(p) = Nibbles(q)
    <2>1. Size(p) = Size(q) /\ \A i \in 0..Size(p) - 1 : At(p, i) = At(q, i)
        BY <1>2 DEF Equal
    <2>2. \A i \in 1..Size(p) : Nibbles(p)[i] = Nibbles(q)[i]
        BY <1>1, <2>1, AtNibbles
    <2> QED BY <1>1, <2>1, <2>2, SeqEqual
<1>3. ASSUME Nibbles(p) = Nibbles(q) PROVE Equal(p, q)
    <2>1. Size(p) = Size(q)
        BY <1>1, <1>3
    <2>2. \A i \in 1..Size(p) : Nibbles(p)[i] = Nibbles(q)[i]
        BY <1>3
    <2>3. \A i \in 0..Size(p) - 1 : At(p, i) = At(q, i)
        BY <1>1, <2>1, <2>2, AtNibbles
    <2> QED BY <2>1, <2>3 DEF Equal
<1> QED BY <1>2, <1>3

\* Equal paths have one encoding.
LEMMA EqualEncoding ==
    ASSUME NEW p, NEW q, IsPath(p), IsPath(q), Equal(p, q)
    PROVE  Serialize(p) = Serialize(q)
<1> DEFINE odd == Size(p) % 2
           size == 1 + Size(p) \div 2
           byte(r, i) ==
               IF i = 1 THEN IF odd = 1 THEN OddFlag + At(r, 0) ELSE 0
               ELSE Pack(At(r, 2 * (i - 2) + odd), At(r, 2 * (i - 2) + odd + 1))
<1>1. /\ Size(p) \in Nat /\ Size(p) = Size(q)
      /\ \A i \in 0..Size(p) - 1 : At(p, i) = At(q, i)
    BY NibblesType DEF Equal
<1>2. odd \in 0..1 /\ size \in Nat /\ Size(p) = 2 * (size - 1) + odd
    <2>1. Size(p) = 2 * (Size(p) \div 2) + (Size(p) % 2)
        BY <1>1, Halving
    <2>2. Size(p) \div 2 \in Nat /\ odd \in 0..1
        BY <1>1, Halving
    <2> HIDE DEF byte
    <2> QED BY <1>1, <2>1, <2>2
<1>3. /\ Serialize(p) = [i \in 1..size |-> byte(p, i)]
      /\ Serialize(q) = [i \in 1..size |-> byte(q, i)]
    BY <1>1 DEF Serialize
<1>4. ASSUME NEW i \in 1..size PROVE byte(p, i) = byte(q, i)
    <2>1. CASE i = 1
        <3>1. odd = 1 => At(p, 0) = At(q, 0)
            BY <1>1, <1>2
        <3> QED BY <2>1, <3>1
    <2>2. CASE i # 1
        <3>1. 2 * (i - 2) + odd \in 0..Size(p) - 1 /\ 2 * (i - 2) + odd + 1 \in 0..Size(p) - 1
            BY <1>2, <2>2
        <3> QED BY <1>1, <2>2, <3>1
    <2> QED BY <2>1, <2>2
<1> HIDE DEF byte, size
<1> QED BY <1>3, <1>4

\* A sequence that starts with r and goes on with t is their concatenation.
LEMMA Parts ==
    ASSUME NEW s \in Seq(Nibble), NEW r \in Seq(Nibble), NEW t \in Seq(Nibble),
           Len(r) <= Len(s), Len(t) = Len(s) - Len(r),
           \A i \in 1..Len(r) : s[i] = r[i],
           \A i \in 1..Len(s) - Len(r) : t[i] = s[Len(r) + i]
    PROVE  s = r \o t
<1>1. Len(s) \in Nat /\ Len(r) \in Nat /\ Len(t) \in Nat
    BY LenProperties
<1>2. /\ r \o t \in Seq(Nibble) /\ Len(r \o t) = Len(r) + Len(t)
      /\ \A i \in 1..Len(r) + Len(t) :
            (r \o t)[i] = IF i <= Len(r) THEN r[i] ELSE t[i - Len(r)]
    BY ConcatProperties, Zenon
<1>3. ASSUME NEW i \in 1..Len(s) PROVE s[i] = (r \o t)[i]
    <2>1. CASE i <= Len(r)
        BY <1>1, <1>2, <2>1
    <2>2. CASE ~(i <= Len(r))
        <3>1. i - Len(r) \in 1..Len(s) - Len(r) /\ Len(r) + (i - Len(r)) = i
            BY <1>1, <2>2
        <3> QED BY <1>1, <1>2, <2>2, <3>1
    <2> QED BY <2>1, <2>2
<1>4. Len(s) = Len(r \o t)
    BY <1>1, <1>2
<1> QED BY <1>2, <1>3, <1>4, SeqEqual

\* A sequence shifted by one is its tail.
LEMMA FirstRemoved ==
    ASSUME NEW s \in Seq(Nibble), s # <<>>, NEW t \in Seq(Nibble),
           Len(t) = Len(s) - 1, \A i \in 1..Len(s) - 1 : t[i] = s[1 + i]
    PROVE  t = Tail(s)
<1>1. /\ Tail(s) \in Seq(Nibble) /\ Len(Tail(s)) = Len(s) - 1
      /\ \A i \in 1..Len(Tail(s)) : Tail(s)[i] = s[i + 1]
    BY HeadTailProperties
<1>2. Len(s) \in Nat
    BY LenProperties
<1>3. \A i \in 1..Len(t) : t[i] = Tail(s)[i]
    BY <1>1, <1>2
<1> QED BY <1>1, <1>3, SeqEqual

\* A sequence with the first nibbles of another is a prefix of it.
LEMMA PrefixOf ==
    ASSUME NEW s \in Seq(Nibble), NEW t \in Seq(Nibble), Len(s) <= Len(t),
           \A i \in 1..Len(s) : s[i] = t[i]
    PROVE  Abstract!IsPrefix(s, t)
<1>1. SubSeq(s, 1, Len(s)) = [i \in 1..Len(s) |-> s[i]]
    BY LenProperties
<1>2. SubSeq(t, 1, Len(s)) = [i \in 1..Len(s) |-> t[i]]
    BY LenProperties
<1> QED BY <1>1, <1>2 DEF Abstract!IsPrefix

--------------------------------------------------------------------------------
(* The theorems.                                                               *)

\* The registers hold paths: no operation makes an offset beyond the data or a
\* byte that is none, for any inputs.
THEOREM TypeCorrect == Spec => []TypeOK
<1>1. Init => TypeOK
    <2> SUFFICES ASSUME Init PROVE TypeOK
        OBVIOUS
    <2>1. <<>> \in Seq(Byte)
        BY EmptySeq
    <2> QED BY <2>1, NewNibbles DEF Init, TypeOK
<1>2. TypeOK /\ [Next]_vars => TypeOK'
    <2> SUFFICES ASSUME TypeOK, [Next]_vars PROVE IsPath(lhs') /\ IsPath(rhs')
        BY DEF TypeOK
    <2>1. IsPath(lhs) /\ IsPath(rhs)
        BY DEF TypeOK
    <2>2. CASE Make
        <3>1. PICK bytes \in Inputs : lhs' = NewPath(bytes, 0) /\ rhs' = rhs
            BY <2>2 DEF Make
        <3>2. bytes \in Seq(Byte)
            BY PathAssumption
        <3> QED BY <2>1, <3>1, <3>2, NewNibbles
    <2>3. CASE Swap
        BY <2>1, <2>3 DEF Swap
    <2>4. CASE Consume
        <3>1. Size(rhs) \in 0..Size(lhs)
            BY <2>1, <2>4, NibblesType DEF Consume, StartsWith
        <3> QED BY <2>1, <2>4, <3>1, ConsumedNibbles DEF Consume
    <2>5. CASE ConsumeOne
        <3>1. 1 \in 0..Size(lhs)
            BY <2>1, <2>5, NibblesType DEF ConsumeOne
        <3> QED BY <2>1, <2>5, <3>1, ConsumedNibbles DEF ConsumeOne
    <2>6. CASE TakeCommonPrefix
        <3>1. CommonSize(lhs, rhs) \in 0..Size(lhs)
            BY <2>1, CommonSizeIsLongest, NibblesType
        <3>2. lhs' = ConstructFromPrefix(lhs, CommonSize(lhs, rhs)) /\ rhs' = rhs
            BY <2>6 DEF TakeCommonPrefix, CommonPrefix
        <3> QED BY <2>1, <3>1, <3>2, PrefixNibbles
    <2>7. CASE Concatenate
        BY <2>1, <2>7, ConcatNibbles DEF Concatenate
    <2>8. CASE Store
        BY <2>1, <2>8, StoredNibbles DEF Store
    <2>9. CASE UNCHANGED vars
        BY <2>1, <2>9 DEF vars
    <2> QED BY <2>2, <2>3, <2>4, <2>5, <2>6, <2>7, <2>8, <2>9 DEF Next
<1> QED BY <1>1, <1>2, PTL DEF Spec

\* The bytes a path is serialised to are those of its nibbles: two paths have
\* the same bytes if and only if operator== finds them equal.
THEOREM CanonicalEncoding == Spec => []EncodingIsCanonical
<1>1. TypeOK => EncodingIsCanonical
    <2> SUFFICES ASSUME IsPath(lhs), IsPath(rhs), Serialize(lhs) = Serialize(rhs)
                 PROVE  Equal(lhs, rhs)
        BY EqualEncoding DEF TypeOK, EncodingIsCanonical
    <2>1. Nibbles(lhs) = Nibbles(rhs)
        BY StoredNibbles
    <2> QED BY <2>1, EqualNibbles
<1> QED BY <1>1, TypeCorrect, PTL

\* The class implements NibbleSeq: whatever bytes and offset a path is kept as,
\* what every operation does to it is what it does to its nibbles.
THEOREM Refines == Spec => IsNibbleSeq
<1> DEFINE l == Nibbles(lhs)
           r == Nibbles(rhs)
<1>1. Init => Abstract!Init
    <2> SUFFICES ASSUME Init PROVE l = <<>> /\ r = <<>>
        BY DEF Abstract!Init
    <2>1. Abstract!Halves(<<>>) = <<>>
        BY EmptySeq DEF Abstract!Halves
    <2> QED BY <2>1, EmptySeq, NewNibbles DEF Init
<1>2. TypeOK /\ TypeOK' /\ [Next]_vars => [Abstract!Next]_(Abstract!vars)
    <2> SUFFICES ASSUME TypeOK, TypeOK', [Next]_vars
                 PROVE  Abstract!Next \/ (l' = l /\ r' = r)
        BY DEF Abstract!vars
    <2>1. IsPath(lhs) /\ IsPath(rhs) /\ IsPath(lhs') /\ IsPath(rhs')
        BY DEF TypeOK
    <2>2. l' = Nibbles(lhs') /\ r' = Nibbles(rhs')
        OBVIOUS
    <2>3. /\ Size(lhs) \in Nat /\ l \in Seq(Nibble) /\ Len(l) = Size(lhs)
          /\ Size(rhs) \in Nat /\ r \in Seq(Nibble) /\ Len(r) = Size(rhs)
          /\ l' \in Seq(Nibble) /\ Len(l') = Size(lhs')
        BY <2>1, <2>2, NibblesType
    <2> HIDE DEF l, r
    <2>4. CASE Make
        <3>1. PICK bytes \in Inputs : lhs' = NewPath(bytes, 0) /\ rhs' = rhs
            BY <2>4 DEF Make
        <3>2. bytes \in Seq(Byte)
            BY PathAssumption
        <3>3. l' = Abstract!Halves(bytes)
            BY <2>2, <3>1, <3>2, NewNibbles
        <3> QED BY <2>2, <3>1, <3>3 DEF Abstract!Next, Abstract!Make, r, l
    <2>5. CASE Swap
        BY <2>2, <2>5 DEF Swap, Abstract!Next, Abstract!Swap, r, l
    <2>6. CASE Consume
        <3>1. /\ StartsWith(lhs, rhs)
              /\ lhs' = ConsumeNibbles(lhs, Size(rhs)) /\ rhs' = rhs
            BY <2>6 DEF Consume
        <3>2. /\ Size(rhs) \in 0..Size(lhs)
              /\ \A i \in 1..Len(r) : l[i] = r[i]
            BY <2>1, <2>3, <3>1, StartsWithNibbles DEF l, r
        <3>3. /\ Len(l') = Len(l) - Len(r)
              /\ \A i \in 1..Len(l) - Len(r) : l'[i] = l[Len(r) + i]
            <4>1. /\ Size(lhs') = Size(lhs) - Size(rhs)
                  /\ \A i \in 1..Size(lhs) - Size(rhs) :
                        Nibbles(lhs')[i] = Nibbles(lhs)[Size(rhs) + i]
                BY <2>1, <3>1, <3>2, ConsumedNibbles
            <4> QED BY <2>2, <2>3, <4>1 DEF l
        <3>4. l = r \o l'
            <4>1. Len(r) <= Len(l)
                BY <2>3, <3>2
            <4> QED BY <2>3, <3>2, <3>3, <4>1, Parts
        <3> QED BY <2>2, <3>1, <3>4 DEF Abstract!Next, Abstract!Consume, r, l
    <2>7. CASE ConsumeOne
        <3>1. 1 \in 0..Size(lhs) /\ lhs' = ConsumeNibbles(lhs, 1) /\ rhs' = rhs
            BY <2>3, <2>7 DEF ConsumeOne
        <3>2. /\ Len(l') = Len(l) - 1
              /\ \A i \in 1..Len(l) - 1 : l'[i] = l[1 + i]
            BY <2>1, <2>2, <2>3, <3>1, ConsumedNibbles DEF l
        <3>3. l # <<>>
            BY <2>3, <3>1, EmptySeq
        <3>4. l' = Tail(l)
            BY <2>3, <3>2, <3>3, FirstRemoved
        <3> QED BY <2>2, <3>1, <3>3, <3>4 DEF Abstract!Next, Abstract!ConsumeOne, r, l
    <2>8. CASE TakeCommonPrefix
        <3> DEFINE n == CommonSize(lhs, rhs)
        <3>1. lhs' = ConstructFromPrefix(lhs, n) /\ rhs' = rhs
            BY <2>8 DEF TakeCommonPrefix, CommonPrefix
        <3>2. /\ n \in Nat /\ n <= Len(l) /\ n <= Len(r)
              /\ \A i \in 1..n : l[i] = r[i]
              /\ n < Len(l) /\ n < Len(r) => l[n + 1] # r[n + 1]
            BY <2>1, <2>3, CommonSizeIsLongest DEF l, r
        <3>3. n \in 0..Size(lhs)
            BY <2>3, <3>2
        <3> HIDE DEF n
        <3>4. Len(l') = n /\ \A i \in 1..n : l'[i] = l[i]
            BY <2>1, <2>2, <3>1, <3>3, PrefixNibbles DEF l
        <3>5. Abstract!IsPrefix(l', l) /\ Abstract!IsPrefix(l', r)
            BY <2>3, <3>2, <3>4, PrefixOf
        <3> QED BY <2>2, <3>1, <3>2, <3>4, <3>5
                DEF Abstract!Next, Abstract!TakeCommonPrefix, r, l
    <2>9. CASE Concatenate
        <3>1. l' = l \o r /\ r' = r
            BY <2>1, <2>2, <2>9, ConcatNibbles DEF Concatenate, l, r
        <3>2. Len(l) + Len(r) <= MaxSize
            BY <2>3, <2>9 DEF Concatenate
        <3> QED BY <3>1, <3>2 DEF Abstract!Next, Abstract!Concatenate, r, l
    <2>10. CASE Store
        BY <2>1, <2>2, <2>10, StoredNibbles DEF Store, l, r
    <2>11. CASE UNCHANGED vars
        BY <2>2, <2>11 DEF vars, l, r
    <2> QED BY <2>4, <2>5, <2>6, <2>7, <2>8, <2>9, <2>10, <2>11 DEF Next
<1> QED BY <1>1, <1>2, TypeCorrect, PTL DEF Spec, IsNibbleSeq, Abstract!Spec

================================================================================
