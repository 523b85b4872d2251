------------------------------ MODULE LoaderProofs ------------------------------
(*****************************************************************************)
(* What holds of every block and account that is loaded, whatever documents  *)
(* and streams there are and however wide the numbers.                       *)
(*****************************************************************************)
EXTENDS Loader, Recursion, SequenceTheorems

\* ------------------------------------------------------------------- documents

\* What is in order, and what a text reads as.
IsItems(s) == Len(s) \in Nat /\ s = [i \in 1..Len(s) |-> s[i]]
IsText(t) == t.form \in Form /\ t.num \in Nat /\ (t.form = "" => t.num = 0)

LEMMA InputsAre ==
    /\ HashSize \in Nat /\ WordMax \in Nat /\ WideMax \in Nat /\ WordMax <= WideMax
    /\ Chunk \in Nat \ {0} /\ Json \in Seq(STRING) /\ Nul \notin Range(Json)
    /\ \A in \in Inputs : in.kind \in Kinds /\ Document(in.doc)
    /\ \A in \in Inputs : in.stream.text \in Seq(STRING)
<1>1. \A in \in Inputs : in.stream.text \in Seq(STRING)
  BY LoaderAssumption
<1> QED BY <1>1, LoaderAssumption, DocumentAssumption

LEMMA ItemsAreSeq ==
    ASSUME NEW s, IsItems(s)
    PROVE  s \in Seq({s[i] : i \in 1..Len(s)}) /\ DOMAIN s = 1..Len(s)
  BY DEF IsItems

LEMMA SeqIsItems == ASSUME NEW T, NEW s \in Seq(T) PROVE IsItems(s)
<1>1. Len(s) \in Nat /\ s \in [1..Len(s) -> T]
  OBVIOUS
<1>2. s = [i \in 1..Len(s) |-> s[i]]
  BY <1>1
<1> QED BY <1>1, <1>2 DEF IsItems

LEMMA ItemsAppended ==
    ASSUME NEW s, IsItems(s), NEW e
    PROVE  /\ IsItems(Append(s, e)) /\ Len(Append(s, e)) = Len(s) + 1
           /\ \A i \in 1..Len(s) : Append(s, e)[i] = s[i]
           /\ Append(s, e)[Len(s) + 1] = e
<1> DEFINE T == {s[i] : i \in 1..Len(s)} \cup {e}
<1>1. s \in Seq(T)
  BY DEF IsItems
<1> HIDE DEF T
<1>2. e \in T
  BY DEF T
<1>3. Append(s, e) \in Seq(T) /\ Len(Append(s, e)) = Len(s) + 1 /\ Len(s) \in Nat
  BY <1>1, <1>2
<1>4. /\ \A i \in 1..Len(s) : Append(s, e)[i] = s[i]
      /\ Append(s, e)[Len(s) + 1] = e
  BY <1>1, <1>2
<1>5. IsItems(Append(s, e))
  BY <1>3, SeqIsItems
<1> QED BY <1>3, <1>4, <1>5

LEMMA ItemsBefore ==
    ASSUME NEW s, IsItems(s), NEW n \in 0..Len(s)
    PROVE  /\ IsItems(SubSeq(s, 1, n)) /\ Len(SubSeq(s, 1, n)) = n
           /\ \A i \in 1..n : SubSeq(s, 1, n)[i] = s[i]
           /\ DOMAIN SubSeq(s, 1, n) = 1..n
<1> DEFINE T == {s[i] : i \in 1..Len(s)}
<1>1. s \in Seq(T) /\ Len(s) \in Nat
  BY DEF IsItems
<1> HIDE DEF T
<1> QED BY <1>1 DEF IsItems

\* The items up to n and those before, with one more.
LEMMA OneMore ==
    ASSUME NEW s, IsItems(s), NEW n \in 1..Len(s)
    PROVE  SubSeq(s, 1, n) = Append(SubSeq(s, 1, n - 1), s[n])
<1> DEFINE T == {s[i] : i \in 1..Len(s)}
<1>1. s \in Seq(T) /\ Len(s) \in Nat /\ s[n] \in T
  BY DEF IsItems
<1> HIDE DEF T
<1> QED BY <1>1

LEMMA ArrayHasItems == 
    ASSUME NEW v, v.is = "array", Depth4(v) \/ Depth3(v) \/ Depth5(v)
    PROVE  IsItems(v.items) /\ DOMAIN v.items = 1..Len(v.items)
<1>1. IsItems(v.items)
  BY DEF Depth3, Depth4, Depth5, Node, IsItems
<1> QED BY <1>1, ItemsAreSeq

\* The parts of a message and of a slot that a valid file has.
IsMessageText(m) ==
    /\ m.from.of \in Address /\ m.to.of \in Address
    /\ IsText(m.feeCredit) /\ m.feeCredit.form = "decimal"
    /\ IsText(m.value)
    /\ m.data.form \in {"hex", "odd", "HEX"}

LEMMA BlockFile ==
    ASSUME input \in Inputs, input.kind = "block", Valid
    PROVE  /\ IsItems(Messages) /\ DOMAIN Messages = 1..Len(Messages)
           /\ \A i \in 1..Len(Messages) : IsMessageText(Messages[i].at)
           /\ doc.at.number.is = "int64"
                 => doc.at.number.num \in Int /\ doc.at.number.num <= WordMax
           /\ IsText(doc.at.gasPrice) /\ doc.at.gasPrice.form = "decimal"
           /\ doc.at.parentHash.form \in {"hex", "odd"}
           /\ doc.at.parentHash.form = "hex" => doc.at.parentHash.of \in Seq(Byte)
<1>1. ValidBlock(doc) /\ Document(doc)
  BY InputsAre DEF Valid, doc
<1>2. /\ doc.is = "object"
      /\ {"number", "parentHash", "gasPrice", "messages"} \subseteq DOMAIN doc.at
      /\ LowerHex(doc.at.parentHash) /\ Decimal(doc.at.gasPrice)
      /\ doc.at.messages.is = "array"
      /\ \A i \in DOMAIN doc.at.messages.items : ValidMessage(doc.at.messages.items[i])
  BY <1>1, Zenon DEF ValidBlock, Has, UniqueItems
<1>3. /\ Depth5(doc.at.number) /\ Depth5(doc.at.gasPrice) /\ Depth5(doc.at.messages)
      /\ Depth5(doc.at.parentHash)
  BY <1>1, <1>2, Zenon DEF Document, Node
<1>4. /\ IsItems(Messages) /\ DOMAIN Messages = 1..Len(Messages)
      /\ \A i \in DOMAIN Messages : Depth4(Messages[i])
  <2>1. IsItems(Messages) /\ DOMAIN Messages = 1..Len(Messages)
    BY <1>2, <1>3, ArrayHasItems DEF Messages
  <2>2. \A i \in DOMAIN Messages : Depth4(Messages[i])
    BY <1>2, <1>3, Zenon DEF Depth5, Node, Messages
  <2> QED BY <2>1, <2>2
<1>5. ASSUME NEW i \in 1..Len(Messages) PROVE IsMessageText(Messages[i].at)
  <2> DEFINE v == Messages[i]
  <2>1. ValidMessage(v) /\ Depth4(v)
    BY <1>2, <1>4 DEF Messages
  <2> HIDE DEF v
  <2>2. /\ v.is = "object"
        /\ {"flags", "from", "to", "feeCredit", "value", "data"} \subseteq DOMAIN v.at
        /\ AddressText(v.at.from) /\ AddressText(v.at.to)
        /\ Decimal(v.at.feeCredit) /\ v.at.value.is = "string" /\ AnyHex(v.at.data)
    BY <2>1, Zenon DEF ValidMessage, Has
  <2>3. Depth3(v.at.feeCredit) /\ Depth3(v.at.value)
    BY <2>1, <2>2, Zenon DEF Depth4, Node
  <2>4. IsText(v.at.feeCredit) /\ IsText(v.at.value) /\ v.at.feeCredit.form = "decimal"
    BY <2>2, <2>3 DEF Depth3, Node, IsText, Decimal, Text
  <2> QED BY <2>2, <2>4 DEF IsMessageText, AddressText, AnyHex, Text, v
<1>6. doc.at.number.is = "int64" => doc.at.number.num \in Int /\ doc.at.number.num <= WordMax
  BY <1>3, Zenon DEF Depth5, Node
<1>7. IsText(doc.at.gasPrice) /\ doc.at.gasPrice.form = "decimal"
  BY <1>2, <1>3 DEF Depth5, Node, IsText, Decimal, Text
<1>8. /\ doc.at.parentHash.form \in {"hex", "odd"}
      /\ doc.at.parentHash.form = "hex" => doc.at.parentHash.of \in Seq(Byte)
  <2>1. /\ doc.at.parentHash.is = "string" /\ doc.at.parentHash.form \in {"hex", "odd"}
        /\ Has(doc, {"parentHash"})
    BY <1>2 DEF LowerHex, Text, Has
  <2>2. Text(doc.at.parentHash, {"hex"}) => doc.at.parentHash.of \in Seq(Byte)
    BY <2>1, DocumentAssumption, Zenon DEF doc
  <2> QED BY <2>1, <2>2 DEF Text
<1> QED BY <1>4, <1>5, <1>6, <1>7, <1>8

\* A slot of a storage whose members are texts.
IsSlot(v) == Has(v, {"Key", "Val"}) /\ v.at.Key.is = "string" /\ v.at.Val.is = "string"

LEMMA SlotTexts ==
    ASSUME NEW v, Depth2(v) \/ Depth3(v), IsSlot(v)
    PROVE  IsText(v.at.Key) /\ IsText(v.at.Val)
<1>1. v.is = "object" /\ "Key" \in DOMAIN v.at /\ "Val" \in DOMAIN v.at
  BY DEF IsSlot, Has
<1>2. (Depth1(v.at.Key) /\ Depth1(v.at.Val)) \/ (Depth2(v.at.Key) /\ Depth2(v.at.Val))
  BY <1>1, Zenon DEF Depth2, Depth3, Node
<1> QED BY <1>2 DEF Depth1, Depth2, Node, IsText, IsSlot

\* The storage of an entry that is valid, and the rest of it.
IsEntry(e) ==
    /\ e.at.code.form \in {"hex", "odd"} /\ e.at.contract.form \in {"hex", "odd", "HEX"}
    /\ IsItems(e.at.storage.items) /\ DOMAIN e.at.storage.items = 1..Len(e.at.storage.items)
    /\ \A i \in 1..Len(e.at.storage.items) :
          LET v == e.at.storage.items[i]
          IN  /\ IsSlot(v) /\ IsText(v.at.Key) /\ IsText(v.at.Val)
              /\ v.at.Key.form \in {"hex", "odd", "HEX"} /\ Fits(v.at.Key)
              /\ v.at.Val.form = "decimal"

LEMMA StateFile ==
    ASSUME input \in Inputs, input.kind = "state", Valid
    PROVE  /\ IsItems(Entries) /\ DOMAIN Entries = 1..Len(Entries)
           /\ \A i \in 1..Len(Entries) : IsEntry(Entries[i])
<1>1. ValidState(doc) /\ Document(doc)
  BY InputsAre DEF Valid, doc
<1>2. /\ doc.is = "object" /\ "accounts" \in DOMAIN doc.at
      /\ doc.at.accounts.is = "array"
      /\ \A i \in DOMAIN doc.at.accounts.items : ValidAccount(doc.at.accounts.items[i])
  BY <1>1, Zenon DEF ValidState, UniqueItems
<1>3. Depth5(doc.at.accounts)
  BY <1>1, <1>2, Zenon DEF Document, Node
<1>4. IsItems(Entries) /\ DOMAIN Entries = 1..Len(Entries)
  BY <1>2, <1>3, ArrayHasItems DEF Entries
<1>5. \A i \in DOMAIN Entries : Depth4(Entries[i]) /\ ValidAccount(Entries[i])
  BY <1>2, <1>3, Zenon DEF Depth5, Node, Entries
<1>6. ASSUME NEW e, Depth4(e), ValidAccount(e) PROVE IsEntry(e)
  <2> DEFINE items == e.at.storage.items
  <2>1. /\ e.is = "object" /\ DOMAIN e.at = {"code", "contract", "proof", "storage"}
        /\ LowerHex(e.at.code) /\ AnyHex(e.at.contract)
        /\ e.at.storage.is = "array"
        /\ \A i \in DOMAIN items : ValidSlot(items[i])
    BY <1>6, Zenon DEF ValidAccount
  <2>2. "storage" \in DOMAIN e.at
    BY <2>1
  <2>3. Depth3(e.at.storage)
    BY <1>6, <2>1, <2>2, Zenon DEF Depth4, Node
  <2>4. IsItems(items) /\ DOMAIN items = 1..Len(items)
    BY <2>1, <2>3, ArrayHasItems
  <2>5. ASSUME NEW i \in 1..Len(items)
        PROVE  /\ IsSlot(items[i]) /\ IsText(items[i].at.Key) /\ IsText(items[i].at.Val)
               /\ items[i].at.Key.form \in {"hex", "odd", "HEX"} /\ Fits(items[i].at.Key)
               /\ items[i].at.Val.form = "decimal"
    <3> DEFINE v == items[i]
    <3>1. ValidSlot(v) /\ Depth2(v)
      BY <2>1, <2>3, <2>4 DEF Depth3, Node
    <3> HIDE DEF v
    <3>2. /\ IsSlot(v) /\ v.at.Key.form \in {"hex", "odd", "HEX"} /\ Fits(v.at.Key)
          /\ v.at.Val.form = "decimal"
      BY <3>1 DEF ValidSlot, IsSlot, Has, AnyHex, Decimal, Text, Fits
    <3> QED BY <3>1, <3>2, SlotTexts DEF v
  <2> QED BY <2>1, <2>4, <2>5 DEF IsEntry, LowerHex, AnyHex, Text
<1> QED BY <1>4, <1>5, <1>6

\* --------------------------------------------------------------- conversions

LEMMA Wraps == ASSUME NEW k \in Nat, NEW M \in Nat PROVE k % (M + 1) \in 0..M
  OBVIOUS

LEMMA StoullGives ==
    ASSUME NEW t, IsText(t), NEW n \in Stoull(t)
    PROVE  /\ n = Throw \/ n \in Uint64
           /\ t.form = "decimal" /\ n # Throw => n = t.num
           /\ t.form = "decimal" /\ n = Throw => ~ (t.num <= WordMax)
<1> DEFINE k == t.num
<1>1. WordMax \in Nat /\ k \in Nat
  BY InputsAre DEF IsText
<1>2. \/ t.form = "decimal" /\ k <= WordMax /\ n = k
      \/ ~ (t.form = "decimal" /\ k <= WordMax)
         /\ t.form \in {"hex", "HEX", "odd"} /\ n = 0
      \/ ~ (t.form = "decimal" /\ k <= WordMax) /\ n = Throw
  BY DEF Stoull
<1> HIDE DEF k
<1>3. "decimal" \notin {"hex", "HEX", "odd"}
  OBVIOUS
<1>4. k <= WordMax => k \in Uint64 /\ k # Throw
  BY <1>1 DEF Uint64, Throw
<1>5. 0 \in Uint64 /\ 0 # Throw
  BY <1>1 DEF Uint64, Throw
<1> QED BY <1>2, <1>3, <1>4, <1>5, Zenon DEF k

LEMMA FromStringGives ==
    ASSUME NEW t, IsText(t), NEW n \in FromString(t)
    PROVE  /\ n = Throw \/ n \in Value
           /\ n # Throw /\ Fits(t) => n = t.num
           /\ n = Throw => t.form = "other" \/ ~ Fits(t)
<1> DEFINE k == t.num
           m == k % (WideMax + 1)
<1>1. WideMax \in Nat /\ k \in Nat /\ (t.form = "" => k = 0)
  BY InputsAre DEF IsText
<1>2. m \in Value
  BY <1>1, Wraps DEF Value
<1> HIDE DEF m
<1>3. \/ t.form = "" /\ n = 0
      \/ t.form = "other" /\ n = Throw
      \/ t.form # "" /\ t.form # "other" /\ k <= WideMax /\ n = k
      \/ t.form # "" /\ t.form # "other" /\ ~ (k <= WideMax) /\ n \in {Throw, m}
  BY DEF FromString, m
<1>4. Fits(t) <=> k <= WideMax
  BY Zenon DEF Fits
<1> HIDE DEF k
<1>5. /\ 0 \in Value /\ 0 <= WideMax
      /\ \A x \in Value : x # Throw
      /\ k <= WideMax => k \in Value
  <2>1. WideMax \in Nat /\ k \in Nat
    BY <1>1
  <2> QED BY <2>1 DEF Value, Throw
<1>6. n \in {Throw, m} => n = Throw \/ n = m
  OBVIOUS
<1>7. n = t.num <=> n = k
  BY DEF k
<1> QED BY <1>1, <1>2, <1>3, <1>4, <1>5, <1>6, <1>7, Zenon

\* ----------------------------------------------- what a part of a file describes

LEMMA SlotCounts ==
    ASSUME NEW s, IsItems(s), NEW i \in 1..Len(s),
           \A j \in 1..(i - 1) : KeyOf(s[j]) # KeyOf(s[i])
    PROVE  /\ KeyOf(s[i]) \in DOMAIN DescribedStorage(s)
           /\ DescribedStorage(s)[KeyOf(s[i])] = ValOf(s[i])
<1> DEFINE k == KeyOf(s[i])
           First(l) == KeyOf(s[l]) = k /\ \A j \in 1..(l - 1) : KeyOf(s[j]) # k
           c == CHOOSE l \in DOMAIN s : First(l)
<1>1. DOMAIN s = 1..Len(s) /\ Len(s) \in Nat
  BY ItemsAreSeq DEF IsItems
<1>2. i \in DOMAIN s /\ First(i)
  BY <1>1
<1>3. c \in DOMAIN s /\ First(c)
  <2> HIDE DEF First
  <2> QED BY <1>2
<1>4. c = i
  <2>1. c \in Nat /\ i \in Nat /\ c >= 1 /\ i >= 1
    <3> HIDE DEF c
    <3>1. c \in 1..Len(s)
      BY <1>1, <1>3, Zenon
    <3> QED BY <1>1, <3>1
  <2>2. ~ (i < c)
    <3>1. i < c => i \in 1..(c - 1)
      BY <2>1
    <3> QED BY <1>3, <3>1
  <2>3. ~ (c < i)
    <3>1. c < i => c \in 1..(i - 1)
      BY <2>1
    <3> QED BY <1>3, <3>1
  <2> HIDE DEF c
  <2> QED BY <2>1, <2>2, <2>3
<1>5. k \in {KeyOf(s[l]) : l \in DOMAIN s}
  BY <1>2
<1>6. DescribedStorage(s)[k] = ValOf(s[c]) /\ k \in DOMAIN DescribedStorage(s)
  BY <1>5 DEF DescribedStorage
<1> QED BY <1>4, <1>6

LEMMA FirstSlot ==
    ASSUME NEW s, IsItems(s), NEW k, NEW l \in 1..Len(s), KeyOf(s[l]) = k
    PROVE  \E i \in 1..Len(s) : KeyOf(s[i]) = k /\ \A j \in 1..(i - 1) : KeyOf(s[j]) # k
<1> DEFINE S == {i \in 1..Len(s) : KeyOf(s[i]) = k}
<1>1. S \subseteq Nat /\ S # {} /\ Len(s) \in Nat
  BY DEF IsItems
<1>2. PICK i \in S : \A j \in S : i <= j
  BY <1>1, LeastExists
<1>3. ASSUME NEW j \in 1..(i - 1) PROVE KeyOf(s[j]) # k
  <2>1. j \in 1..Len(s) /\ ~ (i <= j)
    BY <1>1, <1>2
  <2> QED BY <1>2, <2>1
<1> QED BY <1>2, <1>3

\* One more slot counts only if its key is new.
LEMMA StorageGrows ==
    ASSUME NEW s, IsItems(s), NEW v
    PROVE  DescribedStorage(Append(s, v)) =
               Emplace(DescribedStorage(s), KeyOf(v), ValOf(v))
<1> DEFINE t == Append(s, v)
           n == Len(s)
           f == DescribedStorage(s)
           g == DescribedStorage(t)
           h == Emplace(f, KeyOf(v), ValOf(v))
<1>1. /\ IsItems(t) /\ Len(t) = n + 1 /\ n \in Nat /\ DOMAIN t = 1..(n + 1) /\ DOMAIN s = 1..n
      /\ \A i \in 1..n : t[i] = s[i]
      /\ t[n + 1] = v
  <2>1. /\ IsItems(t) /\ Len(t) = n + 1 /\ n \in Nat
        /\ \A i \in 1..n : t[i] = s[i]
        /\ t[n + 1] = v
    BY ItemsAppended DEF IsItems
  <2> QED BY <2>1, ItemsAreSeq
<1> HIDE DEF t, n
<1>2. DOMAIN f = {KeyOf(s[i]) : i \in 1..n} /\ DOMAIN g = {KeyOf(t[i]) : i \in 1..(n + 1)}
  BY <1>1 DEF DescribedStorage
<1>3. DOMAIN h = DOMAIN f \cup {KeyOf(v)}
  BY DEF Emplace
<1>4. DOMAIN g = DOMAIN h
  <2>1. ASSUME NEW k \in DOMAIN g PROVE k \in DOMAIN h
    <3>1. PICK i \in 1..(n + 1) : k = KeyOf(t[i])
      BY <1>2
    <3>2. i \in 1..n \/ i = n + 1
      BY <1>1
    <3> QED BY <1>1, <1>2, <1>3, <3>1, <3>2
  <2>2. ASSUME NEW k \in DOMAIN h PROVE k \in DOMAIN g
    <3>1. n + 1 \in 1..(n + 1) /\ \A i \in 1..n : i \in 1..(n + 1)
      BY <1>1
    <3> QED BY <1>1, <1>2, <1>3, <3>1
  <2> QED BY <2>1, <2>2
<1>5. ASSUME NEW k \in DOMAIN g PROVE g[k] = h[k]
  <2>1. CASE k \in DOMAIN f
    <3>1. PICK l \in 1..n : KeyOf(s[l]) = k
      BY <1>2, <2>1
    <3>2. PICK i \in 1..n : KeyOf(s[i]) = k /\ \A j \in 1..(i - 1) : KeyOf(s[j]) # k
      <4>1. \E i \in 1..Len(s) :
               KeyOf(s[i]) = k /\ \A j \in 1..(i - 1) : KeyOf(s[j]) # k
        <5>1. l \in 1..Len(s) /\ KeyOf(s[l]) = k
          BY <3>1 DEF n
        <5> HIDE DEF f, g, h
        <5> QED BY <5>1, FirstSlot
      <4> QED BY <4>1 DEF n
    <3>3. f[k] = ValOf(s[i])
      BY <3>2, SlotCounts DEF n
    <3>4. i \in 1..Len(t) /\ t[i] = s[i] /\ \A j \in 1..(i - 1) : t[j] = s[j]
      BY <1>1, <3>2
    <3>5. g[k] = ValOf(s[i])
      BY <1>1, <3>2, <3>4, SlotCounts
    <3> HIDE DEF f, g
    <3> QED BY <1>3, <2>1, <3>3, <3>5 DEF Emplace
  <2>2. CASE k \notin DOMAIN f
    <3>1. k = KeyOf(v)
      BY <1>3, <1>4, <2>2
    <3>2. \A j \in 1..n : KeyOf(t[j]) # k
      BY <1>1, <1>2, <2>2
    <3>3. n + 1 \in 1..Len(t) /\ (n + 1) - 1 = n
      BY <1>1
    <3>4. g[k] = ValOf(v)
      BY <1>1, <3>1, <3>2, <3>3, SlotCounts
    <3> HIDE DEF f, g
    <3> QED BY <1>3, <2>2, <3>1, <3>4 DEF Emplace
  <2> QED BY <2>1, <2>2
<1>6. g = [k \in DOMAIN g |-> g[k]] /\ h = [k \in DOMAIN h |-> h[k]]
  <2>1. g = [k \in DOMAIN g |-> g[k]]
    BY DEF DescribedStorage
  <2>2. h = [k \in DOMAIN h |-> h[k]]
    BY Zenon DEF Emplace
  <2> QED BY <2>1, <2>2
<1> HIDE DEF g, h
<1>7. g = h
  BY <1>4, <1>5, <1>6
<1> QED BY <1>7 DEF g, h, f, t

LEMMA AccountCounts ==
    ASSUME NEW s, IsItems(s), NEW i \in 1..Len(s),
           \A j \in (i + 1)..Len(s) : AddressOf(s[j]) # AddressOf(s[i])
    PROVE  /\ AddressOf(s[i]) \in DOMAIN DescribedAccounts(s)
           /\ DescribedAccounts(s)[AddressOf(s[i])] = DescribedAccount(s[i])
<1> DEFINE k == AddressOf(s[i])
           IsLast(l) == AddressOf(s[l]) = k /\ \A j \in (l + 1)..Len(s) : AddressOf(s[j]) # k
           c == CHOOSE l \in DOMAIN s : IsLast(l)
<1>1. DOMAIN s = 1..Len(s) /\ Len(s) \in Nat
  BY ItemsAreSeq DEF IsItems
<1>2. i \in DOMAIN s /\ IsLast(i)
  BY <1>1
<1>3. c \in DOMAIN s /\ IsLast(c)
  <2> HIDE DEF IsLast
  <2> QED BY <1>2
<1>4. c = i
  <2>1. c \in Nat /\ i \in Nat /\ c <= Len(s) /\ i <= Len(s)
    BY <1>1, <1>3
  <2>2. ~ (i < c)
    <3>1. i < c => c \in (i + 1)..Len(s)
      BY <1>1, <2>1
    <3> QED BY <1>3, <3>1
  <2>3. ~ (c < i)
    <3>1. c < i => i \in (c + 1)..Len(s)
      BY <1>1, <2>1
    <3> QED BY <1>3, <3>1
  <2> HIDE DEF c
  <2> QED BY <2>1, <2>2, <2>3
<1>5. k \in {AddressOf(s[l]) : l \in DOMAIN s}
  BY <1>2
<1>6. DescribedAccounts(s)[k] = DescribedAccount(s[c]) /\ k \in DOMAIN DescribedAccounts(s)
  BY <1>5 DEF DescribedAccounts
<1> QED BY <1>4, <1>6

LEMMA LastAccount ==
    ASSUME NEW s, IsItems(s), NEW k, NEW l \in 1..Len(s), AddressOf(s[l]) = k
    PROVE  \E i \in 1..Len(s) :
              AddressOf(s[i]) = k /\ \A j \in (i + 1)..Len(s) : AddressOf(s[j]) # k
<1> DEFINE S == {i \in 1..Len(s) : AddressOf(s[i]) = k}
<1>1. S \subseteq Nat /\ S # {} /\ Len(s) \in Nat /\ \A i \in S : i <= Len(s)
  BY DEF IsItems
<1>2. PICK i \in S : \A j \in S : j <= i
  <2> HIDE DEF S
  <2> QED BY <1>1, GreatestExists
<1>3. ASSUME NEW j \in (i + 1)..Len(s) PROVE AddressOf(s[j]) # k
  <2>1. j \in 1..Len(s) /\ ~ (j <= i)
    BY <1>1, <1>2
  <2> QED BY <1>2, <2>1
<1> QED BY <1>2, <1>3

\* One more account replaces another at its address.
LEMMA AccountsGrow ==
    ASSUME NEW s, IsItems(s), NEW e
    PROVE  DescribedAccounts(Append(s, e)) =
               Assign(DescribedAccounts(s), AddressOf(e), DescribedAccount(e))
<1> DEFINE t == Append(s, e)
           n == Len(s)
           f == DescribedAccounts(s)
           g == DescribedAccounts(t)
           h == Assign(f, AddressOf(e), DescribedAccount(e))
<1>1. /\ IsItems(t) /\ Len(t) = n + 1 /\ n \in Nat /\ DOMAIN t = 1..(n + 1) /\ DOMAIN s = 1..n
      /\ \A i \in 1..n : t[i] = s[i]
      /\ t[n + 1] = e
  <2>1. /\ IsItems(t) /\ Len(t) = n + 1 /\ n \in Nat
        /\ \A i \in 1..n : t[i] = s[i]
        /\ t[n + 1] = e
    BY ItemsAppended DEF IsItems
  <2> QED BY <2>1, ItemsAreSeq
<1> HIDE DEF t, n
<1>2. DOMAIN f = {AddressOf(s[i]) : i \in 1..n} /\ DOMAIN g = {AddressOf(t[i]) : i \in 1..(n + 1)}
  BY <1>1 DEF DescribedAccounts
<1>3. DOMAIN h = DOMAIN f \cup {AddressOf(e)}
  BY DEF Assign
<1>4. DOMAIN g = DOMAIN h
  <2>1. ASSUME NEW k \in DOMAIN g PROVE k \in DOMAIN h
    <3>1. PICK i \in 1..(n + 1) : k = AddressOf(t[i])
      BY <1>2
    <3>2. i \in 1..n \/ i = n + 1
      BY <1>1
    <3> QED BY <1>1, <1>2, <1>3, <3>1, <3>2
  <2>2. ASSUME NEW k \in DOMAIN h PROVE k \in DOMAIN g
    <3>1. n + 1 \in 1..(n + 1) /\ \A i \in 1..n : i \in 1..(n + 1)
      BY <1>1
    <3> QED BY <1>1, <1>2, <1>3, <3>1
  <2> QED BY <2>1, <2>2
<1>5. ASSUME NEW k \in DOMAIN g PROVE g[k] = h[k]
  <2>1. CASE k = AddressOf(e)
    <3>1. n + 1 \in 1..Len(t) /\ \A j \in (n + 1 + 1)..Len(t) : FALSE
      BY <1>1
    <3>2. g[k] = DescribedAccount(e)
      BY <1>1, <2>1, <3>1, AccountCounts
    <3> HIDE DEF f, g
    <3> QED BY <1>3, <2>1, <3>2 DEF Assign
  <2>2. CASE k # AddressOf(e)
    <3>1. PICK l \in 1..n : AddressOf(s[l]) = k
      BY <1>2, <1>3, <1>4, <2>2
    <3>2. PICK i \in 1..n : AddressOf(s[i]) = k /\ \A j \in (i + 1)..n : AddressOf(s[j]) # k
      BY <3>1, LastAccount DEF n
    <3>3. f[k] = DescribedAccount(s[i]) /\ k \in DOMAIN f
      BY <3>2, AccountCounts DEF n
    <3>4. i \in 1..Len(t) /\ t[i] = s[i] /\ \A j \in (i + 1)..Len(t) : AddressOf(t[j]) # k
      <4>1. i \in 1..Len(t) /\ t[i] = s[i]
        BY <1>1
      <4>2. ASSUME NEW j \in (i + 1)..Len(t) PROVE AddressOf(t[j]) # k
        <5>1. (j \in (i + 1)..n /\ j \in 1..n) \/ j = n + 1
          BY <1>1
        <5> QED BY <1>1, <2>2, <3>2, <5>1
      <4> QED BY <4>1, <4>2
    <3>5. g[k] = DescribedAccount(s[i])
      BY <1>1, <3>2, <3>4, AccountCounts
    <3> HIDE DEF f, g
    <3> QED BY <1>3, <2>2, <3>3, <3>5 DEF Assign
  <2> QED BY <2>1, <2>2
<1>6. /\ g = [k \in DOMAIN g |-> g[k]] /\ h = [k \in DOMAIN h |-> h[k]]
  BY DEF DescribedAccounts, Assign
<1> HIDE DEF g, h
<1>7. g = h
  BY <1>4, <1>5, <1>6
<1> QED BY <1>7 DEF g, h, f, t

LEMMA MessagesGrow ==
    ASSUME NEW s, IsItems(s), NEW v
    PROVE  DescribedMessages(Append(s, v)) =
               Append(DescribedMessages(s), MessageOf(v.at, v.at.feeCredit.num, v.at.value.num))
<1> DEFINE t == Append(s, v)
           n == Len(s)
           M(i) == MessageOf(t[i].at, t[i].at.feeCredit.num, t[i].at.value.num)
           T == {M(i) : i \in 1..(n + 1)}
<1>1. /\ IsItems(t) /\ Len(t) = n + 1 /\ n \in Nat /\ DOMAIN t = 1..(n + 1) /\ DOMAIN s = 1..n
      /\ \A i \in 1..n : t[i] = s[i]
      /\ t[n + 1] = v
  <2>1. /\ IsItems(t) /\ Len(t) = n + 1 /\ n \in Nat
        /\ \A i \in 1..n : t[i] = s[i]
        /\ t[n + 1] = v
    BY ItemsAppended DEF IsItems
  <2> QED BY <2>1, ItemsAreSeq
<1> HIDE DEF t, n
<1>2. DescribedMessages(t) = [i \in 1..(n + 1) |-> M(i)]
  BY <1>1, Zenon DEF DescribedMessages
<1>3. DescribedMessages(s) = [i \in 1..n |-> M(i)]
  <2>1. \A i \in 1..n : M(i) = MessageOf(s[i].at, s[i].at.feeCredit.num, s[i].at.value.num)
    BY <1>1
  <2> HIDE DEF M
  <2> QED BY <1>1, <2>1 DEF DescribedMessages
<1>4. M(n + 1) = MessageOf(v.at, v.at.feeCredit.num, v.at.value.num)
  BY <1>1
<1> HIDE DEF M
<1>5. [i \in 1..n |-> M(i)] \in Seq(T) /\ Len([i \in 1..n |-> M(i)]) = n /\ M(n + 1) \in T
  BY <1>1
<1> HIDE DEF T
<1>6. Append([i \in 1..n |-> M(i)], M(n + 1)) = [i \in 1..(n + 1) |-> M(i)]
  BY <1>1, <1>5
<1> QED BY <1>2, <1>3, <1>4, <1>6 DEF t

\* ---------------------------------------------------------- the invariant

Files == {"block", "state"}

\* Where the text of a stream has been read to its end, and found to be JSON.
Parsed == {"validate", "block", "state", "raw block", "raw account", "messages",
           "raw messages", "storage", "loaded"}

PlaceInv ==
    /\ input \in Inputs
    /\ pc \in Parsed \cup {"open", "read", "error", "crashed"}
    /\ pc = "validate" => input.kind \in Files
    /\ pc \in Kinds => input.kind = pc
    /\ pc = "messages" => input.kind = "block"
    /\ pc = "raw messages" => input.kind = "raw block"
    /\ pc = "storage" => input.kind \in {"state", "raw account"}
    /\ pc \in {"block", "messages", "state", "storage", "loaded"} /\ input.kind \in Files => Valid

\* Nothing of a stream is lost, and its end is its end.
StreamInv ==
    /\ eof \in BOOLEAN /\ rest \in Seq(STRING)
    /\ Nul \notin Range(input.stream.text) =>
          fed \in Seq(STRING) /\ fed \o rest = input.stream.text
    /\ eof => rest = <<>>
    /\ pc \in Parsed => eof /\ fed = Json

IsAccount(a) ==
    /\ a = [code |-> a.code, balance |-> a.balance, storage |-> a.storage]
    /\ a.balance \in Value
    /\ DOMAIN a.storage \subseteq Value /\ Range(a.storage) \subseteq Value

TypeInv ==
    /\ slot \in Nat
    /\ block \in Block
    /\ IsItems(messages) /\ \A i \in 1..Len(messages) : IsMessage(messages[i])
    /\ IsAccount(account)
    /\ DOMAIN accounts \subseteq Address /\ \A a \in DOMAIN accounts : IsAccount(accounts[a])

\* The numbers of the first n messages, of the first n slots of the storage that
\* is read and of the storages of the first n accounts.
MessagesFit(n) == \A i \in 1..n : Fits(Messages[i].at.value)
SlotsFit(n) == \A i \in 1..n : Fits(Storage[i].at.Key) /\ Fits(Storage[i].at.Val)
EntriesFit(n) ==
    \A i \in 1..n : \A v \in Range(Entries[i].at.storage.items) : Fits(v.at.Val)

BlockIsRead ==
    /\ block.id = doc.at.number.num /\ block.price = doc.at.gasPrice.num
    /\ block.parent = doc.at.parentHash.of

BlockInv ==
    input.kind = "block" /\ Valid =>
        /\ item \in 1..(Len(Messages) + 1)
        /\ MessagesFit(item - 1) => messages = DescribedMessages(SubSeq(Messages, 1, item - 1))
        /\ pc \in {"messages", "loaded"} /\ InRange => BlockIsRead
        /\ pc = "loaded" => item > Len(Messages)

RawMessages == doc.at.result.at.inMessages.items

RawBlockInv ==
    input.kind = "raw block" =>
        /\ pc \in {"open", "read", "raw block"} => item = 1 /\ messages = <<>>
        /\ pc \in {"raw messages", "loaded"} =>
              /\ IsItems(RawMessages) /\ item \in 1..(Len(RawMessages) + 1)
              /\ block = doc.at.result.at.content.of
              /\ Len(messages) = item - 1
              /\ \A i \in 1..(item - 1) : messages[i] = RawMessages[i].of
        /\ pc = "loaded" => item > Len(RawMessages)

StateInv ==
    input.kind = "state" /\ Valid =>
        /\ item \in 1..(Len(Entries) + 1)
        /\ EntriesFit(item - 1) => accounts = DescribedAccounts(SubSeq(Entries, 1, item - 1))
        /\ pc \in {"open", "read", "validate", "state"} => slot = 1
        /\ pc = "storage" =>
              /\ item <= Len(Entries)
              /\ Entries[item].at.contract.of \in Contract
              /\ account.code = Entries[item].at.code.of
              /\ account.balance = Entries[item].at.contract.of.balance
        /\ pc = "loaded" => item > Len(Entries)

\* What the slots before the loop make of the storage of an account.
StoredSoFar ==
    /\ IsItems(Storage) /\ slot \in 1..(Len(Storage) + 1)
    /\ SlotsFit(slot - 1) => account.storage = DescribedStorage(SubSeq(Storage, 1, slot - 1))

RawAccountInv ==
    input.kind = "raw account" =>
        /\ pc \in {"open", "read", "raw account"} => slot = 1 /\ account = NoAccount
        /\ pc \in {"storage", "loaded"} =>
              /\ StoredSoFar
              /\ \A i \in 1..Len(Storage) : Depth3(Storage[i])
              /\ account.code = doc.at.result.at.code.of
              /\ account.balance = doc.at.result.at.contract.of.balance
        /\ pc = "loaded" => slot > Len(Storage)

StorageInv == pc = "storage" => StoredSoFar

IInv ==
    /\ PlaceInv /\ StreamInv /\ TypeInv /\ ValidFilesLoad
    /\ BlockInv /\ RawBlockInv /\ StateInv /\ RawAccountInv /\ StorageInv

--------------------------------------------------------------------------------

LEMMA InputStays ==
    ASSUME [Next]_vars
    PROVE  /\ input' = input /\ doc' = doc /\ Valid' = Valid /\ InRange' = InRange
           /\ Messages' = Messages /\ Entries' = Entries /\ RawMessages' = RawMessages
<1>1. input' = input
  BY DEF Next, Open, Read, ReadFails, FinishParsing, Validate, HandleBlock, OverrunHash,
     HandleMessage, EndOfMessages, LoadRawBlock, LoadRawMessage, LoadRawAccount, HandleAccount,
     HandleStorage, KeepAccount, EndOfAccounts, Done, vars
<1>2. doc' = doc
  BY <1>1 DEF doc
<1>3. Messages' = Messages /\ Entries' = Entries /\ RawMessages' = RawMessages
  BY <1>2, Zenon DEF Messages, Entries, RawMessages
<1>4. Valid' = Valid
  BY <1>1, <1>2, Zenon DEF Valid
<1>5. InRange' = InRange
  BY <1>1, <1>2, <1>3, Zenon DEF InRange
<1> QED BY <1>1, <1>2, <1>3, <1>4, <1>5

(* Where the loader goes on.                                                   *)
LEMMA PlaceStep == ASSUME PlaceInv, [Next]_vars PROVE PlaceInv'
<1>1. input' = input /\ Valid' = Valid /\ input \in Inputs /\ input.kind \in Kinds
  BY InputStays, InputsAre DEF PlaceInv
<1> USE DEF PlaceInv, Parsed, Files, Kinds
<1>2. CASE Open \/ Read
  <2>1. pc' \in {"open", "read", "error"}
    BY <1>2 DEF Open, Read
  <2> QED BY <1>1, <2>1
<1>3. CASE ReadFails \/ Done \/ UNCHANGED vars
  <2>1. pc' = pc
    BY <1>3 DEF ReadFails, Done, vars
  <2> QED BY <1>1, <2>1
<1>4. CASE FinishParsing
  <2>1. \/ pc' = "error"
        \/ pc' = "validate" /\ input.kind \in {"block", "state"}
        \/ pc' = input.kind /\ input.kind \notin {"block", "state"}
    BY <1>4 DEF FinishParsing
  <2> QED BY <1>1, <2>1
<1>5. CASE Validate
  <2>1. pc = "validate" /\ (pc' = "error" \/ (pc' = input.kind /\ Valid))
    BY <1>5 DEF Validate
  <2> QED BY <1>1, <2>1
<1>6. CASE HandleBlock \/ OverrunHash \/ HandleMessage
  <2>1. pc \in {"block", "messages"} /\ pc' \in {"error", "crashed", "messages"}
    BY <1>6 DEF HandleBlock, OverrunHash, HandleMessage, Fail, Crash
  <2> QED BY <1>1, <2>1
<1>7. CASE EndOfMessages
  <2>1. pc \in {"messages", "raw messages"} /\ pc' = "loaded"
    BY <1>7 DEF EndOfMessages
  <2> QED BY <1>1, <2>1
<1>8. CASE LoadRawBlock \/ LoadRawMessage
  <2>1. /\ pc \in {"raw block", "raw messages"}
        /\ pc' \in {"error", "crashed", "raw messages"}
    BY <1>8 DEF LoadRawBlock, LoadRawMessage, Payload, Section, Fail, Crash
  <2> QED BY <1>1, <2>1
<1>9. CASE LoadRawAccount
  <2>1. pc = "raw account" /\ pc' \in {"error", "crashed", "storage"}
    BY <1>9 DEF LoadRawAccount, Payload, Section
  <2> QED BY <1>1, <2>1
<1>10. CASE HandleAccount
  <2>1. pc = "state" /\ pc' \in {"error", "crashed", "storage"}
    BY <1>10 DEF HandleAccount, Fail, Crash
  <2> QED BY <1>1, <2>1
<1>11. CASE HandleStorage
  <2>1. pc = "storage" /\ pc' \in {"error", "crashed", "storage"}
    BY <1>11 DEF HandleStorage, Fail, Crash
  <2> QED BY <1>1, <2>1
<1>12. CASE KeepAccount
  <2>1. pc = "storage" /\ input.kind = "state" /\ pc' = "state"
    BY <1>12 DEF KeepAccount
  <2> QED BY <1>1, <2>1
<1>13. CASE EndOfAccounts
  <2>1. pc \in {"state", "storage"} /\ pc' = "loaded"
    BY <1>13 DEF EndOfAccounts
  <2>2. pc = "storage" => input.kind = "raw account"
    BY <1>13 DEF EndOfAccounts
  <2> QED BY <1>1, <2>1, <2>2
<1> QED BY <1>2, <1>3, <1>4, <1>5, <1>6, <1>7, <1>8, <1>9, <1>10, <1>11, <1>12, <1>13 DEF Next

LEMMA JoinedInAnyOrder ==
    ASSUME NEW T
    PROVE  \A a \in Seq(T) : \A b \in Seq(T) : \A c \in Seq(T) : (a \o b) \o c = a \o (b \o c)
<1> SUFFICES ASSUME NEW a \in Seq(T), NEW b \in Seq(T), NEW c \in Seq(T)
             PROVE  (a \o b) \o c = a \o (b \o c)
  OBVIOUS
<1> QED BY ConcatAssociative, SMTT(30)

\* A part of a sequence and what is left after it.
LEMMA Parted ==
    ASSUME NEW T, NEW a \in Seq(T), NEW b \in Seq(T), NEW n \in 0..Len(b)
    PROVE  (a \o SubSeq(b, 1, n)) \o SubSeq(b, n + 1, Len(b)) = a \o b
<1> DEFINE c == SubSeq(b, 1, n)
           d == SubSeq(b, n + 1, Len(b))
           l == c \o d
<1>1. /\ Len(b) \in Nat /\ n \in Nat /\ n <= Len(b) /\ b \in Seq(T)
  OBVIOUS
<1>2. /\ c \in Seq(T) /\ Len(c) = n /\ \A i \in 1..n : c[i] = b[i]
      /\ d \in Seq(T) /\ Len(d) = Len(b) - n /\ \A i \in 1..(Len(b) - n) : d[i] = b[n + i]
  BY <1>1
<1> HIDE DEF c, d
<1>3. /\ l \in Seq(T) /\ Len(l) = Len(c) + Len(d)
      /\ \A i \in 1..(Len(c) + Len(d)) : l[i] = IF i <= Len(c) THEN c[i] ELSE d[i - Len(c)]
  BY <1>2, ConcatProperties
<1> HIDE DEF l
<1>4. Len(l) = Len(b)
  BY <1>1, <1>2, <1>3
<1>5. ASSUME NEW i \in 1..Len(b) PROVE l[i] = b[i]
  <2>1. i \in 1..(Len(c) + Len(d)) /\ Len(c) = n
    BY <1>1, <1>2
  <2>2. CASE i <= n
    <3>1. i \in 1..n
      BY <1>1, <2>2
    <3> QED BY <1>2, <1>3, <2>1, <2>2, <3>1
  <2>3. CASE ~ (i <= n)
    <3>1. i - n \in 1..(Len(b) - n) /\ n + (i - n) = i
      BY <1>1, <2>3
    <3>2. l[i] = d[i - n]
      BY <1>3, <2>1, <2>3
    <3> QED BY <1>2, <3>1, <3>2
  <2> QED BY <2>2, <2>3
<1>6. l = b
  BY <1>1, <1>3, <1>4, <1>5, SeqEqual
<1>7. (a \o c) \o d = a \o (c \o d)
  <2>1. a \in Seq(T) /\ c \in Seq(T) /\ d \in Seq(T)
    BY <1>2, Zenon
  <2>2. \A s \in Seq(T) : \A t \in Seq(T) : \A u \in Seq(T) : (s \o t) \o u = s \o (t \o u)
    BY JoinedInAnyOrder, SMTT(30)
  <2> QED BY <2>1, <2>2, Zenon
<1> QED BY <1>6, <1>7 DEF l, c, d

(* The text is given to the parser piece by piece, all of it and once.         *)
LEMMA StreamStep == ASSUME PlaceInv, StreamInv, [Next]_vars PROVE StreamInv'
<1>1. /\ input' = input /\ input.stream.text \in Seq(STRING)
      /\ eof \in BOOLEAN /\ rest \in Seq(STRING) /\ Len(rest) \in Nat
  <2>1. input' = input /\ input \in Inputs
    BY InputStays, Zenon DEF PlaceInv
  <2>2. eof \in BOOLEAN /\ rest \in Seq(STRING)
    BY Zenon DEF StreamInv
  <2>3. Len(rest) \in Nat
    BY <2>2
  <2>4. input.stream.text \in Seq(STRING)
    BY <2>1, InputsAre, Zenon
  <2> QED BY <2>1, <2>2, <2>3, <2>4
<1>2. CASE Read
  <2> DEFINE n == Min({Chunk, Len(rest)})
             chunk == SubSeq(rest, 1, n)
             left == SubSeq(rest, Len(chunk) + 1, Len(rest))
  <2>1. /\ rest' = left /\ eof' = (Len(chunk) < Chunk) /\ fed' = fed \o CString(chunk)
        /\ pc' \in {"read", "error"}
    BY <1>2 DEF Read
  <2>2. n \in 0..Len(rest) /\ (n < Chunk => n = Len(rest))
    <3> DEFINE m == IF Chunk <= Len(rest) THEN Chunk ELSE Len(rest)
    <3>1. Chunk \in Nat
      BY InputsAre
    <3>2. m \in {Chunk, Len(rest)} /\ \A y \in {Chunk, Len(rest)} : m <= y
      BY <1>1, <3>1
    <3>3. n \in {Chunk, Len(rest)} /\ \A y \in {Chunk, Len(rest)} : n <= y
      <4> HIDE DEF m
      <4> QED BY <3>2 DEF Min
    <3> HIDE DEF n
    <3> QED BY <1>1, <3>1, <3>3
  <2> HIDE DEF n
  <2>3. chunk \in Seq(STRING) /\ Len(chunk) = n /\ left \in Seq(STRING)
    BY <1>1, <2>2
  <2>4. eof' => rest' = <<>>
    <3>1. n = Len(rest) => left = <<>>
      <4>1. Len(rest) \in Int /\ Len(rest) + 1 \in Int /\ Len(rest) < Len(rest) + 1
        BY <1>1
      <4>2. SubSeq(rest, Len(rest) + 1, Len(rest)) = <<>>
        BY <4>1, SubSeqEmpty
      <4> QED BY <2>3, <4>2
    <3> QED BY <2>1, <2>2, <2>3, <3>1
  <2>5. ASSUME Nul \notin Range(input.stream.text)
        PROVE  fed' \in Seq(STRING) /\ fed' \o rest' = input.stream.text
    <3>1. fed \in Seq(STRING) /\ fed \o rest = input.stream.text
      BY <2>5 DEF StreamInv
    <3>2. Nul \notin ToSet(chunk)
      <4>1. SUFFICES ASSUME NEW i \in DOMAIN chunk, chunk[i] = Nul PROVE FALSE
        BY Zenon DEF ToSet
      <4>2. i \in 1..Len(rest) /\ chunk[i] = rest[i]
        BY <1>1, <2>2, <2>3
      <4>3. /\ Len(fed) + i \in DOMAIN input.stream.text
            /\ input.stream.text[Len(fed) + i] = rest[i]
        <5>1. Len(fed) + i \in DOMAIN (fed \o rest) /\ (fed \o rest)[Len(fed) + i] = rest[i]
          BY <1>1, <3>1, <4>2
        <5> QED BY <3>1, <5>1
      <4>4. Nul \in Range(input.stream.text)
        BY <4>1, <4>2, <4>3 DEF Range
      <4> QED BY <2>5, <4>4
    <3>3. CString(chunk) = chunk
      BY <3>2, Zenon DEF CString
    <3>4. fed \o chunk \in Seq(STRING) /\ (fed \o chunk) \o left = fed \o rest
      BY <1>1, <2>2, <2>3, <3>1, Parted, JoinedLength
    <3> QED BY <2>1, <3>1, <3>3, <3>4
  <2>6. eof' \in BOOLEAN
    BY <2>1
  <2>7. rest' \in Seq(STRING)
    BY <2>1, <2>3, Zenon
  <2>8. pc' \notin Parsed
    BY <2>1 DEF Parsed
  <2> QED BY <1>1, <2>4, <2>5, <2>6, <2>7, <2>8, Zenon DEF StreamInv
<1>3. CASE FinishParsing
  <2>1. eof /\ UNCHANGED stream /\ (pc' = "error" \/ fed = Json)
    BY <1>3 DEF FinishParsing
  <2> QED BY <1>1, <2>1 DEF StreamInv, stream, Parsed
<1>4. CASE Open
  <2>1. UNCHANGED stream /\ pc' \notin Parsed
    BY <1>4 DEF Open, Parsed
  <2> QED BY <1>1, <2>1 DEF StreamInv, stream
<1>5. CASE ReadFails \/ Done \/ UNCHANGED vars
  <2>1. UNCHANGED <<pc, stream>>
    BY <1>5 DEF ReadFails, Done, vars
  <2> QED BY <1>1, <2>1 DEF StreamInv, stream
<1>6. CASE Validate \/ HandleBlock \/ OverrunHash \/ HandleMessage \/ EndOfMessages
           \/ LoadRawBlock \/ LoadRawMessage \/ LoadRawAccount
           \/ HandleAccount \/ HandleStorage \/ KeepAccount \/ EndOfAccounts
  <2>1. UNCHANGED stream /\ pc \in Parsed
    BY <1>6 DEF Validate, HandleBlock, OverrunHash, HandleMessage, EndOfMessages, LoadRawBlock,
       LoadRawMessage, LoadRawAccount, HandleAccount, HandleStorage, KeepAccount,
       EndOfAccounts, Parsed
  <2> QED BY <1>1, <2>1 DEF StreamInv, stream
<1> QED BY <1>2, <1>3, <1>4, <1>5, <1>6 DEF Next

LEMMA WrapsInt == ASSUME NEW k \in Int, NEW M \in Nat PROVE k % (M + 1) \in 0..M
  OBVIOUS

LEMMA NarrowIsWide == Uint64 \subseteq Value
<1>1. WordMax \in Nat /\ WideMax \in Nat /\ WordMax <= WideMax
  BY InputsAre
<1> QED BY <1>1 DEF Uint64, Value

\* Where the names of a reply lead.
LEMMA Found ==
    ASSUME NEW name, NEW type, Payload(name, type) = "found"
    PROVE  LET v == doc.at.result.at[name]
           IN  type # "bytes" => Deserializable(v, type)
<1> QED BY DEF Payload

\* The texts of a slot of the storage that is read.
LEMMA SlotIsText ==
    ASSUME PlaceInv, StateInv, RawAccountInv, pc = "storage",
           NEW i \in 1..Len(Storage), IsSlot(Storage[i])
    PROVE  IsText(Storage[i].at.Key) /\ IsText(Storage[i].at.Val)
<1>1. input \in Inputs /\ input.kind \in {"state", "raw account"}
      /\ (input.kind = "state" => Valid)
  BY DEF PlaceInv, Files
<1>2. CASE input.kind = "state"
  <2>1. Storage = Entries[item].at.storage.items
    BY <1>2, Zenon DEF Storage
  <2>2. /\ \A j \in 1..Len(Entries) : IsEntry(Entries[j])
        /\ Len(Entries) \in Nat
    BY <1>1, <1>2, StateFile, Zenon DEF IsItems
  <2>3. item \in 1..Len(Entries)
    <3>1. item \in 1..(Len(Entries) + 1) /\ item <= Len(Entries)
      BY <1>1, <1>2, Zenon DEF StateInv
    <3> QED BY <2>2, <3>1
  <2>4. IsEntry(Entries[item])
    BY <2>2, <2>3, Zenon
  <2> QED BY <2>1, <2>4, Zenon DEF IsEntry
<1>3. CASE input.kind = "raw account"
  <2>1. Depth3(Storage[i])
    BY <1>3, Zenon DEF RawAccountInv
  <2> QED BY <2>1, SlotTexts, Zenon
<1> QED BY <1>1, <1>2, <1>3

(* Fields keep the width of their C++ types.                                   *)
LEMMA TypeStep ==
    ASSUME PlaceInv, TypeInv, BlockInv, StateInv, RawAccountInv, StorageInv, [Next]_vars
    PROVE  TypeInv'
<1>1. input \in Inputs /\ WordMax \in Nat /\ WideMax \in Nat
  BY InputsAre DEF PlaceInv
<1>2. CASE HandleBlock
  <2>1. input.kind = "block" /\ Valid
    BY <1>2 DEF HandleBlock, PlaceInv, Files, Kinds
  <2>2. /\ doc.at.number.is = "int64" => doc.at.number.num \in Int
        /\ IsText(doc.at.gasPrice)
        /\ doc.at.parentHash.form \in {"hex", "odd"}
        /\ doc.at.parentHash.form = "hex" => doc.at.parentHash.of \in Seq(Byte)
    BY <1>1, <2>1, BlockFile, Zenon
  <2>3. ParentHash(doc.at.parentHash) \in Hash
    <3>1. block.parent \in [1..HashSize -> Byte]
      BY DEF TypeInv, Block, Hash
    <3>2. CASE doc.at.parentHash.form = "odd"
      <4>1. ParentHash(doc.at.parentHash) = block.parent
        BY <3>2 DEF ParentHash, Unhexable
      <4> QED BY <3>1, <4>1 DEF Hash
    <3>3. CASE doc.at.parentHash.form = "hex"
      <4> DEFINE h == doc.at.parentHash.of
      <4>1. h \in Seq(Byte)
        BY <2>2, <3>3
      <4>2. ParentHash(doc.at.parentHash) =
                [i \in 1..HashSize |-> IF i <= Len(h) THEN h[i] ELSE block.parent[i]]
        BY <3>3 DEF ParentHash, Unhexable
      <4> HIDE DEF h
      <4>3. HashSize \in Nat /\ Len(h) \in Nat
        BY <4>1, InputsAre
      <4>4. \A i \in 1..HashSize :
               (IF i <= Len(h) THEN h[i] ELSE block.parent[i]) \in Byte
        BY <3>1, <4>1, <4>3
      <4> QED BY <4>2, <4>4 DEF Hash
    <3> QED BY <2>2, <3>2, <3>3
  <2>4. block' \in Block
    <3>1. CASE doc.at.number.is # "int64"
      BY <1>2, <3>1 DEF HandleBlock, TypeInv
    <3>2. CASE doc.at.number.is = "int64"
      <4> DEFINE id == doc.at.number.num % (WordMax + 1)
                 parent == ParentHash(doc.at.parentHash)
      <4>1. PICK price \in Stoull(doc.at.gasPrice) :
               block' = [block EXCEPT !.id = id, !.parent = parent,
                                      !.price = IF price = Throw THEN @ ELSE price]
        BY <1>2, <3>2 DEF HandleBlock
      <4>2. id \in Uint64
        <5>1. doc.at.number.num \in Int
          BY <2>2, <3>2
        <5> QED BY <1>1, <5>1, WrapsInt DEF Uint64
      <4>3. price = Throw \/ price \in Value
        BY <2>2, StoullGives, NarrowIsWide
      <4> HIDE DEF id, parent
      <4>4. block \in Block /\ parent \in Hash
        BY <2>3 DEF TypeInv, parent
      <4> QED BY <4>1, <4>2, <4>3, <4>4 DEF Block
    <3> QED BY <3>1, <3>2
  <2>5. UNCHANGED <<slot, messages, account, accounts>>
    BY <1>2 DEF HandleBlock
  <2> QED BY <2>4, <2>5 DEF TypeInv
<1>3. CASE HandleMessage
  <2> DEFINE m == Messages[item].at
  <2>1. input.kind = "block" /\ Valid /\ item <= Len(Messages)
    BY <1>3 DEF HandleMessage, PlaceInv, Files, Kinds
  <2>2. IsItems(Messages) /\ \A i \in 1..Len(Messages) : IsMessageText(Messages[i].at)
    BY <1>1, <2>1, BlockFile, Zenon
  <2>3. IsMessageText(m)
    <3>1. item \in 1..(Len(Messages) + 1) /\ Len(Messages) \in Nat
      BY <2>1, <2>2, Zenon DEF BlockInv, IsItems
    <3>2. item \in 1..Len(Messages)
      BY <2>1, <3>1
    <3> QED BY <2>2, <3>2
  <2>4. CASE UNCHANGED messages
    BY <1>3, <2>4 DEF HandleMessage, TypeInv
  <2>5. CASE messages' # messages
    <3>1. PICK credit \in Stoull(m.feeCredit), value \in FromString(m.value) :
             /\ Throw \notin {credit, value}
             /\ messages' = Append(messages, MessageOf(m, credit, value))
      BY <1>3, <2>5 DEF HandleMessage
    <3> HIDE DEF m
    <3>2. IsText(m.feeCredit) /\ IsText(m.value) /\ m.from.of \in Address /\ m.to.of \in Address
      BY <2>3, Zenon DEF IsMessageText
    <3>3. credit \in Value /\ value \in Value
      <4>1. credit \in Uint64 /\ value \in Value
        BY <3>1, <3>2, StoullGives, FromStringGives
      <4> QED BY <4>1, NarrowIsWide
    <3>4. IsMessage(MessageOf(m, credit, value))
      BY <3>2, <3>3 DEF IsMessage, MessageOf, FlagsOf
    <3> DEFINE e == MessageOf(m, credit, value)
    <3> HIDE DEF e
    <3>5. IsItems(messages) /\ \A i \in 1..Len(messages) : IsMessage(messages[i])
      BY DEF TypeInv
    <3>6. IsItems(messages') /\ \A i \in 1..Len(messages') : IsMessage(messages'[i])
      <4>1. /\ IsItems(messages') /\ Len(messages') = Len(messages) + 1
            /\ \A i \in 1..Len(messages) : messages'[i] = messages[i]
            /\ messages'[Len(messages) + 1] = e
        BY <3>1, <3>5, ItemsAppended, Zenon DEF e
      <4>2. ASSUME NEW i \in 1..Len(messages') PROVE i \in 1..Len(messages) \/ i = Len(messages) + 1
        BY <3>5, <4>1 DEF IsItems
      <4> QED BY <3>4, <3>5, <4>1, <4>2, Zenon DEF e
    <3>7. UNCHANGED <<slot, block, account, accounts>>
      BY <1>3 DEF HandleMessage
    <3> QED BY <3>6, <3>7 DEF TypeInv
  <2> QED BY <2>4, <2>5
<1>4. CASE LoadRawBlock
  <2>1. block' = block \/ block' \in Block
    <3>1. CASE Payload("content", "block") # "found"
      BY <1>4, <3>1 DEF LoadRawBlock
    <3>2. CASE Payload("content", "block") = "found"
      <4>1. Deserializable(doc.at.result.at["content"], "block")
        BY <3>2, Found
      <4> QED BY <1>4, <3>2, <4>1 DEF LoadRawBlock, Deserializable
    <3> QED BY <3>1, <3>2
  <2>2. UNCHANGED <<slot, messages, account, accounts>>
    BY <1>4 DEF LoadRawBlock
  <2> QED BY <2>1, <2>2 DEF TypeInv
<1>5. CASE LoadRawMessage
  <2> DEFINE v == RawMessages[item]
  <2>1. CASE UNCHANGED messages
    BY <1>5, <2>1 DEF LoadRawMessage, TypeInv
  <2>2. CASE messages' # messages
    <3>1. messages' = Append(messages, v.of) /\ IsMessage(v.of)
      BY <1>5, <2>2 DEF LoadRawMessage, RawMessages, Deserializable
    <3> DEFINE e == v.of
    <3> HIDE DEF e, v
    <3>2. IsItems(messages) /\ \A i \in 1..Len(messages) : IsMessage(messages[i])
      BY DEF TypeInv
    <3>3. IsItems(messages') /\ \A i \in 1..Len(messages') : IsMessage(messages'[i])
      <4>1. /\ IsItems(messages') /\ Len(messages') = Len(messages) + 1
            /\ \A i \in 1..Len(messages) : messages'[i] = messages[i]
            /\ messages'[Len(messages) + 1] = e
        BY <3>1, <3>2, ItemsAppended, Zenon DEF e
      <4>2. ASSUME NEW i \in 1..Len(messages') PROVE i \in 1..Len(messages) \/ i = Len(messages) + 1
        BY <3>2, <4>1 DEF IsItems
      <4> QED BY <3>1, <3>2, <4>1, <4>2, Zenon DEF e
    <3>4. UNCHANGED <<slot, block, account, accounts>>
      BY <1>5 DEF LoadRawMessage
    <3> QED BY <3>3, <3>4 DEF TypeInv
  <2> QED BY <2>1, <2>2
<1>6. CASE LoadRawAccount
  <2> DEFINE code == doc.at.result.at.code.of
             balance == doc.at.result.at.contract.of.balance
  <2>1. \/ account' = account
        \/ account' = [account EXCEPT !.code = code]
        \/ /\ Payload("contract", "contract") = "found"
           /\ account' = [account EXCEPT !.code = code, !.balance = balance]
    BY <1>6 DEF LoadRawAccount
  <2>2. Payload("contract", "contract") = "found" => balance \in Value
    <3>1. Payload("contract", "contract") = "found"
             => Deserializable(doc.at.result.at["contract"], "contract")
      BY Found
    <3> QED BY <3>1 DEF Deserializable, Contract
  <2> HIDE DEF code, balance
  <2>3. IsAccount(account)
    BY DEF TypeInv
  <2>4. IsAccount(account')
    BY <2>1, <2>2, <2>3 DEF IsAccount
  <2>5. UNCHANGED <<slot, block, messages, accounts>>
    BY <1>6 DEF LoadRawAccount
  <2> QED BY <2>4, <2>5 DEF TypeInv
<1>7. CASE HandleAccount
  <2> DEFINE code == Entries[item].at.code
             contract == Entries[item].at.contract
  <2>1. \/ account' = account
        \/ /\ contract.of \in Contract
           /\ account' = [code |-> code.of, balance |-> contract.of.balance, storage |-> <<>>]
    BY <1>7 DEF HandleAccount, Deserializable
  <2>2. contract.of \in Contract => contract.of.balance \in Value
    BY DEF Contract
  <2> HIDE DEF code, contract
  <2>3. IsAccount(account)
    BY DEF TypeInv
  <2>4. IsAccount(account')
    <3>1. DOMAIN <<>> = {} /\ Range(<<>>) = {}
      BY DEF Range
    <3> QED BY <2>1, <2>2, <2>3, <3>1 DEF IsAccount
  <2>5. UNCHANGED <<slot, block, messages, accounts>>
    BY <1>7 DEF HandleAccount
  <2> QED BY <2>4, <2>5 DEF TypeInv
<1>8. CASE HandleStorage
  <2> DEFINE v == Storage[slot]
  <2>1. UNCHANGED <<block, messages, accounts>> /\ pc = "storage" /\ slot <= Len(Storage)
    BY <1>8 DEF HandleStorage
  <2>2. CASE UNCHANGED <<account, slot>>
    BY <2>1, <2>2 DEF TypeInv
  <2>3. CASE ~ UNCHANGED <<account, slot>>
    <3>1. /\ IsSlot(v) /\ slot' = slot + 1
          /\ \E key \in FromString(v.at.Key), val \in FromString(v.at.Val) :
                /\ Throw \notin {key, val}
                /\ account' = [account EXCEPT !.storage = Emplace(@, key, val)]
      BY <1>8, <2>3 DEF HandleStorage, IsSlot, Has
    <3>2. PICK key \in FromString(v.at.Key), val \in FromString(v.at.Val) :
             /\ Throw \notin {key, val}
             /\ account' = [account EXCEPT !.storage = Emplace(@, key, val)]
      BY <3>1
    <3>3. slot \in 1..Len(Storage)
      <4>1. IsItems(Storage) /\ slot \in 1..(Len(Storage) + 1)
        BY <2>1, Zenon DEF StorageInv, StoredSoFar
      <4> QED BY <2>1, <4>1 DEF IsItems
    <3>4. IsText(v.at.Key) /\ IsText(v.at.Val)
      BY <2>1, <3>1, <3>3, SlotIsText, Zenon
    <3>5. key \in Value /\ val \in Value
      BY <3>2, <3>4, FromStringGives
    <3> HIDE DEF v
    <3> DEFINE s == Emplace(account.storage, key, val)
    <3>6. IsAccount(account)
      BY DEF TypeInv
    <3>7. DOMAIN s \subseteq Value /\ Range(s) \subseteq Value
      BY <3>5, <3>6 DEF Emplace, Range, IsAccount
    <3> HIDE DEF s
    <3>8. account' = [code |-> account.code, balance |-> account.balance, storage |-> s]
      BY <3>2, <3>6 DEF IsAccount, s
    <3>9. IsAccount(account')
      BY <3>6, <3>7, <3>8 DEF IsAccount
    <3>10. slot' \in Nat
      BY <3>1 DEF TypeInv
    <3> QED BY <2>1, <3>9, <3>10 DEF TypeInv
  <2> QED BY <2>2, <2>3
<1>9. CASE KeepAccount
  <2>1. /\ accounts' = Assign(accounts, AddressOf(Entries[item]), account)
        /\ account' = NoAccount /\ slot' = 1 /\ UNCHANGED <<block, messages>>
        /\ pc = "storage" /\ input.kind = "state"
    BY <1>9 DEF KeepAccount
  <2>2. AddressOf(Entries[item]) \in Address
    <3>1. Valid
      BY <2>1 DEF PlaceInv, Files
    <3>2. Entries[item].at.contract.of \in Contract
      BY <2>1, <3>1, Zenon DEF StateInv
    <3> QED BY <3>2 DEF AddressOf, Contract
  <2>3. IsAccount(NoAccount)
    <3>1. DOMAIN <<>> = {} /\ Range(<<>>) = {}
      BY DEF Range
    <3>2. 0 \in Value
      BY <1>1 DEF Value
    <3> QED BY <3>1, <3>2 DEF IsAccount, NoAccount
  <2>4. IsAccount(account) /\ DOMAIN accounts \subseteq Address
        /\ \A a \in DOMAIN accounts : IsAccount(accounts[a])
    BY DEF TypeInv
  <2>5. DOMAIN accounts' \subseteq Address /\ \A a \in DOMAIN accounts' : IsAccount(accounts'[a])
    <3> DEFINE k == AddressOf(Entries[item])
    <3> HIDE DEF k
    <3>1. accounts' = [a \in DOMAIN accounts \cup {k} |-> IF a = k THEN account ELSE accounts[a]]
      BY <2>1 DEF Assign, k
    <3>2. k \in Address
      BY <2>2 DEF k
    <3> QED BY <2>4, <3>1, <3>2
  <2> QED BY <2>1, <2>3, <2>5 DEF TypeInv
<1>10. CASE Open \/ Read \/ ReadFails \/ FinishParsing \/ Validate \/ OverrunHash \/ EndOfMessages
            \/ EndOfAccounts \/ Done \/ UNCHANGED vars
  <2>1. UNCHANGED <<slot, loaded>>
    BY <1>10 DEF Open, Read, ReadFails, FinishParsing, Validate, OverrunHash, EndOfMessages,
       EndOfAccounts, Done, vars, loaded
  <2> QED BY <2>1 DEF TypeInv, loaded
<1> QED BY <1>2, <1>3, <1>4, <1>5, <1>6, <1>7, <1>8, <1>9, <1>10 DEF Next

LEMMA FrontIsPrefix ==
    ASSUME NEW T, NEW a \in Seq(T), NEW b \in Seq(T) PROVE IsPrefix(a, a \o b)
<1> DEFINE c == a \o b
<1>1. /\ c \in Seq(T) /\ Len(c) = Len(a) + Len(b)
      /\ \A i \in 1..(Len(a) + Len(b)) : c[i] = IF i <= Len(a) THEN a[i] ELSE b[i - Len(a)]
  BY ConcatProperties
<1> HIDE DEF c
<1>2. Len(a) \in Nat /\ Len(b) \in Nat
  OBVIOUS
<1>3. \A i \in 1..Len(a) : i \in 1..(Len(a) + Len(b)) /\ i \in 1..Len(c) /\ c[i] = a[i]
  BY <1>1, <1>2
<1>4. Len(a) <= Len(c)
  BY <1>1, <1>2
<1>5. SubSeq(a, 1, Len(a)) = SubSeq(c, 1, Len(a))
  <2>1. a \in Seq(T) /\ Len(a) \in 0..Len(a)
    BY <1>2
  <2>2. /\ SubSeq(a, 1, Len(a)) \in Seq(T) /\ Len(SubSeq(a, 1, Len(a))) = Len(a)
        /\ \A i \in 1..Len(a) : SubSeq(a, 1, Len(a))[i] = a[i]
    BY <1>2
  <2>3. /\ SubSeq(c, 1, Len(a)) \in Seq(T) /\ Len(SubSeq(c, 1, Len(a))) = Len(a)
        /\ \A i \in 1..Len(a) : SubSeq(c, 1, Len(a))[i] = c[i]
    BY <1>1, <1>2, <1>4
  <2> QED BY <1>3, <2>2, <2>3, SeqEqual
<1> QED BY <1>4, <1>5 DEF IsPrefix, c

\* A file whose numbers and bytes fit.
LEMMA BlockInRange ==
    ASSUME input \in Inputs, input.kind = "block", Valid, InRange
    PROVE  /\ doc.at.number.is = "int64" /\ doc.at.number.num \in Uint64
           /\ doc.at.parentHash.form = "hex" /\ doc.at.parentHash.of \in Hash
           /\ Len(doc.at.parentHash.of) = HashSize
           /\ doc.at.gasPrice.num <= WordMax
           /\ \A i \in 1..Len(Messages) :
                 /\ Messages[i].at.feeCredit.num <= WordMax
                 /\ Messages[i].at.value.form # "other" /\ Fits(Messages[i].at.value)
                 /\ Messages[i].at.data.form # "odd"
<1>1. /\ DOMAIN Messages = 1..Len(Messages)
      /\ doc.at.number.is = "int64" => doc.at.number.num \in Int /\ doc.at.number.num <= WordMax
      /\ doc.at.parentHash.form = "hex" => doc.at.parentHash.of \in Seq(Byte)
  BY BlockFile, Zenon
<1>2. /\ doc.at.number.is = "int64" /\ doc.at.number.num >= 0
      /\ doc.at.parentHash.form = "hex" /\ Len(doc.at.parentHash.of) = HashSize
      /\ doc.at.gasPrice.num <= WordMax
      /\ \A m \in Range(Messages) :
            /\ m.at.feeCredit.num <= WordMax
            /\ m.at.value.form # "other" /\ Fits(m.at.value)
            /\ m.at.data.form # "odd"
  BY Zenon DEF InRange
<1>3. \A i \in 1..Len(Messages) : Messages[i] \in Range(Messages)
  BY <1>1, Zenon DEF Range
<1>4. doc.at.number.num \in Uint64
  <2> DEFINE n == doc.at.number.num
  <2>1. n \in Int /\ n <= WordMax /\ n >= 0 /\ WordMax \in Nat
    BY <1>1, <1>2, InputsAre
  <2> HIDE DEF n
  <2>2. n \in Uint64
    BY <2>1 DEF Uint64
  <2> QED BY <2>2 DEF n
<1>5. doc.at.parentHash.of \in Hash
  <2> DEFINE h == doc.at.parentHash.of
  <2>1. h \in Seq(Byte) /\ Len(h) = HashSize
    BY <1>1, <1>2
  <2> HIDE DEF h
  <2>2. h \in Hash
    BY <2>1 DEF Hash
  <2> QED BY <2>2 DEF h
<1> QED BY <1>2, <1>3, <1>4, <1>5, Zenon

LEMMA StateInRange ==
    ASSUME input \in Inputs, input.kind = "state", Valid, InRange
    PROVE  \A i \in 1..Len(Entries) :
              /\ Entries[i].at.code.form # "odd" /\ Entries[i].at.contract.form # "odd"
              /\ Deserializable(Entries[i].at.contract, "contract")
              /\ \A j \in 1..Len(Entries[i].at.storage.items) :
                    Fits(Entries[i].at.storage.items[j].at.Val)
<1>1. DOMAIN Entries = 1..Len(Entries) /\ \A i \in 1..Len(Entries) : IsEntry(Entries[i])
  BY StateFile, Zenon
<1>2. \A e \in Range(Entries) :
         /\ e.at.code.form # "odd" /\ e.at.contract.form # "odd"
         /\ Deserializable(e.at.contract, "contract")
         /\ \A v \in Range(e.at.storage.items) : Fits(v.at.Val)
  BY Zenon DEF InRange
<1>3. SUFFICES ASSUME NEW i \in 1..Len(Entries)
      PROVE  /\ Entries[i].at.code.form # "odd" /\ Entries[i].at.contract.form # "odd"
             /\ Deserializable(Entries[i].at.contract, "contract")
             /\ \A j \in 1..Len(Entries[i].at.storage.items) :
                   Fits(Entries[i].at.storage.items[j].at.Val)
  OBVIOUS
<1>4. Entries[i] \in Range(Entries) /\ IsEntry(Entries[i])
  BY <1>1, Zenon DEF Range
<1>5. \A j \in 1..Len(Entries[i].at.storage.items) :
         Entries[i].at.storage.items[j] \in Range(Entries[i].at.storage.items)
  BY <1>4, Zenon DEF IsEntry, Range
<1> QED BY <1>2, <1>4, <1>5, Zenon

\* The entry of the account that is read.
LEMMA EntryIs ==
    ASSUME input \in Inputs, input.kind = "state", Valid, StateInv, item <= Len(Entries)
    PROVE  item \in 1..Len(Entries) /\ IsEntry(Entries[item])
<1>1. /\ \A j \in 1..Len(Entries) : IsEntry(Entries[j])
      /\ Len(Entries) \in Nat
  BY StateFile, Zenon DEF IsItems
<1>2. item \in 1..(Len(Entries) + 1)
  BY Zenon DEF StateInv
<1>3. item \in 1..Len(Entries)
  BY <1>1, <1>2
<1> QED BY <1>1, <1>3, Zenon

\* The slot the loop is at.
LEMMA SlotIs ==
    ASSUME PlaceInv, StorageInv, pc = "storage", slot <= Len(Storage)
    PROVE  slot \in 1..Len(Storage)
<1>1. IsItems(Storage) /\ slot \in 1..(Len(Storage) + 1)
  BY Zenon DEF StorageInv, StoredSoFar
<1> QED BY <1>1 DEF IsItems

(* No handler stops at a file that is in order.                                *)
LEMMA ValidStep ==
    ASSUME PlaceInv, StreamInv, BlockInv, StateInv, StorageInv, ValidFilesLoad, [Next]_vars
    PROVE  ValidFilesLoad'
<1> SUFFICES ASSUME input.kind \in Files, input.stream.opens, input.stream.text = Json,
                    Valid, InRange
             PROVE  pc' \notin {"error", "crashed"}
  BY InputStays, Zenon DEF ValidFilesLoad, Files
<1>1. input \in Inputs /\ pc \notin {"error", "crashed"}
  BY DEF PlaceInv, ValidFilesLoad, Files
<1>2. CASE Open
  BY <1>2 DEF Open
<1>3. CASE Read
  <2>1. IsPrefix(fed', Json)
    <3>1. Nul \notin Range(Json)
      BY InputsAre, Zenon
    <3>2. StreamInv' /\ input' = input
      BY StreamStep, InputStays, Zenon
    <3>3. fed' \in Seq(STRING) /\ rest' \in Seq(STRING) /\ fed' \o rest' = Json
      BY <3>1, <3>2, Zenon DEF StreamInv
    <3>4. IsPrefix(fed', fed' \o rest')
      BY <3>3, FrontIsPrefix, Zenon
    <3> QED BY <3>3, <3>4, Zenon
  <2> QED BY <1>3, <2>1 DEF Read
<1>4. CASE FinishParsing
  <2>1. fed = Json
    <3>1. Nul \notin Range(Json)
      BY InputsAre, Zenon
    <3>2. fed \in Seq(STRING) /\ fed \o <<>> = Json
      BY <1>4, <3>1, Zenon DEF FinishParsing, StreamInv
    <3> QED BY <3>2, ConcatEmptySeq
  <2> QED BY <1>4, <2>1 DEF FinishParsing, Files
<1>5. CASE Validate
  BY <1>5 DEF Validate, Files
<1>6. CASE HandleBlock
  <2>1. input.kind = "block"
    BY <1>6 DEF HandleBlock, PlaceInv, Kinds
  <2>2. /\ doc.at.number.is = "int64" /\ doc.at.gasPrice.num <= WordMax
        /\ IsText(doc.at.gasPrice) /\ doc.at.gasPrice.form = "decimal"
    BY <1>1, <2>1, BlockInRange, BlockFile, Zenon
  <2>3. PICK price \in Stoull(doc.at.gasPrice) :
           pc' = IF price = Throw THEN "crashed" ELSE "messages"
    BY <1>6, <2>2, Zenon DEF HandleBlock
  <2>4. price # Throw
    BY <2>2, StoullGives, Zenon
  <2> QED BY <2>3, <2>4
<1>7. CASE OverrunHash
  <2>1. input.kind = "block"
    BY <1>7 DEF OverrunHash, PlaceInv, Kinds
  <2>2. Len(doc.at.parentHash.of) = HashSize /\ HashSize \in Nat
    BY <1>1, <2>1, BlockInRange, InputsAre, Zenon
  <2>3. ~ (Len(doc.at.parentHash.of) > HashSize)
    BY <2>2
  <2> QED BY <1>7, <2>3 DEF OverrunHash
<1>8. CASE HandleMessage
  <2> DEFINE m == Messages[item].at
  <2>1. input.kind = "block" /\ item <= Len(Messages)
    BY <1>8 DEF HandleMessage, PlaceInv
  <2>2. item \in 1..Len(Messages)
    <3>1. Len(Messages) \in Nat
      BY <1>1, <2>1, BlockFile, Zenon DEF IsItems
    <3>2. item \in 1..(Len(Messages) + 1)
      BY <2>1, Zenon DEF BlockInv
    <3> QED BY <2>1, <3>1, <3>2
  <2>3. IsMessageText(m) /\ m.feeCredit.num <= WordMax
        /\ m.value.form # "other" /\ Fits(m.value) /\ m.data.form # "odd"
    BY <1>1, <2>1, <2>2, BlockFile, BlockInRange, Zenon
  <2> HIDE DEF m
  <2>4. IsText(m.feeCredit) /\ m.feeCredit.form = "decimal" /\ IsText(m.value)
        /\ m.data.form \in {"hex", "odd", "HEX"}
    BY <2>3, Zenon DEF IsMessageText
  <2>5. Unhexable(m.data)
    BY <2>3, <2>4 DEF Unhexable
  <2>6. \A c \in Stoull(m.feeCredit), v \in FromString(m.value) : Throw \notin {c, v}
    BY <2>3, <2>4, StoullGives, FromStringGives, Zenon
  <2>7. UNCHANGED pc
    BY <1>8, <2>5, <2>6, Zenon DEF HandleMessage, m
  <2> QED BY <1>1, <2>7
<1>9. CASE EndOfMessages \/ EndOfAccounts \/ KeepAccount
  BY <1>9 DEF EndOfMessages, EndOfAccounts, KeepAccount
<1>10. CASE LoadRawBlock \/ LoadRawMessage \/ LoadRawAccount
  BY <1>10 DEF LoadRawBlock, LoadRawMessage, LoadRawAccount, PlaceInv, Kinds, Files
<1>11. CASE HandleAccount
  <2>1. input.kind = "state" /\ item <= Len(Entries)
    BY <1>11 DEF HandleAccount, PlaceInv, Kinds
  <2>2. item \in 1..Len(Entries) /\ IsEntry(Entries[item])
    BY <1>1, <2>1, EntryIs, Zenon
  <2>3. /\ Entries[item].at.code.form # "odd" /\ Entries[item].at.contract.form # "odd"
        /\ Deserializable(Entries[item].at.contract, "contract")
    BY <1>1, <2>1, <2>2, StateInRange, Zenon
  <2>4. Entries[item].at.code.form \in {"hex", "odd"}
        /\ Entries[item].at.contract.form \in {"hex", "odd", "HEX"}
    BY <2>2, Zenon DEF IsEntry
  <2>5. Unhexable(Entries[item].at.code) /\ Unhexable(Entries[item].at.contract)
    BY <2>3, <2>4 DEF Unhexable
  <2>6. pc' = "storage"
    BY <1>11, <2>3, <2>5, Zenon DEF HandleAccount
  <2> QED BY <2>6
<1>12. CASE HandleStorage
  <2> DEFINE v == Storage[slot]
  <2>1. pc = "storage" /\ slot <= Len(Storage)
    BY <1>12 DEF HandleStorage
  <2>2. input.kind = "state" /\ slot \in 1..Len(Storage)
    BY <2>1, SlotIs DEF PlaceInv, Files
  <2>3. Storage = Entries[item].at.storage.items
    BY <2>2, Zenon DEF Storage
  <2>4. item \in 1..Len(Entries) /\ IsEntry(Entries[item])
    BY <1>1, <2>1, <2>2, EntryIs, Zenon DEF StateInv
  <2>5. /\ IsSlot(v) /\ IsText(v.at.Key) /\ IsText(v.at.Val)
        /\ v.at.Key.form \in {"hex", "odd", "HEX"} /\ Fits(v.at.Key)
        /\ v.at.Val.form = "decimal"
    BY <2>2, <2>3, <2>4, Zenon DEF IsEntry
  <2>6. Fits(v.at.Val)
    BY <1>1, <2>2, <2>3, <2>4, StateInRange, Zenon
  <2> HIDE DEF v
  <2>7. v.at.Key.form # "other" /\ v.at.Val.form # "other"
    BY <2>5
  <2>8. \A key \in FromString(v.at.Key), val \in FromString(v.at.Val) : Throw \notin {key, val}
    BY <2>5, <2>6, <2>7, FromStringGives, Zenon
  <2>9. /\ v.is = "object" /\ Has(v, {"Key", "Val"})
        /\ "string" \in {v.at.Key.is} \cap {v.at.Val.is}
    BY <2>5 DEF IsSlot, Has
  <2>10. UNCHANGED pc
    BY <1>12, <2>8, <2>9, Zenon DEF HandleStorage, v
  <2> QED BY <1>1, <2>10
<1>13. CASE ReadFails \/ Done \/ UNCHANGED vars
  <2>1. UNCHANGED pc
    BY <1>13 DEF ReadFails, Done, vars
  <2> QED BY <1>1, <2>1
<1> QED BY <1>2, <1>3, <1>4, <1>5, <1>6, <1>7, <1>8, <1>9, <1>10, <1>11, <1>12, <1>13 DEF Next

LEMMA NothingDescribed ==
    /\ \A s : SubSeq(s, 1, 0) = <<>>
    /\ DescribedStorage(<<>>) = <<>> /\ DescribedAccounts(<<>>) = <<>>
    /\ DescribedMessages(<<>>) = <<>>
<1>1. \A s : SubSeq(s, 1, 0) = <<>>
  <2> SUFFICES ASSUME NEW s PROVE SubSeq(s, 1, 0) = <<>>
    OBVIOUS
  <2>1. 1 \in Int /\ 0 \in Int /\ 0 < 1
    OBVIOUS
  <2> QED BY <2>1, SubSeqEmpty
<1>2. DOMAIN <<>> = {}
  OBVIOUS
<1>3. DescribedStorage(<<>>) = <<>>
  BY <1>2 DEF DescribedStorage
<1>4. DescribedAccounts(<<>>) = <<>>
  BY <1>2 DEF DescribedAccounts
<1>5. DescribedMessages(<<>>) = <<>>
  BY <1>2 DEF DescribedMessages
<1> QED BY <1>1, <1>3, <1>4, <1>5

\* The last item of those up to one place, and what all of them fit.
LEMMA UpToOneMore ==
    ASSUME NEW n \in Nat \ {0}
    PROVE  1..(n - 1) \subseteq 1..n /\ n \in 1..n /\ \A i \in 1..n : i \in 1..(n - 1) \/ i = n
  OBVIOUS

LEMMA NoItems == Len(<<>>) = 0 /\ 1 - 1 = 0 /\ \A i \in 1..0 : FALSE
OBVIOUS

\* The places of a loop over items, which is past the last of them at its end.
LEMMA LoopGoesOn ==
    ASSUME NEW s, IsItems(s)
    PROVE  /\ 1 \in 1..(Len(s) + 1)
           /\ \A n \in 1..(Len(s) + 1) : n <= Len(s) =>
                 /\ n \in Nat \ {0} /\ n \in 1..Len(s) /\ n - 1 \in 0..Len(s)
                 /\ n + 1 \in 1..(Len(s) + 1) /\ (n + 1) - 1 = n /\ (n - 1) + 1 = n
<1> DEFINE l == Len(s)
<1>1. l \in Nat
  BY DEF IsItems
<1> HIDE DEF l
<1>2. /\ 1 \in 1..(l + 1)
      /\ \A n \in 1..(l + 1) : n <= l =>
            /\ n \in Nat \ {0} /\ n \in 1..l /\ n - 1 \in 0..l
            /\ n + 1 \in 1..(l + 1) /\ (n + 1) - 1 = n /\ (n - 1) + 1 = n
  BY <1>1
<1> QED BY <1>2 DEF l

LEMMA LoopBefore ==
    ASSUME NEW s, IsItems(s), NEW n \in 1..(Len(s) + 1) PROVE n - 1 \in 0..Len(s)
<1> DEFINE l == Len(s)
<1>1. l \in Nat /\ n \in 1..(l + 1)
  BY DEF IsItems
<1> HIDE DEF l
<1>2. n - 1 \in 0..l
  BY <1>1
<1> QED BY <1>2 DEF l

LEMMA LoopEnds ==
    ASSUME NEW s, IsItems(s), NEW n \in 1..(Len(s) + 1), n > Len(s) PROVE n - 1 = Len(s)
<1> DEFINE l == Len(s)
<1>1. l \in Nat /\ n \in 1..(l + 1) /\ n > l
  BY DEF IsItems
<1> HIDE DEF l
<1>2. n - 1 = l
  BY <1>1
<1> QED BY <1>2 DEF l

(* The messages and the block that are kept are those before the loop.         *)
LEMMA BlockStep == ASSUME PlaceInv, TypeInv, BlockInv, [Next]_vars PROVE BlockInv'
<1> SUFFICES ASSUME input.kind = "block", Valid
             PROVE  /\ item' \in 1..(Len(Messages) + 1)
                    /\ MessagesFit(item' - 1)
                          => messages' = DescribedMessages(SubSeq(Messages, 1, item' - 1))
                    /\ pc' \in {"messages", "loaded"} /\ InRange => BlockIsRead'
                    /\ pc' = "loaded" => item' > Len(Messages)
  BY InputStays, Zenon DEF BlockInv, MessagesFit
<1>1. input \in Inputs /\ pc \notin {"raw block", "raw messages", "raw account", "state", "storage"}
  BY DEF PlaceInv, Kinds
<1>2. /\ item \in 1..(Len(Messages) + 1)
      /\ MessagesFit(item - 1) => messages = DescribedMessages(SubSeq(Messages, 1, item - 1))
      /\ pc \in {"messages", "loaded"} /\ InRange => BlockIsRead
      /\ pc = "loaded" => item > Len(Messages)
  BY Zenon DEF BlockInv
<1>3. IsItems(Messages) /\ Len(Messages) \in Nat
      /\ \A i \in 1..Len(Messages) : IsMessageText(Messages[i].at)
  BY <1>1, BlockFile, Zenon DEF IsItems
<1>4. CASE HandleMessage
  <2> DEFINE m == Messages[item]
  <2>1. item <= Len(Messages) /\ pc = "messages" /\ UNCHANGED block /\ pc' # "loaded"
    BY <1>4 DEF HandleMessage, Fail, Crash
  <2>2. item \in 1..Len(Messages) /\ item \in Nat \ {0}
    BY <1>2, <1>3, <2>1
  <2>3. BlockIsRead' <=> BlockIsRead
    BY <2>1, InputStays, Zenon DEF BlockIsRead
  <2>4. CASE UNCHANGED <<messages, item>>
    BY <1>2, <2>1, <2>3, <2>4, Zenon
  <2>5. CASE ~ UNCHANGED <<messages, item>>
    <3>1. PICK credit \in Stoull(m.at.feeCredit), value \in FromString(m.at.value) :
             /\ Throw \notin {credit, value} /\ item' = item + 1
             /\ messages' = Append(messages, MessageOf(m.at, credit, value))
      BY <1>4, <2>5 DEF HandleMessage
    <3>2. item' \in 1..(Len(Messages) + 1) /\ item' - 1 = item
      BY <1>3, <2>2, <3>1
    <3>3. ASSUME MessagesFit(item)
          PROVE  messages' = DescribedMessages(SubSeq(Messages, 1, item))
      <4>1. MessagesFit(item - 1) /\ Fits(m.at.value)
        <5>1. 1..(item - 1) \subseteq 1..item /\ item \in 1..item
          BY <2>2, UpToOneMore, Zenon
        <5> QED BY <3>3, <5>1, Zenon DEF MessagesFit
      <4>2. IsText(m.at.feeCredit) /\ m.at.feeCredit.form = "decimal" /\ IsText(m.at.value)
        BY <1>3, <2>2, Zenon DEF IsMessageText
      <4>3. value = m.at.value.num
        BY <3>1, <4>1, <4>2, FromStringGives
      <4>4. credit = m.at.feeCredit.num
        BY <3>1, <4>2, StoullGives
      <4>5. IsItems(SubSeq(Messages, 1, item - 1))
        <5>1. item - 1 \in 0..Len(Messages)
          BY <1>3, <2>2
        <5> QED BY <1>3, <5>1, ItemsBefore, Zenon
      <4>6. SubSeq(Messages, 1, item) = Append(SubSeq(Messages, 1, item - 1), m)
        BY <1>3, <2>2, OneMore, Zenon
      <4>7. messages = DescribedMessages(SubSeq(Messages, 1, item - 1))
        BY <1>2, <4>1
      <4> HIDE DEF m
      <4> QED BY <3>1, <4>3, <4>4, <4>5, <4>6, <4>7, MessagesGrow, Zenon
    <3> QED BY <1>2, <2>1, <2>3, <3>2, <3>3, Zenon
  <2> QED BY <2>4, <2>5
<1>5. CASE HandleBlock
  <2>1. pc = "block" /\ UNCHANGED <<messages, item>> /\ pc' \in {"crashed", "messages"}
    BY <1>5 DEF HandleBlock, Crash
  <2>2. ASSUME pc' = "messages", InRange PROVE BlockIsRead'
    <3>1. /\ doc.at.number.is = "int64" /\ doc.at.number.num \in Uint64
          /\ doc.at.parentHash.form = "hex" /\ doc.at.parentHash.of \in Hash
          /\ Len(doc.at.parentHash.of) = HashSize
          /\ doc.at.gasPrice.num <= WordMax
          /\ IsText(doc.at.gasPrice) /\ doc.at.gasPrice.form = "decimal"
      BY <1>1, <2>2, BlockInRange, BlockFile, Zenon
    <3> DEFINE id == doc.at.number.num
               parent == ParentHash(doc.at.parentHash)
               h == doc.at.parentHash.of
    <3>2. PICK price \in Stoull(doc.at.gasPrice) :
             /\ block' = [block EXCEPT !.id = id % (WordMax + 1), !.parent = parent,
                                       !.price = IF price = Throw THEN @ ELSE price]
             /\ price # Throw
      BY <1>5, <2>2, <3>1 DEF HandleBlock
    <3>3. price = doc.at.gasPrice.num
      BY <3>1, StoullGives, Zenon
    <3>4. id % (WordMax + 1) = id
      <4>1. id \in Uint64 /\ WordMax \in Nat
        BY <3>1, InputsAre
      <4> HIDE DEF id
      <4> QED BY <4>1 DEF Uint64
    <3>5. parent = h
      <4>1. h \in [1..HashSize -> Byte] /\ Len(h) = HashSize /\ HashSize \in Nat
        BY <3>1, InputsAre DEF Hash
      <4>2. parent = [i \in 1..HashSize |-> IF i <= Len(h) THEN h[i] ELSE block.parent[i]]
        BY <3>1 DEF ParentHash, Unhexable
      <4> HIDE DEF h
      <4>3. parent = [i \in 1..HashSize |-> h[i]]
        BY <4>1, <4>2
      <4> QED BY <4>1, <4>3
    <3>6. block \in Block
      BY DEF TypeInv
    <3>7. /\ block'.id = id % (WordMax + 1) /\ block'.parent = parent /\ block'.price = price
      <4> HIDE DEF id, parent
      <4> QED BY <3>2, <3>6 DEF Block
    <3> QED BY <3>3, <3>4, <3>5, <3>7, InputStays DEF BlockIsRead
  <2> QED BY <1>2, <2>1, <2>2
<1>6. CASE EndOfMessages
  <2>1. /\ pc = "messages" /\ item > Len(Messages) /\ UNCHANGED <<block, messages, item>>
    BY <1>1, <1>6 DEF EndOfMessages, loaded
  <2>2. BlockIsRead' <=> BlockIsRead
    BY <2>1, InputStays, Zenon DEF BlockIsRead
  <2> QED BY <1>2, <2>1, <2>2, Zenon
<1>7. CASE Open \/ Read \/ FinishParsing \/ Validate \/ OverrunHash
  <2>1. UNCHANGED <<block, messages, item>> /\ pc' \notin {"messages", "loaded"}
    BY <1>7 DEF Open, Read, FinishParsing, Validate, OverrunHash, Crash, loaded
  <2> QED BY <1>2, <2>1
<1>8. CASE ReadFails \/ Done \/ UNCHANGED vars
  <2>1. UNCHANGED <<pc, block, messages, item>>
    BY <1>8 DEF ReadFails, Done, vars, loaded
  <2>2. BlockIsRead' <=> BlockIsRead
    BY <2>1, InputStays, Zenon DEF BlockIsRead
  <2> QED BY <1>2, <2>1, <2>2, Zenon
<1>9. CASE LoadRawBlock \/ LoadRawMessage \/ LoadRawAccount \/ HandleAccount \/ HandleStorage
           \/ KeepAccount \/ EndOfAccounts
  BY <1>1, <1>9 DEF LoadRawBlock, LoadRawMessage, LoadRawAccount, HandleAccount, HandleStorage,
     KeepAccount, EndOfAccounts
<1> QED BY <1>4, <1>5, <1>6, <1>7, <1>8, <1>9 DEF Next

\* A part of a reply that is an array, and what is in it.
LEMMA SectionItems ==
    ASSUME input \in Inputs, NEW name, Section(name) = "found",
           doc.at.result.at[name].is = "array"
    PROVE  /\ IsItems(doc.at.result.at[name].items)
           /\ \A i \in 1..Len(doc.at.result.at[name].items) :
                 Depth3(doc.at.result.at[name].items[i])
<1> DEFINE v == doc.at.result.at[name]
<1>1. Document(doc)
  BY InputsAre, Zenon DEF doc
<1>2. /\ doc.is = "object" /\ "result" \in DOMAIN doc.at
      /\ doc.at.result.is = "object" /\ name \in DOMAIN doc.at.result.at
  BY DEF Section
<1>3. Depth4(v)
  BY <1>1, <1>2, Zenon DEF Document, Depth5, Node
<1>4. IsItems(v.items) /\ DOMAIN v.items = 1..Len(v.items)
  BY <1>3, ArrayHasItems, Zenon
<1>5. \A i \in DOMAIN v.items : Depth3(v.items[i])
  BY <1>3, Zenon DEF Depth4, Node
<1> QED BY <1>4, <1>5

(* The messages that are kept are those of the reply before the loop.          *)
LEMMA RawBlockStep == ASSUME PlaceInv, TypeInv, RawBlockInv, [Next]_vars PROVE RawBlockInv'
<1> DEFINE Before == pc \in {"open", "read", "raw block"} => item = 1 /\ messages = <<>>
           After == pc \in {"raw messages", "loaded"} =>
                       /\ IsItems(RawMessages) /\ item \in 1..(Len(RawMessages) + 1)
                       /\ block = doc.at.result.at.content.of
                       /\ Len(messages) = item - 1
                       /\ \A i \in 1..(item - 1) : messages[i] = RawMessages[i].of
           End == pc = "loaded" => item > Len(RawMessages)
<1>1. RawMessages' = RawMessages /\ input' = input /\ doc' = doc
  BY InputStays
<1> SUFFICES ASSUME input.kind = "raw block" PROVE Before' /\ After' /\ End'
  BY <1>1 DEF RawBlockInv
<1>2. Before /\ After /\ End
  BY Zenon DEF RawBlockInv
<1>3. /\ input \in Inputs
      /\ pc \notin {"validate", "block", "state", "raw account", "messages", "storage"}
  BY DEF PlaceInv, Kinds, Files
<1>4. CASE LoadRawBlock
  <2>1. /\ pc = "raw block" /\ UNCHANGED <<item, messages>>
        /\ pc' \in {"error", "crashed", "raw messages"}
    BY <1>4 DEF LoadRawBlock, Payload, Section
  <2>2. item = 1 /\ messages = <<>>
    BY <1>2, <2>1
  <2>3. ASSUME pc' = "raw messages"
        PROVE  IsItems(RawMessages) /\ block' = doc.at.result.at.content.of
    <3>1. /\ Section("inMessages") = "found" /\ doc.at.result.at.inMessages.is = "array"
          /\ block' = doc.at.result.at.content.of
      BY <1>4, <2>3 DEF LoadRawBlock, Payload, Section
    <3>2. IsItems(doc.at.result.at["inMessages"].items)
      BY <1>3, <3>1, SectionItems
    <3> QED BY <3>1, <3>2 DEF RawMessages
  <2>4. IsItems(RawMessages) => 1 \in 1..(Len(RawMessages) + 1)
    BY LoopGoesOn, Zenon
  <2>5. Len(messages) = 0 /\ 1 - 1 = 0 /\ \A i \in 1..0 : FALSE
    BY <2>2, NoItems, Zenon
  <2>6. pc' \notin {"open", "read", "raw block", "loaded"}
    BY <2>1
  <2>7. After'
    BY <1>1, <2>1, <2>2, <2>3, <2>4, <2>5, <2>6
  <2> QED BY <2>6, <2>7
<1>5. CASE LoadRawMessage
  <2> DEFINE v == RawMessages[item]
  <2>1. /\ pc = "raw messages" /\ item <= Len(RawMessages) /\ UNCHANGED block
        /\ \/ UNCHANGED <<item, messages>> /\ pc' \in {"error", "crashed"}
           \/ messages' = Append(messages, v.of) /\ item' = item + 1 /\ UNCHANGED pc
    BY <1>5 DEF LoadRawMessage, RawMessages, Fail, Crash
  <2>2. /\ IsItems(RawMessages) /\ item \in 1..(Len(RawMessages) + 1)
        /\ block = doc.at.result.at.content.of
        /\ Len(messages) = item - 1
        /\ \A i \in 1..(item - 1) : messages[i] = RawMessages[i].of
    BY <1>2, <2>1
  <2>3. item \in Nat \ {0} /\ item + 1 \in 1..(Len(RawMessages) + 1) /\ (item + 1) - 1 = item
        /\ (item - 1) + 1 = item
    BY <2>1, <2>2, LoopGoesOn, Zenon
  <2>4. CASE pc' \in {"error", "crashed"}
    BY <2>4
  <2>5. CASE messages' = Append(messages, v.of) /\ item' = item + 1 /\ UNCHANGED pc
    <3>1. IsItems(messages)
      BY DEF TypeInv
    <3> HIDE DEF v
    <3>2. /\ Len(messages') = item
          /\ \A i \in 1..(item - 1) : messages'[i] = messages[i]
          /\ messages'[item] = v.of
      <4>1. /\ Len(messages') = Len(messages) + 1
            /\ \A i \in 1..Len(messages) : messages'[i] = messages[i]
            /\ messages'[Len(messages) + 1] = v.of
        BY <2>5, <3>1, ItemsAppended, Zenon
      <4>2. Len(messages) + 1 = item
        BY <2>2, <2>3, Zenon
      <4> QED BY <2>2, <4>1, <4>2, Zenon
    <3>3. ASSUME NEW i \in 1..item PROVE messages'[i] = RawMessages[i].of
      BY <2>2, <2>3, <3>2, UpToOneMore, Zenon DEF v
    <3>4. After'
      BY <1>1, <2>1, <2>2, <2>3, <2>5, <3>2, <3>3, Zenon
    <3> QED BY <2>1, <2>5, <3>4
  <2> QED BY <2>1, <2>4, <2>5
<1>6. CASE EndOfMessages
  <2>1. /\ pc = "raw messages" /\ item > Len(RawMessages) /\ pc' = "loaded"
        /\ UNCHANGED <<block, messages, item>>
    BY <1>3, <1>6 DEF EndOfMessages, RawMessages, loaded
  <2>2. pc' \notin {"open", "read", "raw block"}
    BY <2>1
  <2>3. After' /\ End'
    BY <1>1, <1>2, <2>1
  <2> QED BY <2>2, <2>3
<1>7. CASE Open \/ Read \/ FinishParsing
  <2>1. /\ UNCHANGED <<block, messages, item>> /\ pc \in {"open", "read"}
        /\ pc' \notin {"raw messages", "loaded"}
    BY <1>7 DEF Open, Read, FinishParsing, loaded
  <2> QED BY <1>2, <2>1
<1>8. CASE ReadFails \/ Done \/ UNCHANGED vars
  <2>1. UNCHANGED <<pc, block, messages, item>>
    BY <1>8 DEF ReadFails, Done, vars, loaded
  <2> QED BY <1>1, <1>2, <2>1
<1>9. CASE \/ Validate \/ HandleBlock \/ OverrunHash \/ HandleMessage \/ LoadRawAccount
           \/ HandleAccount \/ HandleStorage \/ KeepAccount \/ EndOfAccounts
  BY <1>3, <1>9 DEF Validate, HandleBlock, OverrunHash, HandleMessage, LoadRawAccount,
     HandleAccount, HandleStorage, KeepAccount, EndOfAccounts
<1> QED BY <1>4, <1>5, <1>6, <1>7, <1>8, <1>9 DEF Next

LEMMA StorageStays ==
    ASSUME [Next]_vars, input.kind # "state" \/ UNCHANGED item
    PROVE  Storage' = Storage
<1>1. input' = input /\ doc' = doc /\ Entries' = Entries
  BY InputStays
<1> QED BY <1>1, Zenon DEF Storage

(* The storage that is kept is that of the slots before the loop.              *)
LEMMA StoredStep ==
    ASSUME PlaceInv, TypeInv, StateInv, RawAccountInv, StorageInv, [Next]_vars, pc' = "storage"
    PROVE  StoredSoFar'
<1>1. input' = input /\ doc' = doc /\ Entries' = Entries /\ input \in Inputs
  BY InputStays DEF PlaceInv
<1>2. ASSUME Storage' = Storage, IsItems(Storage), slot' = 1, account'.storage = <<>>
      PROVE  StoredSoFar'
  <2>1. slot' \in 1..(Len(Storage) + 1) /\ slot' - 1 = 0
    BY <1>2 DEF IsItems
  <2>2. DescribedStorage(SubSeq(Storage, 1, 0)) = <<>>
    BY NothingDescribed, Zenon
  <2> QED BY <1>2, <2>1, <2>2, Zenon DEF StoredSoFar
<1>3. CASE LoadRawAccount
  <2>1. /\ pc = "raw account" /\ UNCHANGED <<slot, item>>
        /\ Section("storage") = "found" /\ doc.at.result.at.storage.is = "array"
        /\ account' = [account EXCEPT !.code = doc.at.result.at.code.of,
                                      !.balance = doc.at.result.at.contract.of.balance]
    BY <1>3 DEF LoadRawAccount, Payload, Section
  <2>2. input.kind = "raw account"
    BY <2>1 DEF PlaceInv, Kinds
  <2>3. slot = 1 /\ account = NoAccount
    BY <2>1, <2>2 DEF RawAccountInv
  <2>4. IsItems(doc.at.result.at["storage"].items)
    BY <1>1, <2>1, SectionItems
  <2>5. IsItems(Storage) /\ Storage' = Storage
    BY <2>2, <2>4, StorageStays DEF Storage
  <2>6. account'.storage = <<>>
    BY <2>1, <2>3 DEF NoAccount
  <2> QED BY <1>2, <2>1, <2>3, <2>5, <2>6
<1>4. CASE HandleAccount
  <2>1. /\ pc = "state" /\ item <= Len(Entries) /\ UNCHANGED <<slot, item>>
        /\ account'.storage = <<>>
    BY <1>4 DEF HandleAccount, Fail, Crash
  <2>2. input.kind = "state" /\ Valid
    BY <2>1 DEF PlaceInv, Kinds, Files
  <2>3. slot = 1
    BY <2>1, <2>2, Zenon DEF StateInv
  <2>4. IsEntry(Entries[item])
    BY <1>1, <2>1, <2>2, EntryIs, Zenon
  <2>5. IsItems(Storage) /\ Storage' = Storage
    BY <2>1, <2>2, <2>4, StorageStays, Zenon DEF Storage, IsEntry
  <2> QED BY <1>2, <2>1, <2>3, <2>5
<1>5. CASE HandleStorage
  <2> DEFINE v == Storage[slot]
  <2>1. /\ pc = "storage" /\ slot <= Len(Storage) /\ UNCHANGED item
        /\ IsSlot(v) /\ slot' = slot + 1
        /\ \E key \in FromString(v.at.Key), val \in FromString(v.at.Val) :
              /\ Throw \notin {key, val}
              /\ account' = [account EXCEPT !.storage = Emplace(@, key, val)]
    BY <1>5 DEF HandleStorage, Fail, Crash, IsSlot, Has
  <2>2. PICK key \in FromString(v.at.Key), val \in FromString(v.at.Val) :
           /\ Throw \notin {key, val}
           /\ account' = [account EXCEPT !.storage = Emplace(@, key, val)]
    BY <2>1
  <2>3. slot \in 1..Len(Storage)
    BY <2>1, SlotIs, Zenon
  <2>4. IsText(v.at.Key) /\ IsText(v.at.Val)
    BY <2>1, <2>3, SlotIsText, Zenon
  <2>5. IsItems(Storage)
        /\ (SlotsFit(slot - 1) => account.storage = DescribedStorage(SubSeq(Storage, 1, slot - 1)))
    BY <2>1, Zenon DEF StorageInv, StoredSoFar
  <2>6. Storage' = Storage
    BY <2>1, StorageStays
  <2>7. /\ slot \in Nat \ {0} /\ slot' \in 1..(Len(Storage) + 1) /\ slot' - 1 = slot
        /\ slot - 1 \in 0..Len(Storage)
    BY <2>1, <2>3, <2>5 DEF IsItems
  <2>8. account'.storage = Emplace(account.storage, key, val)
    <3> DEFINE s == Emplace(account.storage, key, val)
    <3> HIDE DEF s
    <3>1. account' = [account EXCEPT !.storage = s]
      BY <2>2 DEF s
    <3>2. IsAccount(account)
      BY DEF TypeInv
    <3>3. account'.storage = s
      BY <3>1, <3>2 DEF IsAccount
    <3> QED BY <3>3 DEF s
  <2>9. ASSUME SlotsFit(slot)
        PROVE  account'.storage = DescribedStorage(SubSeq(Storage, 1, slot))
    <3>1. SlotsFit(slot - 1) /\ Fits(v.at.Key) /\ Fits(v.at.Val)
      <4>1. 1..(slot - 1) \subseteq 1..slot /\ slot \in 1..slot
        BY <2>7, UpToOneMore, Zenon
      <4> QED BY <2>9, <4>1, Zenon DEF SlotsFit
    <3>2. key = KeyOf(v) /\ val = ValOf(v)
      BY <2>2, <2>4, <3>1, FromStringGives DEF KeyOf, ValOf
    <3>3. SubSeq(Storage, 1, slot) = Append(SubSeq(Storage, 1, slot - 1), v)
      BY <2>3, <2>5, OneMore, Zenon
    <3>4. IsItems(SubSeq(Storage, 1, slot - 1))
      BY <2>5, <2>7, ItemsBefore, Zenon
    <3> HIDE DEF v
    <3> QED BY <2>5, <2>8, <3>1, <3>2, <3>3, <3>4, StorageGrows, Zenon
  <2> HIDE DEF v
  <2> QED BY <2>5, <2>6, <2>7, <2>9, Zenon DEF StoredSoFar, SlotsFit
<1>6. CASE UNCHANGED vars
  <2>1. UNCHANGED <<pc, item, slot, account>>
    BY <1>6 DEF vars, loaded
  <2>2. Storage' = Storage /\ StoredSoFar
    BY <2>1, StorageStays DEF StorageInv
  <2> QED BY <2>1, <2>2, Zenon DEF StoredSoFar, SlotsFit
<1>7. CASE \/ Open \/ Read \/ FinishParsing \/ Validate
           \/ HandleBlock \/ OverrunHash \/ HandleMessage \/ EndOfMessages
           \/ LoadRawBlock \/ LoadRawMessage \/ KeepAccount \/ EndOfAccounts
           \/ Done \/ ReadFails
  <2>1. input.kind \in Kinds
    BY <1>1, InputsAre
  <2> QED BY <1>7, <2>1 DEF Open, Read, FinishParsing, Validate, HandleBlock, OverrunHash,
     HandleMessage,
     EndOfMessages, LoadRawBlock, LoadRawMessage, KeepAccount, EndOfAccounts, Done, ReadFails,
     Payload, Section, Fail, Crash, Ended, Kinds, vars
<1> QED BY <1>3, <1>4, <1>5, <1>6, <1>7 DEF Next

LEMMA StorageStep ==
    ASSUME PlaceInv, TypeInv, StateInv, RawAccountInv, StorageInv, [Next]_vars
    PROVE  StorageInv'
BY StoredStep, Zenon DEF StorageInv

(* What is kept of a reply about an account.                                   *)
LEMMA RawAccountStep ==
    ASSUME PlaceInv, TypeInv, StateInv, RawAccountInv, StorageInv, [Next]_vars
    PROVE  RawAccountInv'
<1> DEFINE Before == pc \in {"open", "read", "raw account"} => slot = 1 /\ account = NoAccount
           After == /\ \A i \in 1..Len(Storage) : Depth3(Storage[i])
                    /\ account.code = doc.at.result.at.code.of
                    /\ account.balance = doc.at.result.at.contract.of.balance
           Goal == /\ Before
                   /\ pc \in {"storage", "loaded"} => StoredSoFar /\ After
                   /\ pc = "loaded" => slot > Len(Storage)
<1>1. input' = input /\ doc' = doc
  BY InputStays
<1> SUFFICES ASSUME input.kind = "raw account" PROVE Goal'
  BY <1>1, Zenon DEF RawAccountInv
<1>2. Goal
  BY Zenon DEF RawAccountInv
<1>3. /\ input \in Inputs /\ Storage' = Storage
      /\ pc \notin {"validate", "block", "state", "raw block", "messages", "raw messages"}
  BY StorageStays DEF PlaceInv, Kinds, Files
<1>4. pc' = "storage" => StoredSoFar'
  BY StoredStep, Zenon
<1>5. CASE LoadRawAccount
  <2>1. pc = "raw account" /\ UNCHANGED slot /\ pc' \in {"error", "crashed", "storage"}
    BY <1>5 DEF LoadRawAccount, Payload, Section
  <2>2. account = NoAccount
    BY <1>2, <2>1, Zenon
  <2>3. ASSUME pc' = "storage" PROVE After'
    <3>1. /\ Section("storage") = "found" /\ doc.at.result.at.storage.is = "array"
          /\ account' = [account EXCEPT !.code = doc.at.result.at.code.of,
                                        !.balance = doc.at.result.at.contract.of.balance]
      BY <1>5, <2>3 DEF LoadRawAccount, Payload, Section
    <3>2. \A i \in 1..Len(Storage) : Depth3(Storage[i])
      <4>1. Storage = doc.at.result.at["storage"].items
        BY DEF Storage
      <4>2. \A i \in 1..Len(doc.at.result.at["storage"].items) :
               Depth3(doc.at.result.at["storage"].items[i])
        BY <1>3, <3>1, SectionItems
      <4> QED BY <4>1, <4>2, Zenon
    <3>3. /\ account'.code = doc.at.result.at.code.of
          /\ account'.balance = doc.at.result.at.contract.of.balance
      BY <2>2, <3>1 DEF NoAccount
    <3> QED BY <1>1, <1>3, <3>2, <3>3, Zenon
  <2>4. /\ pc' \notin {"open", "read", "raw account", "loaded"}
        /\ pc' \in {"storage", "loaded"} => pc' = "storage"
    BY <2>1
  <2> HIDE DEF After
  <2> QED BY <1>4, <2>3, <2>4, Zenon
<1>6. CASE HandleStorage
  <2>1. pc = "storage" /\ pc' \in {"error", "crashed", "storage"}
        /\ (account' = account \/ \E s : account' = [account EXCEPT !.storage = s])
    BY <1>6 DEF HandleStorage, Fail, Crash
  <2>2. After
    BY <1>2, <2>1
  <2>3. account'.code = account.code /\ account'.balance = account.balance
    <3>1. IsAccount(account)
      BY DEF TypeInv
    <3> QED BY <2>1, <3>1 DEF IsAccount
  <2>4. After'
    BY <1>1, <1>3, <2>2, <2>3, Zenon
  <2>5. /\ pc' \notin {"open", "read", "raw account", "loaded"}
        /\ pc' \in {"storage", "loaded"} => pc' = "storage"
    BY <2>1
  <2> HIDE DEF After
  <2> QED BY <1>4, <2>4, <2>5, Zenon
<1>7. CASE EndOfAccounts
  <2>1. /\ pc = "storage" /\ slot > Len(Storage) /\ pc' = "loaded" /\ UNCHANGED <<account, slot>>
    BY <1>3, <1>7 DEF EndOfAccounts, loaded
  <2>2. StoredSoFar /\ After
    BY <1>2, <2>1
  <2>3. StoredSoFar'
    BY <1>3, <2>1, <2>2, Zenon DEF StoredSoFar, SlotsFit
  <2>4. After'
    BY <1>1, <1>3, <2>1, <2>2, Zenon
  <2>5. pc' \notin {"open", "read", "raw account"} /\ slot' > Len(Storage')
    BY <1>3, <2>1
  <2> HIDE DEF After
  <2> QED BY <2>3, <2>4, <2>5, Zenon
<1>8. CASE Open \/ Read \/ FinishParsing
  <2>1. /\ UNCHANGED <<account, slot>> /\ pc \in {"open", "read"}
        /\ pc' \notin {"storage", "loaded"}
    BY <1>8 DEF Open, Read, FinishParsing, loaded
  <2>2. slot' = 1 /\ account' = NoAccount
    BY <1>2, <2>1
  <2>3. ~ (pc' \in {"storage", "loaded"}) /\ pc' # "loaded"
    BY <2>1
  <2> HIDE DEF After
  <2> QED BY <2>2, <2>3, Zenon DEF NoAccount
<1>9. CASE ReadFails \/ Done \/ UNCHANGED vars
  <2>1. UNCHANGED <<pc, account, slot>>
    BY <1>9 DEF ReadFails, Done, vars, loaded
  <2>2. StoredSoFar' <=> StoredSoFar
    BY <1>3, <2>1, Zenon DEF StoredSoFar, SlotsFit
  <2>3. After' <=> After
    BY <1>1, <1>3, <2>1, Zenon
  <2>4. Before' <=> Before
    BY <2>1 DEF NoAccount
  <2> HIDE DEF After, Before
  <2> QED BY <1>2, <1>3, <2>1, <2>2, <2>3, <2>4, Zenon
<1>10. CASE \/ Validate \/ HandleBlock \/ OverrunHash \/ HandleMessage \/ EndOfMessages
            \/ LoadRawBlock \/ LoadRawMessage \/ HandleAccount \/ KeepAccount
  BY <1>3, <1>10 DEF Validate, HandleBlock, OverrunHash, HandleMessage, EndOfMessages,
     LoadRawBlock, LoadRawMessage, HandleAccount, KeepAccount
<1> QED BY <1>5, <1>6, <1>7, <1>8, <1>9, <1>10 DEF Next

(* The accounts that are kept are those of the entries before the loop.        *)
LEMMA StateStep == ASSUME PlaceInv, TypeInv, StateInv, StorageInv, [Next]_vars PROVE StateInv'
<1> DEFINE Kept == /\ item \in 1..(Len(Entries) + 1)
                   /\ EntriesFit(item - 1)
                         => accounts = DescribedAccounts(SubSeq(Entries, 1, item - 1))
           Fresh == pc \in {"open", "read", "validate", "state"} => slot = 1
           Half == /\ item <= Len(Entries)
                   /\ Entries[item].at.contract.of \in Contract
                   /\ account.code = Entries[item].at.code.of
                   /\ account.balance = Entries[item].at.contract.of.balance
           Goal == /\ Kept /\ Fresh /\ (pc = "storage" => Half)
                   /\ pc = "loaded" => item > Len(Entries)
<1>1. input' = input /\ doc' = doc /\ Valid' = Valid /\ Entries' = Entries
  BY InputStays
<1> SUFFICES ASSUME input.kind = "state", Valid PROVE Goal'
  BY <1>1, Zenon DEF StateInv
<1>2. Goal
  BY Zenon DEF StateInv
<1>3. /\ input \in Inputs
      /\ pc \notin {"block", "raw block", "raw account", "messages", "raw messages"}
  BY DEF PlaceInv, Kinds, Files
<1>4. IsItems(Entries) /\ \A i \in 1..Len(Entries) : IsEntry(Entries[i])
  BY <1>3, StateFile, Zenon
<1>5. ASSUME UNCHANGED <<item, accounts>> PROVE Kept'
  BY <1>1, <1>2, <1>5, Zenon DEF EntriesFit
<1>6. CASE HandleAccount
  <2>1. /\ pc = "state" /\ item <= Len(Entries) /\ UNCHANGED <<item, accounts>>
        /\ \/ pc' \in {"error", "crashed"}
           \/ /\ pc' = "storage" /\ Entries[item].at.contract.of \in Contract
              /\ account' = [code |-> Entries[item].at.code.of,
                             balance |-> Entries[item].at.contract.of.balance, storage |-> <<>>]
    BY <1>6 DEF HandleAccount, Fail, Crash, Deserializable
  <2>2. pc' = "storage" => Half'
    BY <1>1, <2>1
  <2>3. pc' \notin {"open", "read", "validate", "state", "loaded"}
    BY <2>1
  <2> HIDE DEF Kept, Half
  <2> QED BY <1>5, <2>1, <2>2, <2>3
<1>7. CASE HandleStorage
  <2>1. /\ pc = "storage" /\ pc' \in {"error", "crashed", "storage"} /\ UNCHANGED <<item, accounts>>
        /\ (account' = account \/ \E s : account' = [account EXCEPT !.storage = s])
    BY <1>7 DEF HandleStorage, Fail, Crash
  <2>2. account'.code = account.code /\ account'.balance = account.balance
    <3>1. IsAccount(account)
      BY DEF TypeInv
    <3> QED BY <2>1, <3>1 DEF IsAccount
  <2>3. Half'
    BY <1>1, <1>2, <2>1, <2>2, Zenon
  <2>4. pc' \notin {"open", "read", "validate", "state", "loaded"}
    BY <2>1
  <2> HIDE DEF Kept, Half
  <2> QED BY <1>5, <2>1, <2>3, <2>4
<1>8. CASE KeepAccount
  <2> DEFINE e == Entries[item]
  <2>1. /\ pc = "storage" /\ slot > Len(Storage) /\ item' = item + 1 /\ slot' = 1 /\ pc' = "state"
        /\ accounts' = Assign(accounts, AddressOf(e), account)
    BY <1>8 DEF KeepAccount
  <2>2. Half
    BY <1>2, <2>1
  <2>3. /\ item \in Nat \ {0} /\ item \in 1..Len(Entries) /\ item - 1 \in 0..Len(Entries)
        /\ item' \in 1..(Len(Entries) + 1) /\ item' - 1 = item
    BY <1>2, <1>4, <2>1, <2>2, LoopGoesOn, Zenon
  <2>4. IsEntry(e)
    BY <1>4, <2>3, Zenon
  <2>5. Storage = e.at.storage.items
    BY Zenon DEF Storage
  <2>6. /\ IsItems(Storage) /\ SubSeq(Storage, 1, slot - 1) = Storage /\ slot - 1 = Len(Storage)
        /\ SlotsFit(slot - 1) => account.storage = DescribedStorage(SubSeq(Storage, 1, slot - 1))
    <3>1. /\ IsItems(Storage) /\ slot \in 1..(Len(Storage) + 1)
          /\ SlotsFit(slot - 1) => account.storage = DescribedStorage(SubSeq(Storage, 1, slot - 1))
      BY <2>1, Zenon DEF StorageInv, StoredSoFar
    <3>2. slot - 1 = Len(Storage)
      BY <2>1, <3>1, LoopEnds
    <3>3. SubSeq(Storage, 1, Len(Storage)) = Storage
      BY <3>1, ItemsAreSeq, SubSeqFull
    <3> QED BY <3>1, <3>2, <3>3, Zenon
  <2>7. ASSUME EntriesFit(item)
        PROVE  accounts' = DescribedAccounts(SubSeq(Entries, 1, item))
    <3>1. EntriesFit(item - 1) /\ \A v \in Range(Storage) : Fits(v.at.Val)
      <4>1. 1..(item - 1) \subseteq 1..item /\ item \in 1..item
        BY <2>3, UpToOneMore, Zenon
      <4> QED BY <2>5, <2>7, <4>1, Zenon DEF EntriesFit
    <3>2. SlotsFit(slot - 1)
      <4>1. DOMAIN Storage = 1..Len(Storage)
            /\ \A i \in 1..Len(Storage) : Fits(Storage[i].at.Key)
        BY <2>4, <2>5, Zenon DEF IsEntry
      <4>2. \A i \in 1..Len(Storage) : Storage[i] \in Range(Storage)
        BY <4>1, Zenon DEF Range
      <4> QED BY <2>6, <3>1, <4>1, <4>2, Zenon DEF SlotsFit
    <3>3. account.storage = DescribedStorage(e.at.storage.items)
      BY <2>5, <2>6, <3>2, Zenon
    <3>4. account = DescribedAccount(e)
      <4>1. account = [code |-> account.code, balance |-> account.balance,
                       storage |-> account.storage]
        BY Zenon DEF TypeInv, IsAccount
      <4> QED BY <2>2, <3>3, <4>1, Zenon DEF DescribedAccount
    <3>5. accounts = DescribedAccounts(SubSeq(Entries, 1, item - 1))
      BY <1>2, <3>1
    <3>6. SubSeq(Entries, 1, item) = Append(SubSeq(Entries, 1, item - 1), e)
      BY <1>4, <2>3, OneMore, Zenon
    <3>7. IsItems(SubSeq(Entries, 1, item - 1))
      BY <1>4, <2>3, ItemsBefore, Zenon
    <3> HIDE DEF e
    <3> QED BY <2>1, <3>4, <3>5, <3>6, <3>7, AccountsGrow, Zenon
  <2>8. Kept'
    BY <1>1, <2>3, <2>7, Zenon DEF EntriesFit
  <2> HIDE DEF Kept, Half
  <2> QED BY <2>1, <2>8
<1>9. CASE EndOfAccounts
  <2>1. pc = "state" /\ item > Len(Entries) /\ pc' = "loaded" /\ UNCHANGED <<item, accounts>>
    BY <1>9 DEF EndOfAccounts, loaded
  <2> HIDE DEF Kept, Half
  <2> QED BY <1>1, <1>5, <2>1
<1>10. CASE Open \/ Read \/ FinishParsing \/ Validate
  <2>1. /\ UNCHANGED <<item, accounts, slot>> /\ pc \in {"open", "read", "validate"}
        /\ pc' \notin {"storage", "loaded"}
    BY <1>10 DEF Open, Read, FinishParsing, Validate, loaded
  <2>2. slot' = 1
    BY <1>2, <2>1
  <2> HIDE DEF Kept, Half
  <2> QED BY <1>5, <2>1, <2>2
<1>11. CASE ReadFails \/ Done \/ UNCHANGED vars
  <2>1. UNCHANGED <<pc, item, account, accounts, slot>>
    BY <1>11 DEF ReadFails, Done, vars, loaded
  <2>2. Half' <=> Half
    BY <1>1, <2>1, Zenon
  <2> HIDE DEF Kept, Half
  <2> QED BY <1>1, <1>2, <1>5, <2>1, <2>2
<1>12. CASE \/ HandleBlock \/ OverrunHash \/ HandleMessage \/ EndOfMessages
            \/ LoadRawBlock \/ LoadRawMessage \/ LoadRawAccount
  BY <1>3, <1>12 DEF HandleBlock, OverrunHash, HandleMessage, EndOfMessages,
     LoadRawBlock, LoadRawMessage, LoadRawAccount
<1> QED BY <1>6, <1>7, <1>8, <1>9, <1>10, <1>11, <1>12 DEF Next

--------------------------------------------------------------------------------

LEMMA InitInv == Init => IInv
<1> SUFFICES ASSUME Init PROVE IInv
  OBVIOUS
<1>1. /\ input \in Inputs /\ pc = "open" /\ rest = input.stream.text /\ eof = FALSE /\ fed = <<>>
      /\ item = 1 /\ slot = 1 /\ block \in {b \in Block : b.price = 0}
      /\ messages = <<>> /\ account = NoAccount /\ accounts = <<>>
  BY Zenon DEF Init
<1>2. input.kind \in Kinds /\ input.stream.text \in Seq(STRING)
  BY <1>1, InputsAre, Zenon
<1>3. pc = "open" => pc \notin Parsed
  BY DEF Parsed
<1>4. PlaceInv
  BY <1>1, <1>3 DEF PlaceInv, Kinds
<1>5. StreamInv
  <2>1. fed \o rest = input.stream.text /\ fed \in Seq(STRING)
    <3>1. <<>> \o input.stream.text = input.stream.text
      BY <1>2, ConcatEmptySeq
    <3> QED BY <1>1, <3>1
  <2>2. eof \in BOOLEAN /\ ~ eof /\ rest \in Seq(STRING)
    BY <1>1, <1>2
  <2> QED BY <1>1, <1>3, <2>1, <2>2, Zenon DEF StreamInv
<1>6. TypeInv
  <2>1. IsItems(messages) /\ \A i \in 1..Len(messages) : IsMessage(messages[i])
    <3>1. <<>> \in Seq({})
      OBVIOUS
    <3>2. IsItems(<<>>)
      BY <3>1, SeqIsItems
    <3>3. \A i \in 1..Len(<<>>) : FALSE
      BY NoItems
    <3> QED BY <1>1, <3>2, <3>3, Zenon
  <2>2. IsAccount(account)
    <3>1. DOMAIN <<>> = {} /\ Range(<<>>) = {}
      BY DEF Range
    <3>2. 0 \in Value
      BY InputsAre DEF Value
    <3> QED BY <1>1, <3>1, <3>2 DEF IsAccount, NoAccount
  <2>3. DOMAIN accounts \subseteq Address /\ \A a \in DOMAIN accounts : IsAccount(accounts[a])
    <3>1. DOMAIN <<>> = {}
      OBVIOUS
    <3> QED BY <1>1, <3>1, Zenon
  <2> QED BY <1>1, <2>1, <2>2, <2>3 DEF TypeInv
<1>7. ValidFilesLoad
  BY <1>1 DEF ValidFilesLoad
<1>8. BlockInv
  <2> SUFFICES ASSUME input.kind = "block", Valid PROVE BlockInv
    BY DEF BlockInv
  <2>1. IsItems(Messages)
    BY <1>1, BlockFile, Zenon
  <2>2. item \in 1..(Len(Messages) + 1) /\ item - 1 = 0
    BY <1>1, <2>1, LoopGoesOn, NoItems, Zenon
  <2>3. messages = DescribedMessages(SubSeq(Messages, 1, 0))
    BY <1>1, NothingDescribed, Zenon
  <2>4. pc \notin {"messages", "loaded"}
    BY <1>1
  <2> QED BY <2>2, <2>3, <2>4 DEF BlockInv
<1>9. RawBlockInv
  BY <1>1 DEF RawBlockInv
<1>10. StateInv
  <2> SUFFICES ASSUME input.kind = "state", Valid PROVE StateInv
    BY DEF StateInv
  <2>1. IsItems(Entries)
    BY <1>1, StateFile, Zenon
  <2>2. item \in 1..(Len(Entries) + 1) /\ item - 1 = 0
    BY <1>1, <2>1, LoopGoesOn, NoItems, Zenon
  <2>3. accounts = DescribedAccounts(SubSeq(Entries, 1, 0))
    BY <1>1, NothingDescribed, Zenon
  <2>4. pc \notin {"storage", "loaded"}
    BY <1>1
  <2> QED BY <1>1, <2>2, <2>3, <2>4 DEF StateInv
<1>11. RawAccountInv /\ StorageInv
  BY <1>1 DEF RawAccountInv, StorageInv
<1> QED BY <1>4, <1>5, <1>6, <1>7, <1>8, <1>9, <1>10, <1>11 DEF IInv

LEMMA Inductive == IInv /\ [Next]_vars => IInv'
BY PlaceStep, StreamStep, TypeStep, ValidStep, BlockStep, RawBlockStep, StateStep,
   RawAccountStep, StorageStep, Zenon DEF IInv

LEMMA TypesFollow == IInv => TypeOK
<1> SUFFICES ASSUME IInv PROVE TypeOK
  OBVIOUS
<1>1. PlaceInv /\ StreamInv /\ TypeInv /\ BlockInv /\ StateInv /\ StorageInv
  BY Zenon DEF IInv
<1>2. pc \in Ended \cup Kinds \cup {"open", "read", "validate", "messages", "raw messages",
                                    "storage"}
  BY <1>1 DEF PlaceInv, Parsed, Ended, Kinds
<1>3. \A m \in Range(messages) : IsMessage(m)
  <2>1. DOMAIN messages = 1..Len(messages)
    BY <1>1, ItemsAreSeq DEF TypeInv
  <2> QED BY <1>1, <2>1, Zenon DEF TypeInv, Range
<1>4. \A a : IsAccount(a) => AccountType(a)
  <2> SUFFICES ASSUME NEW a, IsAccount(a) PROVE AccountType(a)
    OBVIOUS
  <2>1. DOMAIN [code |-> a.code, balance |-> a.balance, storage |-> a.storage]
           = {"code", "balance", "storage"}
    OBVIOUS
  <2> QED BY <2>1, Zenon DEF IsAccount, AccountType
<1>5. AccountType(account) /\ \A a \in DOMAIN accounts : AccountType(accounts[a])
  BY <1>1, <1>4, Zenon DEF TypeInv
<1>6. pc = "messages" => item \in 1..(Len(Messages) + 1)
  <2>1. pc = "messages" => input.kind = "block" /\ Valid
    BY <1>1 DEF PlaceInv, Files
  <2> QED BY <1>1, <2>1, Zenon DEF BlockInv
<1>7. pc = "state" => item \in 1..(Len(Entries) + 1)
  <2>1. pc = "state" => input.kind = "state" /\ Valid
    BY <1>1 DEF PlaceInv, Files, Kinds
  <2> QED BY <1>1, <2>1, Zenon DEF StateInv
<1>8. pc = "storage" => slot \in 1..(Len(Storage) + 1)
  BY <1>1, Zenon DEF StorageInv, StoredSoFar
<1>9. eof \in BOOLEAN /\ slot \in Nat /\ block \in Block /\ DOMAIN accounts \subseteq Address
  BY <1>1, Zenon DEF StreamInv, TypeInv
<1> QED BY <1>2, <1>3, <1>5, <1>6, <1>7, <1>8, <1>9, Zenon DEF TypeOK

LEMMA ParsedIs ==
    "loaded" \in Parsed /\ "loaded" \in {"raw messages", "loaded"} \cap {"storage", "loaded"}
BY DEF Parsed

LEMMA DescribedFollows == IInv => LoadedIsDescribed
<1> SUFFICES ASSUME IInv PROVE LoadedIsDescribed
  OBVIOUS
<1>1. /\ PlaceInv /\ StreamInv /\ TypeInv /\ BlockInv /\ RawBlockInv /\ StateInv /\ RawAccountInv
      /\ input \in Inputs
  BY Zenon DEF IInv, PlaceInv
<1>2. ASSUME input.kind = "block", Valid
      PROVE  LET before == SubSeq(Messages, 1, item - 1)
             IN  /\ (\A m \in Range(before) : Fits(m.at.value))
                       => messages = DescribedMessages(before)
                 /\ pc \in {"messages", "loaded"} /\ InRange => BlockIsRead
                 /\ pc = "loaded" => item > Len(Messages)
  <2> DEFINE before == SubSeq(Messages, 1, item - 1)
  <2>1. /\ item \in 1..(Len(Messages) + 1)
        /\ MessagesFit(item - 1) => messages = DescribedMessages(before)
        /\ pc \in {"messages", "loaded"} /\ InRange => BlockIsRead
        /\ pc = "loaded" => item > Len(Messages)
    BY <1>1, <1>2, Zenon DEF BlockInv
  <2>2. IsItems(Messages)
    BY <1>1, <1>2, BlockFile, Zenon
  <2>3. DOMAIN before = 1..(item - 1) /\ \A i \in 1..(item - 1) : before[i] = Messages[i]
    <3>1. item - 1 \in 0..Len(Messages)
      BY <2>1, <2>2, LoopBefore, Zenon
    <3> QED BY <2>2, <3>1, ItemsBefore, Zenon
  <2> HIDE DEF before
  <2>4. (\A m \in Range(before) : Fits(m.at.value)) => MessagesFit(item - 1)
    BY <2>3, Zenon DEF Range, MessagesFit
  <2> QED BY <2>1, <2>4, Zenon DEF before
<1>3. ASSUME input.kind = "state", Valid
      PROVE  LET before == SubSeq(Entries, 1, item - 1)
             IN  /\ (\A e \in Range(before) : \A v \in Range(e.at.storage.items) : Fits(v.at.Val))
                       => accounts = DescribedAccounts(before)
                 /\ pc = "loaded" => item > Len(Entries)
  <2> DEFINE before == SubSeq(Entries, 1, item - 1)
  <2>1. /\ item \in 1..(Len(Entries) + 1)
        /\ EntriesFit(item - 1) => accounts = DescribedAccounts(before)
        /\ pc = "loaded" => item > Len(Entries)
    BY <1>1, <1>3, Zenon DEF StateInv
  <2>2. IsItems(Entries)
    BY <1>1, <1>3, StateFile, Zenon
  <2>3. DOMAIN before = 1..(item - 1) /\ \A i \in 1..(item - 1) : before[i] = Entries[i]
    <3>1. item - 1 \in 0..Len(Entries)
      BY <2>1, <2>2, LoopBefore, Zenon
    <3> QED BY <2>2, <3>1, ItemsBefore, Zenon
  <2> HIDE DEF before
  <2>4. (\A e \in Range(before) : \A v \in Range(e.at.storage.items) : Fits(v.at.Val))
           => EntriesFit(item - 1)
    <3>1. \A i \in 1..(item - 1) : Entries[i] \in Range(before)
      BY <2>3, Zenon DEF Range
    <3> QED BY <3>1, Zenon DEF EntriesFit
  <2> QED BY <2>1, <2>4, Zenon DEF before
<1>4. ASSUME input.kind = "raw block", pc = "loaded"
      PROVE  /\ block = doc.at.result.at.content.of
             /\ messages = [i \in DOMAIN RawMessages |-> RawMessages[i].of]
  <2>1. /\ IsItems(RawMessages) /\ item \in 1..(Len(RawMessages) + 1) /\ item > Len(RawMessages)
        /\ block = doc.at.result.at.content.of
        /\ Len(messages) = item - 1
        /\ \A i \in 1..(item - 1) : messages[i] = RawMessages[i].of
    BY <1>1, <1>4, ParsedIs DEF RawBlockInv
  <2>2. item - 1 = Len(RawMessages) /\ DOMAIN RawMessages = 1..Len(RawMessages)
    BY <2>1, LoopEnds, ItemsAreSeq
  <2>3. messages = [i \in 1..Len(RawMessages) |-> messages[i]]
    BY <1>1, <2>1, <2>2, Zenon DEF TypeInv, IsItems
  <2> DEFINE n == Len(RawMessages)
             R(i) == RawMessages[i].of
  <2>4. \A i \in 1..n : messages[i] = R(i)
    BY <2>1, <2>2, Zenon
  <2>5. messages = [i \in 1..n |-> R(i)]
    <3>1. messages = [i \in 1..n |-> messages[i]]
      BY <2>3
    <3> HIDE DEF n, R
    <3> QED BY <2>4, <3>1
  <2> QED BY <2>1, <2>2, <2>5, Zenon
<1>5. ASSUME input.kind = "raw account", pc = "loaded"
      PROVE  /\ account.code = doc.at.result.at.code.of
             /\ account.balance = doc.at.result.at.contract.of.balance
             /\ (\A v \in Range(Storage) : Fits(v.at.Key) /\ Fits(v.at.Val))
                   => account.storage = DescribedStorage(Storage)
  <2>1. /\ IsItems(Storage) /\ slot \in 1..(Len(Storage) + 1) /\ slot > Len(Storage)
        /\ SlotsFit(slot - 1) => account.storage = DescribedStorage(SubSeq(Storage, 1, slot - 1))
        /\ account.code = doc.at.result.at.code.of
        /\ account.balance = doc.at.result.at.contract.of.balance
    BY <1>1, <1>5, ParsedIs DEF RawAccountInv, StoredSoFar
  <2>2. slot - 1 = Len(Storage) /\ DOMAIN Storage = 1..Len(Storage)
    BY <2>1, LoopEnds, ItemsAreSeq
  <2>3. SubSeq(Storage, 1, Len(Storage)) = Storage
    BY <2>1, ItemsAreSeq, SubSeqFull
  <2>4. (\A v \in Range(Storage) : Fits(v.at.Key) /\ Fits(v.at.Val)) => SlotsFit(slot - 1)
    <3>1. \A i \in 1..Len(Storage) : Storage[i] \in Range(Storage)
      BY <2>2, Zenon DEF Range
    <3> QED BY <2>2, <3>1, Zenon DEF SlotsFit
  <2> QED BY <2>1, <2>2, <2>3, <2>4, Zenon
<1>6. ASSUME pc = "loaded", Nul \notin Range(input.stream.text)
      PROVE  input.stream.text = Json
  <2>1. fed \in Seq(STRING) /\ fed \o <<>> = input.stream.text /\ fed = Json
    BY <1>1, <1>6, ParsedIs, Zenon DEF StreamInv
  <2> QED BY <2>1, ConcatEmptySeq
<1> QED BY <1>2, <1>3, <1>4, <1>5, <1>6, Zenon DEF LoadedIsDescribed, BlockIsRead, RawMessages

LEMMA SpecInv == Spec => []IInv
BY InitInv, Inductive, PTL DEF Spec

(* Whatever documents there are and whatever the widths of the numbers, what
   HandleBlock, HandleMessage, LoadRawBlock, LoadRawMessage, LoadRawAccount,
   HandleAccount, HandleStorage and KeepAccount leave is of the types of the
   C++ objects, and no loop goes beyond its array. *)
THEOREM Types == Spec => []TypeOK
BY SpecInv, TypesFollow, PTL

(* A file that its schema accepts and whose numbers and bytes fit is not refused
   and stops no handler, wherever the chunks of the stream begin. *)
THEOREM ValidFilesAreLoaded == Spec => []ValidFilesLoad
<1>1. IInv => ValidFilesLoad
  BY Zenon DEF IInv
<1> QED BY <1>1, SpecInv, PTL

(* At every moment the loaded messages, accounts and storages are those that
   the part of the document before the loop describes: none is lost, none is
   made up, the last account of an address and the first value of a key stay. *)
THEOREM WhatIsDescribedIsLoaded == Spec => []LoadedIsDescribed
BY SpecInv, DescribedFollows, PTL
======
