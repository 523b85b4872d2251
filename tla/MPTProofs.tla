------------------------------- MODULE MPTProofs -------------------------------
(* Theorems about the trie for every set of nibbles, keys and values and every *)
(* hash.  Its references never dangle.  If the hash has no collisions, what    *)
(* has been stored stays; and if no value is empty, every call does to the     *)
(* entries below root_ what its caller was promised.                           *)
EXTENDS MPTContents, Recursion, TLAPS, SequenceTheorems, FiniteSetTheorems

--------------------------------------------------------------------------------
(* Paths.                                                                      *)

\* The numbers up to n are n numbers.
LEMMA UpToFinite ==
    ASSUME NEW n \in Nat
    PROVE  IsFiniteSet(1..n) /\ Cardinality(1..n) = n
<1>1. 1 \in Int /\ n \in Int
    OBVIOUS
<1>2. IsFiniteSet(1..n) /\ Cardinality(1..n) = IF 1 > n THEN 0 ELSE n - 1 + 1
    BY <1>1, FS_Interval, Zenon
<1> QED BY <1>2

\* Consuming part of a path leaves a path.
LEMMA ConsumeType ==
    ASSUME NEW p \in Seq(Nibble), NEW n \in Nat
    PROVE  Consume(p, n) \in Seq(Nibble)
<1>1. \A i \in n + 1 .. Len(p) : p[i] \in Nibble
    BY ElementOfSeq
<1>2. Len(p) \in Int /\ n + 1 \in Int
    BY LenProperties
<1> QED BY <1>1, <1>2, SubSeqProperties DEF Consume

\* The common length counts nibbles of both paths, and not all of the second one
\* unless the first starts with it.
LEMMA CommonLengthBound ==
    ASSUME NEW p \in Seq(Nibble), NEW q \in Seq(Nibble)
    PROVE  /\ CommonLength(p, q) \in 0..Len(p)
           /\ CommonLength(p, q) \in 0..Len(q)
           /\ ~StartsWith(p, q) => CommonLength(p, q) < Len(q)
<1> DEFINE C == {i \in 1..Len(p) : IsPrefix(SubSeq(p, 1, i), q)}
<1>1. Len(p) \in Nat /\ Len(q) \in Nat
    BY LenProperties
<1>2. ASSUME NEW i \in 1..Len(p) PROVE Len(SubSeq(p, 1, i)) = i
    <2>1. \A j \in 1..i : p[j] \in Nibble
        BY <1>1, ElementOfSeq
    <2> QED BY <1>1, <2>1, SubSeqProperties
<1>3. C \subseteq 1..Len(p) /\ C \subseteq 1..Len(q)
    BY <1>1, <1>2 DEF IsPrefix
<1>4. IsFiniteSet(1..Len(p)) /\ Cardinality(1..Len(p)) = Len(p)
    BY <1>1, UpToFinite
<1>5. IsFiniteSet(1..Len(q)) /\ Cardinality(1..Len(q)) = Len(q)
    BY <1>1, UpToFinite
<1>6. IsFiniteSet(C) /\ Cardinality(C) <= Len(p)
    BY <1>3, <1>4, FS_Subset
<1>7. Cardinality(C) <= Len(q) /\ (Cardinality(C) = Len(q) => C = 1..Len(q))
    BY <1>3, <1>5, FS_Subset
<1>8. Cardinality(C) \in Nat
    BY <1>6, FS_CardinalityType
<1>9. ASSUME Cardinality(C) = Len(q) PROVE StartsWith(p, q)
    <2>1. C = 1..Len(q)
        BY <1>7, <1>9
    <2>2. CASE q = <<>>
        <3>1. Len(q) = 0 /\ SubSeq(q, 1, 0) = SubSeq(p, 1, 0)
            BY <2>2, EmptySeq, SubSeqEmpty
        <3> QED BY <1>1, <3>1 DEF StartsWith, IsPrefix
    <2>3. CASE q # <<>>
        <3>1. Len(q) \in C /\ Len(q) \in 1..Len(p)
            BY <1>1, <1>3, <2>1, <2>3, EmptySeq
        <3>2. Len(SubSeq(p, 1, Len(q))) = Len(q)
            BY <1>2, <3>1
        <3>3. SubSeq(SubSeq(p, 1, Len(q)), 1, Len(q)) = SubSeq(q, 1, Len(q))
            BY <3>1, <3>2 DEF IsPrefix
        <3>4. SubSeq(p, 1, Len(q)) \in Seq(Nibble)
            <4>1. \A j \in 1..Len(q) : p[j] \in Nibble
                BY <1>1, <3>1, ElementOfSeq
            <4> QED BY <1>1, <4>1, SubSeqProperties
        <3>5. SubSeq(p, 1, Len(q)) = SubSeq(q, 1, Len(q))
            BY <3>2, <3>3, <3>4, SubSeqFull
        <3> QED BY <3>1, <3>5 DEF StartsWith, IsPrefix
    <2> QED BY <2>2, <2>3
<1>10. CommonLength(p, q) = Cardinality(C)
    BY DEF CommonLength
<1> HIDE DEF C
<1> QED BY <1>1, <1>6, <1>7, <1>8, <1>9, <1>10

\* The common prefix is a path of CommonLength nibbles.
LEMMA CommonPrefixType ==
    ASSUME NEW p \in Seq(Nibble), NEW q \in Seq(Nibble)
    PROVE  /\ CommonPrefix(p, q) \in Seq(Nibble)
           /\ Len(CommonPrefix(p, q)) = CommonLength(p, q)
<1>1. CommonLength(p, q) \in 0..Len(p) /\ Len(p) \in Nat
    BY CommonLengthBound, LenProperties
<1>2. \A i \in 1..CommonLength(p, q) : p[i] \in Nibble
    BY <1>1, ElementOfSeq
<1> QED BY <1>1, <1>2, SubSeqProperties DEF CommonPrefix

\* Where two paths part, something is left of the second one.
LEMMA RestNotEmpty ==
    ASSUME NEW p \in Seq(Nibble), NEW q \in Seq(Nibble), ~StartsWith(p, q)
    PROVE  Consume(q, Len(CommonPrefix(p, q))) # <<>>
<1>1. CommonLength(p, q) \in Nat /\ CommonLength(p, q) < Len(q) /\ Len(q) \in Nat
    BY CommonLengthBound, LenProperties
<1>2. \A i \in CommonLength(p, q) + 1 .. Len(q) : q[i] \in Nibble
    BY <1>1, ElementOfSeq
<1>3. Len(Consume(q, CommonLength(p, q))) # 0
    BY <1>1, <1>2, SubSeqProperties DEF Consume
<1> QED BY <1>3, CommonPrefixType, EmptySeq

--------------------------------------------------------------------------------
(* Nodes, references and the storage.                                          *)

\* A node of any kind, recognised by its kind.
LEMMA NodeKinds ==
    ASSUME NEW store, NEW n \in Nodes(store)
    PROVE  /\ n.kind \in {"leaf", "extension", "branch"}
           /\ n.kind = "leaf" => n \in Leaves
           /\ n.kind = "extension" => n \in Extensions(store)
           /\ n.kind = "branch" => n \in Branches(store)
BY DEF Nodes, Leaves, Extensions, Branches

\* What refers to a storage still does when there is more in it.
LEMMA TypesGrow ==
    ASSUME NEW s, NEW t, DOMAIN s \subseteq DOMAIN t
    PROVE  /\ NodeRefs(s) \subseteq NodeRefs(t)
           /\ Refs(s) \subseteq Refs(t)
           /\ Nodes(s) \subseteq Nodes(t)
           /\ Frames(s) \subseteq Frames(t)
<1>1. NodeRefs(s) \subseteq NodeRefs(t)
    BY DEF NodeRefs
<1>2. Refs(s) \subseteq Refs(t)
    BY <1>1 DEF Refs
<1>3. Extensions(s) \subseteq Extensions(t)
    BY <1>1 DEF Extensions
<1>4. Branches(s) \subseteq Branches(t)
    BY <1>2 DEF Branches
<1> QED BY <1>1, <1>2, <1>3, <1>4 DEF Nodes, Frames

\* Every node stored refers to nodes stored.
Closed(store) == \A h \in DOMAIN store : store[h] \in Nodes(store)

\* Storing a node whose references are stored keeps the storage closed, loses
\* no key of it, and makes the reference to the node one that is stored.
LEMMA PutKeepsClosed ==
    ASSUME NEW store, Closed(store), NEW n \in Nodes(store)
    PROVE  /\ Closed(Put(store, n))
           /\ DOMAIN store \subseteq DOMAIN Put(store, n)
           /\ RefTo(n) \in NodeRefs(Put(store, n))
<1>1. CASE Inlined(n)
    <2>1. Put(store, n) = store
        BY <1>1 DEF Put
    <2>2. n \in Leaves
        BY <1>1, NodeKinds DEF Inlined
    <2> QED BY <1>1, <2>1, <2>2 DEF RefTo, NodeRefs
<1>2. CASE ~Inlined(n)
    <2>1. Put(store, n) = [h \in DOMAIN store \cup {Hash(n)} |->
                              IF h = Hash(n) THEN n ELSE store[h]]
        BY <1>2 DEF Put
    <2>2. DOMAIN Put(store, n) = DOMAIN store \cup {Hash(n)}
        BY <2>1
    <2>3. Nodes(store) \subseteq Nodes(Put(store, n))
        BY <2>2, TypesGrow
    <2>4. \A h \in DOMAIN Put(store, n) : Put(store, n)[h] \in Nodes(store)
        BY <2>1 DEF Closed
    <2>5. RefTo(n) \in NodeRefs(Put(store, n))
        BY <1>2, <2>2 DEF RefTo, NodeRefs
    <2> QED BY <2>2, <2>3, <2>4, <2>5 DEF Closed
<1> QED BY <1>1, <1>2

\* Following a reference to a stored node gives a node.
LEMMA FetchType ==
    ASSUME Closed(nodes), NEW r \in NodeRefs(nodes)
    PROVE  Found(r) /\ Fetch(r) \in Nodes(nodes)
BY DEF Closed, Found, Fetch, NodeAt, NodeRefs, Nodes

\* A reference that is not empty is followed.
LEMMA RefCases ==
    ASSUME NEW store, NEW r \in Refs(store)
    PROVE  /\ r # EmptyRef => r \in NodeRefs(store)
           /\ r \in NodeRefs(store) => r # EmptyRef
BY DEF Refs, NodeRefs, EmptyRef

--------------------------------------------------------------------------------
(* The inductive invariant, and the ways a handler ends.                       *)

IInv == TypeOK /\ NodeFound

\* The public method ends with a root that is stored.
LEMMA FinishKeepsIInv ==
    ASSUME TypeOK, NEW r \in Refs(nodes), NEW o, Finish(r, o), UNCHANGED nodes
    PROVE  IInv'
<1>1. /\ nodes' = nodes /\ root' = r /\ ref' = EmptyRef /\ path' = <<>>
      /\ stack' = <<>> /\ pc' = "done" /\ call' = call
    BY DEF Finish
<1>2. EmptyRef \in Refs(nodes) /\ <<>> \in Seq(Nibble) /\ <<>> \in Seq(Frames(nodes))
    BY EmptySeq DEF Refs
<1> QED BY <1>1, <1>2 DEF IInv, TypeOK, NodeFound

\* A handler visits a stored node, or set an empty branch.
LEMMA VisitKeepsIInv ==
    ASSUME TypeOK, call.op # "none",
           NEW r \in Refs(nodes), r # EmptyRef \/ call.op = "set",
           NEW p \in Seq(Nibble), Visit(r, p), stack' \in Seq(Frames(nodes))
    PROVE  IInv'
<1>1. /\ nodes' = nodes /\ root' = root /\ ref' = r /\ path' = p
      /\ pc' = "node" /\ call' = call
    BY DEF Visit
<1>2. r # EmptyRef => Found(r)
    BY RefCases, FetchType DEF TypeOK, Closed
<1>3. r # EmptyRef => Found(r)'
    BY <1>1, <1>2 DEF Found
<1>4. NodeFound'
    BY <1>1, <1>3 DEF NodeFound, Found
<1>5. TypeOK'
    BY <1>1 DEF TypeOK
<1> QED BY <1>4, <1>5 DEF IInv

\* What a handler may return when the storage is s.
Returnable(s, res) ==
    IF call.op = "set" THEN res \in Updates(s) /\ res.action = "updated"
    ELSE res \in Updates(s) \cup {Deleted}

\* A handler returns a result about a larger storage.
LEMMA ReturnKeepsIInv ==
    ASSUME TypeOK, call.op # "none",
           NEW s, Closed(s), DOMAIN nodes \subseteq DOMAIN s,
           NEW res, Returnable(s, res), Return(s, res),
           stack' \in Seq(Frames(nodes))
    PROVE  IInv'
<1>1. /\ nodes' = s /\ root' = root /\ ref' = EmptyRef /\ path' = <<>>
      /\ pc' = "return" /\ call' = call /\ ret' = res
    BY DEF Return
<1>2. Refs(nodes) \subseteq Refs(s) /\ Frames(nodes) \subseteq Frames(s)
    BY TypesGrow
<1>3. stack' \in Seq(Frames(s))
    BY <1>2, SeqMonotonic
<1>4. EmptyRef \in Refs(s) /\ <<>> \in Seq(Nibble)
    BY EmptySeq DEF Refs
<1>5. root \in Refs(s)
    BY <1>2 DEF TypeOK
<1>6. TypeOK'
    <2>1. (\A h \in DOMAIN nodes : nodes[h] \in Nodes(nodes))'
        BY <1>1 DEF Closed
    <2>2. root' \in Refs(nodes') /\ ref' \in Refs(nodes') /\ path' \in Seq(Nibble)
        BY <1>1, <1>4, <1>5
    <2>3. stack' \in Seq(Frames(nodes'))
        BY <1>1, <1>3
    <2>4. /\ call'.op \in Ops \cup {"none"} /\ call'.key \in Seq(Nibble)
          /\ call'.value \in IF call'.op = "set" THEN Values ELSE StoredValues
          /\ call'.op # "none"
        BY <1>1 DEF TypeOK
    <2>5. IF call'.op = "set"
          THEN ret' \in Updates(nodes') /\ ret'.action = "updated"
          ELSE ret' \in Updates(nodes') \cup {Deleted}
        BY <1>1 DEF Returnable
    <2> QED BY <1>1, <2>1, <2>2, <2>3, <2>4, <2>5 DEF TypeOK
<1> QED BY <1>1, <1>6 DEF IInv, NodeFound

\* A handler stores a node and returns the reference to it.
LEMMA ReturnNodeKeepsIInv ==
    ASSUME TypeOK, call.op # "none",
           NEW s, Closed(s), DOMAIN nodes \subseteq DOMAIN s,
           NEW action \in {"updated", "useless"}, call.op = "set" => action = "updated",
           NEW p \in Seq(Nibble), NEW n \in Nodes(s), ReturnNode(s, action, p, n),
           stack' \in Seq(Frames(nodes))
    PROVE  IInv'
<1>1. /\ Closed(Put(s, n)) /\ DOMAIN nodes \subseteq DOMAIN Put(s, n)
      /\ RefTo(n) \in NodeRefs(Put(s, n))
    BY PutKeepsClosed
<1>2. Returnable(Put(s, n), Result(action, p, n))
    BY <1>1 DEF Returnable, Result, Updates
<1> QED BY <1>1, <1>2, ReturnKeepsIInv DEF ReturnNode

\* The stack with one more frame, and with one less.
LEMMA PushType ==
    ASSUME TypeOK, NEW f \in Frames(nodes)
    PROVE  Append(stack, f) \in Seq(Frames(nodes))
BY DEF TypeOK

(* The stack below its top is a stack.                                         *)
LEMMA PopType ==
    ASSUME TypeOK, stack # <<>>
    PROVE  Front(stack) \in Seq(Frames(nodes)) /\ Last(stack) \in Frames(nodes)
<1>1. stack \in Seq(Frames(nodes)) /\ Len(stack) \in Nat \ {0}
    BY EmptySeq DEF TypeOK
<1>2. \A i \in 1 .. Len(stack) : stack[i] \in Frames(nodes)
    BY <1>1, ElementOfSeq
<1>3. SubSeq(stack, 1, Len(stack) - 1) \in Seq(Frames(nodes))
    BY <1>1, <1>2, SubSeqProperties
<1> QED BY <1>1, <1>2, <1>3 DEF Front, Last

\* A frame is that of an extension, or that of a branch with an index.
LEMMA FrameKinds ==
    ASSUME NEW store, NEW f \in Frames(store)
    PROVE  /\ f.node.kind = "extension" => f.node \in Extensions(store)
           /\ f.node.kind = "branch" => f.node \in Branches(store) /\ f.idx \in Nibble
BY DEF Frames, Extensions, Branches

--------------------------------------------------------------------------------
(* Each action keeps the inductive invariant.                                  *)

\* The node a handler is applied to is stored, and so is all it refers to.
LEMMA VisitedType ==
    ASSUME IInv, NEW op, NEW kind, Visiting(op, kind)
    PROVE  /\ ref \in NodeRefs(nodes) /\ Fetch(ref) \in Nodes(nodes)
           /\ Fetch(ref).kind = kind
           /\ pc = "node" /\ call.op = op /\ call.op # "none"
           /\ Closed(nodes)
<1>1. ref \in Refs(nodes) /\ Closed(nodes) /\ pc = "node" /\ call.op = op
    BY DEF IInv, TypeOK, Visiting, Closed
<1>2. ref # EmptyRef
    BY DEF Visiting, Found, EmptyRef
<1>3. ref \in NodeRefs(nodes)
    BY <1>1, <1>2, RefCases
<1> QED BY <1>1, <1>3, FetchType DEF Visiting, IInv, TypeOK

\* The path of a call, its head and its tail.
LEMMA PathType ==
    ASSUME IInv
    PROVE  /\ path \in Seq(Nibble)
           /\ path # <<>> => Head(path) \in Nibble /\ Tail(path) \in Seq(Nibble)
BY HeadTailProperties DEF IInv, TypeOK

\* A throw leaves the trie as it is.
LEMMA AbandonKeepsIInv ==
    ASSUME IInv, NEW what, Abandon(what)
    PROVE  IInv'
BY FinishKeepsIInv DEF Abandon, IInv, TypeOK

(* A public call starts on references that are stored.                         *)
LEMMA CallKeepsIInv ==
    ASSUME IInv, NEW op \in {"get", "set", "remove"}, NEW k \in Keys,
           NEW v \in IF op = "set" THEN Values ELSE StoredValues, Call(op, k, v)
    PROVE  IInv'
<1>1. /\ nodes' = nodes /\ root' = root /\ stack' = stack /\ ret' = ret
      /\ ref' = root /\ path' = k /\ pc' = "node" /\ op \in Ops
      /\ call' = [op |-> op, key |-> k, value |-> v]
    BY DEF Call
<1>2. k \in Seq(Nibble)
    BY ConstantsAssumption
<1>3. root # EmptyRef => Found(root)
    BY RefCases, FetchType DEF IInv, TypeOK, Closed
<1>4. NodeFound'
    BY <1>1, <1>3 DEF NodeFound, Found
<1>5. TypeOK'
    BY <1>1, <1>2 DEF IInv, TypeOK
<1> QED BY <1>4, <1>5 DEF IInv

(* The handlers of get follow stored references and store nothing.             *)
LEMMA GettingKeepsIInv ==
    ASSUME IInv, Getting
    PROVE  IInv'
<1> stack \in Seq(Frames(nodes)) /\ TypeOK
    BY DEF IInv, TypeOK
<1>1. CASE GetEmpty
    BY <1>1, AbandonKeepsIInv DEF GetEmpty
<1>2. CASE GetLeaf
    <2>1. CASE Give(Fetch(ref).value)
        BY <2>1, FinishKeepsIInv DEF Give, IInv, TypeOK
    <2>2. CASE Missing
        BY <2>2, AbandonKeepsIInv DEF Missing
    <2> QED BY <1>2, <2>1, <2>2 DEF GetLeaf
<1>3. CASE GetExtension
    <2> DEFINE ext == Fetch(ref)
    <2>1. ext \in Extensions(nodes) /\ call.op # "none"
        BY <1>3, VisitedType, NodeKinds DEF GetExtension
    <2>2. ext.next \in Refs(nodes) /\ ext.next # EmptyRef /\ ext.path \in Seq(Nibble)
        BY <2>1, RefCases DEF Extensions, Refs
    <2>3. Consume(path, Len(ext.path)) \in Seq(Nibble)
        BY <2>2, PathType, ConsumeType, LenProperties
    <2>4. CASE Visit(ext.next, Consume(path, Len(ext.path))) /\ UNCHANGED stack
        BY <2>1, <2>2, <2>3, <2>4, VisitKeepsIInv
    <2>5. CASE Missing
        BY <2>5, AbandonKeepsIInv DEF Missing
    <2> QED BY <1>3, <2>4, <2>5 DEF GetExtension
<1>4. CASE GetBranch
    <2> DEFINE b == Fetch(ref)
    <2>1. b \in Branches(nodes) /\ call.op # "none"
        BY <1>4, VisitedType, NodeKinds DEF GetBranch
    <2>2. CASE Give(b.value)
        BY <2>2, FinishKeepsIInv DEF Give, IInv, TypeOK
    <2>3. CASE /\ path # <<>> /\ Head(path) \in Children(b)
               /\ Visit(b.branches[Head(path)], Tail(path)) /\ UNCHANGED stack
        <3>1. b.branches[Head(path)] \in Refs(nodes)
            BY <2>1, <2>3, PathType DEF Branches
        <3>2. b.branches[Head(path)] # EmptyRef
            BY <2>3 DEF Children
        <3> QED BY <2>1, <2>3, <3>1, <3>2, PathType, VisitKeepsIInv
    <2>4. CASE Missing
        BY <2>4, AbandonKeepsIInv DEF Missing
    <2> QED BY <1>4, <2>2, <2>3, <2>4 DEF GetBranch
<1> QED BY <1>1, <1>2, <1>3, <1>4 DEF Getting

\* A branch under construction: its storage is closed and has all of nodes, and
\* its references are stored there.
UnderConstruction(b) ==
    /\ Closed(b.store) /\ DOMAIN nodes \subseteq DOMAIN b.store
    /\ b.refs \in [Nibble -> Refs(b.store)]

\* Adding a stored reference, or a new node that refers to stored ones.
LEMMA AddNodeKeeps ==
    ASSUME NEW b, UnderConstruction(b), NEW i \in Nibble, NEW n \in Nodes(b.store)
    PROVE  UnderConstruction([store |-> Put(b.store, n),
                              refs |-> [b.refs EXCEPT ![i] = RefTo(n)]])
<1>1. /\ Closed(Put(b.store, n)) /\ DOMAIN b.store \subseteq DOMAIN Put(b.store, n)
      /\ RefTo(n) \in NodeRefs(Put(b.store, n))
    BY PutKeepsClosed DEF UnderConstruction
<1>2. Refs(b.store) \subseteq Refs(Put(b.store, n)) /\ RefTo(n) \in Refs(Put(b.store, n))
    BY <1>1, TypesGrow DEF Refs
<1>3. [b.refs EXCEPT ![i] = RefTo(n)] \in [Nibble -> Refs(Put(b.store, n))]
    BY <1>2 DEF UnderConstruction
<1> QED BY <1>1, <1>3 DEF UnderConstruction

(* CreateBranchLeaf() returns a branch whose children are stored.              *)
LEMMA AddLeafKeeps ==
    ASSUME NEW b, UnderConstruction(b), NEW p \in Seq(Nibble), NEW v \in Values
    PROVE  UnderConstruction(AddLeaf(b, p, v))
<1>1. CASE p = <<>>
    BY <1>1 DEF AddLeaf
<1>2. CASE p # <<>>
    <2>1. Head(p) \in Nibble /\ Leaf(Tail(p), v) \in Nodes(b.store)
        BY <1>2, HeadTailProperties DEF Leaf, Leaves, Nodes
    <2> QED BY <1>2, <2>1, AddNodeKeeps DEF AddLeaf
<1> QED BY <1>1, <1>2

(* CreateBranchExtension() returns a branch whose children are stored.         *)
LEMMA AddExtensionKeeps ==
    ASSUME NEW b, UnderConstruction(b), NEW p \in Seq(Nibble), p # <<>>,
           NEW next \in NodeRefs(nodes)
    PROVE  UnderConstruction(AddExtension(b, p, next))
<1>1. next \in NodeRefs(b.store)
    BY TypesGrow DEF UnderConstruction
<1>2. Head(p) \in Nibble /\ Tail(p) \in Seq(Nibble)
    BY HeadTailProperties
<1>3. CASE Len(p) = 1
    <2>1. AddExtension(b, p, next) = [b EXCEPT !.refs[Head(p)] = next]
        BY <1>3 DEF AddExtension
    <2>2. [b.refs EXCEPT ![Head(p)] = next] \in [Nibble -> Refs(b.store)]
        BY <1>1, <1>2 DEF UnderConstruction, Refs
    <2> QED BY <2>1, <2>2 DEF UnderConstruction
<1>4. CASE Len(p) # 1
    <2>1. Extension(Tail(p), next) \in Nodes(b.store)
        BY <1>1, <1>2 DEF Extension, Extensions, Nodes
    <2> QED BY <1>2, <1>4, <2>1, AddNodeKeeps DEF AddExtension
<1> QED BY <1>3, <1>4

\* A new branch is returned, with or without an extension before it.
LEMMA ReturnBranchKeepsIInv ==
    ASSUME IInv, call.op = "set", NEW b, UnderConstruction(b),
           NEW v \in StoredValues, NEW p \in Seq(Nibble), ReturnBranch(b, v, p)
    PROVE  IInv'
<1> DEFINE branch == Branch(b.refs, v)
           store == Put(b.store, branch)
           ext == Extension(p, RefTo(branch))
<1>1. branch \in Nodes(b.store)
    BY DEF Branch, Branches, Nodes, UnderConstruction
<1>2. /\ Closed(store) /\ DOMAIN nodes \subseteq DOMAIN store
      /\ RefTo(branch) \in NodeRefs(store)
    BY <1>1, PutKeepsClosed DEF UnderConstruction
<1>3. stack' \in Seq(Frames(nodes)) /\ TypeOK /\ <<>> \in Seq(Nibble)
    BY EmptySeq DEF ReturnBranch, IInv, TypeOK
<1>4. CASE p = <<>>
    <2>1. Returnable(store, Result("updated", <<>>, branch))
        BY <1>2, <1>3 DEF Returnable, Result, Updates
    <2>2. Return(store, Result("updated", <<>>, branch))
        BY <1>4 DEF ReturnBranch
    <2> QED BY <1>2, <1>3, <2>1, <2>2, ReturnKeepsIInv
<1>5. CASE p # <<>>
    <2>1. ext \in Nodes(store)
        BY <1>2 DEF Extension, Extensions, Nodes
    <2>2. ReturnNode(store, "updated", <<>>, ext)
        BY <1>5 DEF ReturnBranch
    <2> HIDE DEF store, ext
    <2> QED BY <1>2, <1>3, <2>1, <2>2, ReturnNodeKeepsIInv
<1> QED BY <1>4, <1>5

\* Nothing is in a new branch, and everything in its storage.
LEMMA NewBranchUnderConstruction ==
    ASSUME IInv
    PROVE  UnderConstruction(NewBranch) /\ Closed(nodes) /\ <<>> \in Seq(Nibble)
BY EmptySeq DEF NewBranch, NoBranches, UnderConstruction, IInv, TypeOK, Closed, Refs

\* The rests of the path and of a node's path after what they have in common.
LEMMA RestTypes ==
    ASSUME IInv, NEW q \in Seq(Nibble)
    PROVE  /\ CommonPrefix(path, q) \in Seq(Nibble)
           /\ Consume(path, Len(CommonPrefix(path, q))) \in Seq(Nibble)
           /\ Consume(q, Len(CommonPrefix(path, q))) \in Seq(Nibble)
           /\ ~StartsWith(path, q) => Consume(q, Len(CommonPrefix(path, q))) # <<>>
<1>1. path \in Seq(Nibble)
    BY PathType
<1>2. CommonPrefix(path, q) \in Seq(Nibble) /\ Len(CommonPrefix(path, q)) \in Nat
    BY <1>1, CommonPrefixType, LenProperties
<1> QED BY <1>1, <1>2, ConsumeType, RestNotEmpty

(* SetHandler on a leaf, with or without a split.                              *)
LEMMA SetLeafKeepsIInv ==
    ASSUME IInv, SetLeaf
    PROVE  IInv'
<1> DEFINE leaf == Fetch(ref)
           common == CommonPrefix(path, leaf.path)
           mine == Consume(path, Len(common))
           theirs == Consume(leaf.path, Len(common))
           value == EndingValue(mine, call.value, theirs, leaf.value)
           built == AddLeaf(AddLeaf(NewBranch, mine, call.value), theirs, leaf.value)
<1>1. leaf \in Leaves /\ call.op = "set"
    BY VisitedType, NodeKinds DEF SetLeaf
<1>2. leaf.path \in Seq(Nibble) /\ leaf.value \in Values /\ leaf.value \in StoredValues
    BY <1>1 DEF Leaves, StoredValues
<1>3. call.value \in Values /\ call.value \in StoredValues /\ NoValue \in StoredValues
    BY <1>1 DEF IInv, TypeOK, StoredValues
<1>4. CASE ReturnNode(nodes, "updated", <<>>, Leaf(path, call.value)) /\ UNCHANGED stack
    <2>1. Leaf(path, call.value) \in Nodes(nodes)
        BY <1>3, PathType DEF Leaf, Leaves, Nodes
    <2> QED BY <1>1, <1>4, <2>1, NewBranchUnderConstruction, ReturnNodeKeepsIInv
            DEF IInv, TypeOK
<1>5. CASE ReturnBranch(built, value, common)
    <2>1. common \in Seq(Nibble) /\ mine \in Seq(Nibble) /\ theirs \in Seq(Nibble)
        BY <1>2, RestTypes
    <2>2. UnderConstruction(AddLeaf(NewBranch, mine, call.value))
        BY <1>3, <2>1, NewBranchUnderConstruction, AddLeafKeeps
    <2>3. UnderConstruction(built)
        BY <1>2, <2>1, <2>2, AddLeafKeeps
    <2>4. value \in StoredValues
        BY <1>2, <1>3 DEF EndingValue
    <2> HIDE DEF built, value, common
    <2> QED BY <1>1, <1>5, <2>1, <2>3, <2>4, ReturnBranchKeepsIInv
<1> QED BY <1>4, <1>5 DEF SetLeaf

(* SetHandler on an extension: descended, or split.                            *)
LEMMA SetExtensionKeepsIInv ==
    ASSUME IInv, SetExtension
    PROVE  IInv'
<1> DEFINE ext == Fetch(ref)
           common == CommonPrefix(path, ext.path)
           mine == Consume(path, Len(common))
           theirs == Consume(ext.path, Len(common))
           value == IF mine = <<>> THEN call.value ELSE NoValue
           built == AddExtension(AddLeaf(NewBranch, mine, call.value), theirs, ext.next)
<1>1. ext \in Extensions(nodes) /\ call.op = "set"
    BY VisitedType, NodeKinds DEF SetExtension
<1>2. ext.path \in Seq(Nibble) /\ ext.next \in NodeRefs(nodes)
    BY <1>1 DEF Extensions
<1>3. call.value \in Values /\ call.value \in StoredValues /\ NoValue \in StoredValues
    BY <1>1 DEF IInv, TypeOK, StoredValues
<1>4. CASE Recurse([node |-> ext], ext.next, Consume(path, Len(ext.path)))
    <2>1. [node |-> ext] \in Frames(nodes)
        BY <1>1 DEF Frames
    <2>2. stack' \in Seq(Frames(nodes))
        BY <1>4, <2>1, PushType DEF Recurse, IInv
    <2>3. Consume(path, Len(ext.path)) \in Seq(Nibble)
        BY <1>2, PathType, ConsumeType, LenProperties
    <2>4. ext.next \in Refs(nodes)
        BY <1>2 DEF Refs
    <2> QED BY <1>1, <1>4, <2>2, <2>3, <2>4, VisitKeepsIInv DEF Recurse, IInv
<1>5. CASE ~StartsWith(path, ext.path) /\ ReturnBranch(built, value, common)
    <2>1. /\ common \in Seq(Nibble) /\ mine \in Seq(Nibble)
          /\ theirs \in Seq(Nibble) /\ theirs # <<>>
        BY <1>2, <1>5, RestTypes
    <2>2. UnderConstruction(AddLeaf(NewBranch, mine, call.value))
        BY <1>3, <2>1, NewBranchUnderConstruction, AddLeafKeeps
    <2>3. UnderConstruction(built)
        BY <1>2, <2>1, <2>2, AddExtensionKeeps
    <2>4. value \in StoredValues
        BY <1>3
    <2> HIDE DEF built, value, common
    <2> QED BY <1>1, <1>5, <2>1, <2>3, <2>4, ReturnBranchKeepsIInv
<1> QED BY <1>4, <1>5 DEF SetExtension

\* A branch with one more or another reference, and one with another value.
LEMMA BranchUpdateType ==
    ASSUME NEW store, NEW b \in Branches(store), NEW i \in Nibble,
           NEW r \in Refs(store), NEW v \in StoredValues
    PROVE  SetBranch(b, i, r) \in Nodes(store) /\ [b EXCEPT !.value = v] \in Branches(store)
BY DEF SetBranch, Branches, Nodes

\* A child of a branch is visited while the branch waits.
LEMMA BranchDescentKeepsIInv ==
    ASSUME IInv, call.op # "none", NEW b \in Branches(nodes), path # <<>>,
           b.branches[Head(path)] # EmptyRef \/ call.op = "set",
           Recurse([node |-> b, idx |-> Head(path)], b.branches[Head(path)], Tail(path))
    PROVE  IInv'
<1>1. Head(path) \in Nibble /\ Tail(path) \in Seq(Nibble)
    BY PathType
<1>2. b.branches[Head(path)] \in Refs(nodes)
    BY <1>1 DEF Branches
<1>3. [node |-> b, idx |-> Head(path)] \in Frames(nodes)
    BY <1>1 DEF Frames
<1>4. stack' \in Seq(Frames(nodes))
    BY <1>3, PushType DEF Recurse, IInv
<1> QED BY <1>1, <1>2, <1>4, VisitKeepsIInv DEF Recurse, IInv

(* The handlers of set and the returns to them.                                *)
LEMMA SettingKeepsIInv ==
    ASSUME IInv, Setting
    PROVE  IInv'
<1>1. /\ TypeOK /\ Closed(nodes) /\ <<>> \in Seq(Nibble)
      /\ stack \in Seq(Frames(nodes)) /\ call.value \in StoredValues
    BY NewBranchUnderConstruction DEF IInv, TypeOK, StoredValues
<1>2. CASE SetEmpty
    <2>1. Leaf(path, call.value) \in Nodes(nodes)
        BY <1>1, <1>2, PathType DEF Leaf, Leaves, Nodes, SetEmpty, TypeOK
    <2> QED BY <1>1, <1>2, <2>1, ReturnNodeKeepsIInv DEF SetEmpty
<1>3. CASE SetLeaf
    BY <1>3, SetLeafKeepsIInv
<1>4. CASE SetExtension
    BY <1>4, SetExtensionKeepsIInv
<1>5. CASE SetBranchNode
    <2> DEFINE b == Fetch(ref)
    <2>1. b \in Branches(nodes) /\ call.op = "set" /\ b \in Nodes(nodes)
        BY <1>5, VisitedType, NodeKinds DEF SetBranchNode
    <2>2. CASE /\ ReturnNode(nodes, "updated", <<>>, [b EXCEPT !.value = call.value])
               /\ UNCHANGED stack
        <3>1. [b EXCEPT !.value = call.value] \in Nodes(nodes)
            BY <1>1, <2>1 DEF Branches, Nodes
        <3> HIDE DEF b
        <3> QED BY <1>1, <2>1, <2>2, <3>1, ReturnNodeKeepsIInv
    <2>3. CASE /\ path # <<>>
               /\ Recurse([node |-> b, idx |-> Head(path)],
                          b.branches[Head(path)], Tail(path))
        BY <2>1, <2>3, BranchDescentKeepsIInv
    <2> QED BY <1>5, <2>2, <2>3 DEF SetBranchNode
<1>6. CASE SetExtensionReturn
    <2>1. /\ Last(stack).node \in Extensions(nodes) /\ stack' \in Seq(Frames(nodes))
          /\ call.op = "set" /\ ret.ref \in NodeRefs(nodes)
        BY <1>1, <1>6, PopType, FrameKinds
        DEF SetExtensionReturn, Resuming, TypeOK, Updates
    <2>2. Extension(Last(stack).node.path, ret.ref) \in Nodes(nodes)
        BY <2>1 DEF Extension, Extensions, Nodes
    <2> QED BY <1>1, <1>6, <2>1, <2>2, ReturnNodeKeepsIInv DEF SetExtensionReturn
<1>7. CASE SetBranchReturn
    <2>1. /\ Last(stack).node \in Branches(nodes) /\ stack' \in Seq(Frames(nodes))
          /\ Last(stack).idx \in Nibble
          /\ call.op = "set" /\ ret.ref \in Refs(nodes)
        BY <1>1, <1>7, PopType, FrameKinds
        DEF SetBranchReturn, Resuming, TypeOK, Updates, Refs
    <2>2. SetBranch(Last(stack).node, Last(stack).idx, ret.ref) \in Nodes(nodes)
        BY <1>1, <2>1, BranchUpdateType
    <2> QED BY <1>1, <1>7, <2>1, <2>2, ReturnNodeKeepsIInv DEF SetBranchReturn
<1>8. CASE SetDone
    <2>1. ret.ref \in Refs(nodes)
        BY <1>1, <1>8 DEF SetDone, TypeOK, Updates, Refs
    <2> QED BY <1>1, <1>8, <2>1, FinishKeepsIInv DEF SetDone
<1> QED BY <1>2, <1>3, <1>4, <1>5, <1>6, <1>7, <1>8 DEF Setting

\* A merged node has the nibbles before it and what its child refers to.
LEMMA MergedType ==
    ASSUME IInv, NEW p \in Seq(Nibble), NEW child \in Nodes(nodes)
    PROVE  /\ child.kind = "leaf" =>
                Leaf(p \o child.path, child.value) \in Nodes(nodes)
           /\ child.kind = "extension" =>
                Extension(p \o child.path, child.next) \in Nodes(nodes)
<1>1. CASE child.kind = "leaf"
    <2>1. child.path \in Seq(Nibble) /\ child.value \in Values
        BY <1>1, NodeKinds DEF Leaves
    <2> QED BY <1>1, <2>1, ConcatProperties DEF Leaf, Leaves, Nodes
<1>2. CASE child.kind = "extension"
    <2>1. child.path \in Seq(Nibble) /\ child.next \in NodeRefs(nodes)
        BY <1>2, NodeKinds DEF Extensions
    <2> QED BY <1>2, <2>1, ConcatProperties DEF Extension, Extensions, Nodes
<1> QED BY <1>1, <1>2

\* The node that replaces a branch of one child.
LEMMA LastBranchNodeType ==
    ASSUME IInv, NEW b \in Branches(nodes), NEW i \in Children(b)
    PROVE  /\ LastBranchNode(b, i) \in Nodes(nodes)
           /\ LastBranchNode(b, i).path \in Seq(Nibble)
<1> DEFINE child == Fetch(b.branches[i])
<1>1. i \in Nibble /\ b.branches[i] \in NodeRefs(nodes)
    BY RefCases DEF Children, Branches
<1>2. child \in Nodes(nodes)
    BY <1>1, FetchType DEF IInv, TypeOK, Closed
<1>3. <<i>> \in Seq(Nibble)
    BY <1>1
<1>4. CASE child.kind = "leaf"
    <2>1. LastBranchNode(b, i) = Leaf(<<i>> \o child.path, child.value)
        BY <1>4 DEF LastBranchNode
    <2>2. child.path \in Seq(Nibble)
        BY <1>2, <1>4, NodeKinds DEF Leaves
    <2>3. Leaf(<<i>> \o child.path, child.value) \in Nodes(nodes)
        BY <1>2, <1>3, <1>4, MergedType
    <2>4. Leaf(<<i>> \o child.path, child.value).path = <<i>> \o child.path
        BY DEF Leaf
    <2>5. <<i>> \o child.path \in Seq(Nibble)
        BY <1>3, <2>2, ConcatProperties
    <2> QED BY <2>1, <2>3, <2>4, <2>5
<1>5. CASE child.kind = "extension"
    <2>1. LastBranchNode(b, i) = Extension(<<i>> \o child.path, child.next)
        BY <1>5 DEF LastBranchNode
    <2>2. child.path \in Seq(Nibble)
        BY <1>2, <1>5, NodeKinds DEF Extensions
    <2>3. Extension(<<i>> \o child.path, child.next) \in Nodes(nodes)
        BY <1>2, <1>3, <1>5, MergedType
    <2>4. Extension(<<i>> \o child.path, child.next).path = <<i>> \o child.path
        BY DEF Extension
    <2>5. <<i>> \o child.path \in Seq(Nibble)
        BY <1>3, <2>2, ConcatProperties
    <2> QED BY <2>1, <2>3, <2>4, <2>5
<1>6. CASE child.kind = "branch"
    <2>1. LastBranchNode(b, i) = Extension(<<i>>, b.branches[i])
        BY <1>6 DEF LastBranchNode
    <2> QED BY <1>1, <1>3, <2>1 DEF Extension, Extensions, Nodes
<1> QED BY <1>2, <1>4, <1>5, <1>6, NodeKinds

\* What becomes of a branch one of whose children or whose value is deleted.
LEMMA BranchDeletionKeepsIInv ==
    ASSUME IInv, call.op = "remove", NEW b \in Branches(nodes), NEW idx \in Nibble,
           BranchDeletion(b, idx), stack' \in Seq(Frames(nodes))
    PROVE  IInv'
<1> DEFINE live == Children(b)
           last == LastBranchNode(b, CHOOSE i \in live : TRUE)
<1>1. TypeOK /\ Closed(nodes) /\ <<>> \in Seq(Nibble)
    BY NewBranchUnderConstruction DEF IInv
<1>2. CASE Return(nodes, Deleted)
    <2>1. Returnable(nodes, Deleted)
        BY DEF Returnable
    <2> QED BY <1>1, <1>2, <2>1, ReturnKeepsIInv
<1>3. CASE /\ b.value # NoValue
           /\ ReturnNode(nodes, "useless", <<>>, Leaf(<<>>, b.value))
    <2>1. Leaf(<<>>, b.value) \in Nodes(nodes)
        BY <1>1, <1>3 DEF Leaf, Leaves, Nodes, Branches, StoredValues
    <2> QED BY <1>1, <1>3, <2>1, ReturnNodeKeepsIInv
<1>4. CASE /\ Cardinality(live) = 1
           /\ ReturnNode(nodes, "useless", last.path, last)
    <2>1. live # {}
        BY <1>4, FS_EmptySet
    <2>2. (CHOOSE i \in live : TRUE) \in live
        BY <2>1
    <2>3. last \in Nodes(nodes) /\ last.path \in Seq(Nibble)
        BY <2>2, LastBranchNodeType
    <2> HIDE DEF last
    <2> QED BY <1>1, <1>4, <2>3, ReturnNodeKeepsIInv
<1>5. CASE ReturnNode(nodes, "updated", <<>>, ClearBranch(b, idx))
    <2>1. ClearBranch(b, idx) \in Nodes(nodes)
        BY BranchUpdateType DEF ClearBranch, Refs, Branches
    <2> QED BY <1>1, <1>5, <2>1, ReturnNodeKeepsIInv
<1> QED
    <2> HIDE DEF last
    <2> QED BY <1>2, <1>3, <1>4, <1>5 DEF BranchDeletion, last

\* Where undefined behaviour stops the description, the storage is as it was.
LEMMA UndefinedKeepsIInv ==
    ASSUME IInv, Undefined
    PROVE  IInv'
<1>1. EmptyRef \in Refs(nodes) /\ <<>> \in Seq(Nibble) /\ <<>> \in Seq(Frames(nodes))
    BY EmptySeq DEF Refs
<1> QED BY <1>1 DEF Undefined, IInv, TypeOK, NodeFound

(* The handlers of remove on their way down.                                   *)
LEMMA DeletingKeepsIInv ==
    ASSUME IInv, RemoveEmpty \/ DeleteLeaf \/ DeleteExtension \/ DeleteBranch \/ DeleteBranchValue
    PROVE  IInv'
<1>1. /\ TypeOK /\ Closed(nodes) /\ <<>> \in Seq(Nibble)
      /\ stack \in Seq(Frames(nodes)) /\ root \in Refs(nodes)
    BY NewBranchUnderConstruction DEF IInv, TypeOK
<1>2. CASE RemoveEmpty
    BY <1>1, <1>2, FinishKeepsIInv DEF RemoveEmpty
<1>3. CASE DeleteLeaf
    <2>1. CASE Return(nodes, Deleted) /\ UNCHANGED stack
        <3>1. call.op = "remove" /\ Returnable(nodes, Deleted)
            BY <1>3 DEF DeleteLeaf, Visiting, Returnable
        <3> QED BY <1>1, <2>1, <3>1, ReturnKeepsIInv
    <2>2. CASE Missing
        BY <2>2, AbandonKeepsIInv DEF Missing
    <2> QED BY <1>3, <2>1, <2>2 DEF DeleteLeaf
<1>4. CASE DeleteExtension
    <2> DEFINE ext == Fetch(ref)
    <2>1. ext \in Extensions(nodes) /\ call.op # "none"
        BY <1>4, VisitedType, NodeKinds DEF DeleteExtension
    <2>2. CASE Recurse([node |-> ext], ext.next, Consume(path, Len(ext.path)))
        <3>1. [node |-> ext] \in Frames(nodes)
            BY <2>1 DEF Frames
        <3>2. stack' \in Seq(Frames(nodes))
            BY <1>1, <2>2, <3>1, PushType DEF Recurse
        <3>3. ext.next \in Refs(nodes) /\ ext.next # EmptyRef /\ ext.path \in Seq(Nibble)
            BY <2>1, RefCases DEF Extensions, Refs
        <3>4. Consume(path, Len(ext.path)) \in Seq(Nibble)
            BY <3>3, PathType, ConsumeType, LenProperties
        <3> QED BY <1>1, <2>1, <2>2, <3>2, <3>3, <3>4, VisitKeepsIInv DEF Recurse
    <2>3. CASE Missing
        BY <2>3, AbandonKeepsIInv DEF Missing
    <2> QED BY <1>4, <2>2, <2>3 DEF DeleteExtension
<1>5. CASE DeleteBranch
    <2> DEFINE b == Fetch(ref)
    <2>1. b \in Branches(nodes) /\ call.op # "none"
        BY <1>5, VisitedType, NodeKinds DEF DeleteBranch
    <2>2. CASE Missing
        BY <2>2, AbandonKeepsIInv DEF Missing
    <2>3. CASE /\ path # <<>> /\ Head(path) \in Children(b)
               /\ Recurse([node |-> b, idx |-> Head(path)],
                          b.branches[Head(path)], Tail(path))
        <3>1. b.branches[Head(path)] # EmptyRef
            BY <2>3 DEF Children
        <3> QED BY <2>1, <2>3, <3>1, BranchDescentKeepsIInv
    <2> QED BY <1>5, <2>2, <2>3 DEF DeleteBranch
<1>6. CASE DeleteBranchValue
    <2> DEFINE b == Fetch(ref)
    <2>1. b \in Branches(nodes) /\ call.op = "remove"
        BY <1>6, VisitedType, NodeKinds DEF DeleteBranchValue
    <2>2. ASSUME NEW idx \in Nibble,
                 BranchDeletion([b EXCEPT !.value = NoValue], idx), UNCHANGED stack
          PROVE  IInv'
        <3>1. [b EXCEPT !.value = NoValue] \in Branches(nodes)
            BY <2>1 DEF Branches, StoredValues
        <3> HIDE DEF b
        <3> QED BY <1>1, <2>1, <2>2, <3>1, BranchDeletionKeepsIInv
    <2>3. CASE Undefined
        BY <2>3, UndefinedKeepsIInv
    <2> QED BY <1>6, <2>2, <2>3 DEF DeleteBranchValue
<1> QED BY <1>2, <1>3, <1>4, <1>5, <1>6

(* The handlers of remove on their way back.                                   *)
LEMMA DeletionReturnKeepsIInv ==
    ASSUME IInv, DeleteExtensionReturn \/ DeleteBranchReturn \/ RemoveDone \/ RemoveFallThrough
    PROVE  IInv'
<1>1. /\ TypeOK /\ Closed(nodes) /\ <<>> \in Seq(Nibble)
      /\ pc = "return" /\ call.op = "remove"
      /\ ret \in Updates(nodes) \cup {Deleted}
    BY NewBranchUnderConstruction
    DEF IInv, TypeOK, DeleteExtensionReturn, DeleteBranchReturn, RemoveDone,
        RemoveFallThrough, Resuming
<1>2. ret.action \in {"updated", "useless"} =>
          /\ ret.ref \in NodeRefs(nodes) /\ ret.ref \in Refs(nodes)
          /\ ret.path \in Seq(Nibble)
    BY <1>1 DEF Updates, Deleted, Refs
<1>3. CASE DeleteExtensionReturn
    <2> DEFINE ext == Last(stack).node
    <2>1. /\ ext \in Extensions(nodes) /\ stack' \in Seq(Frames(nodes))
          /\ ext.path \in Seq(Nibble)
        BY <1>1, <1>3, PopType, FrameKinds DEF DeleteExtensionReturn, Resuming, Extensions
    <2>2. CASE Return(nodes, Deleted)
        <3>1. Returnable(nodes, Deleted)
            BY <1>1 DEF Returnable
        <3> QED BY <1>1, <2>1, <2>2, <3>1, ReturnKeepsIInv
    <2>3. CASE /\ ret.action = "updated"
               /\ ReturnNode(nodes, "updated", <<>>, Extension(ext.path, ret.ref))
        <3>1. Extension(ext.path, ret.ref) \in Nodes(nodes)
            BY <1>2, <2>1, <2>3 DEF Extension, Extensions, Nodes
        <3> HIDE DEF ext
        <3> QED BY <1>1, <2>1, <2>3, <3>1, ReturnNodeKeepsIInv
    <2>4. CASE /\ ret.action = "useless"
               /\ ReturnNode(nodes, "updated", <<>>, MergedExtension(ext))
        <3> DEFINE child == Fetch(ret.ref)
        <3>1. child \in Nodes(nodes)
            BY <1>1, <1>2, <2>4, FetchType
        <3>2. child.kind \in {"leaf", "extension", "branch"}
            BY <3>1, NodeKinds
        <3>3. CASE child.kind = "leaf"
            <4>1. MergedExtension(ext) = Leaf(ext.path \o child.path, child.value)
                BY <3>3 DEF MergedExtension
            <4> QED BY <1>1, <2>1, <2>4, <3>1, <3>3, <4>1, MergedType, ReturnNodeKeepsIInv
        <3>4. CASE child.kind = "extension"
            <4>1. MergedExtension(ext) = Extension(ext.path \o child.path, child.next)
                BY <3>4 DEF MergedExtension
            <4> QED BY <1>1, <2>1, <2>4, <3>1, <3>4, <4>1, MergedType, ReturnNodeKeepsIInv
        <3>5. CASE child.kind = "branch"
            <4>1. MergedExtension(ext) = Extension(ext.path \o ret.path, ret.ref)
                BY <3>5 DEF MergedExtension
            <4>2. Extension(ext.path \o ret.path, ret.ref) \in Nodes(nodes)
                BY <1>2, <2>1, <2>4, ConcatProperties DEF Extension, Extensions, Nodes
            <4> QED BY <1>1, <2>1, <2>4, <4>1, <4>2, ReturnNodeKeepsIInv
        <3> QED BY <3>2, <3>3, <3>4, <3>5
    <2> QED BY <1>3, <2>2, <2>3, <2>4 DEF DeleteExtensionReturn
<1>4. CASE DeleteBranchReturn
    <2> DEFINE b == Last(stack).node
               idx == Last(stack).idx
    <2>1. /\ b \in Branches(nodes) /\ idx \in Nibble
          /\ stack' \in Seq(Frames(nodes))
        BY <1>1, <1>4, PopType, FrameKinds DEF DeleteBranchReturn, Resuming
    <2>2. CASE BranchDeletion(b, idx)
        BY <1>1, <2>1, <2>2, BranchDeletionKeepsIInv
    <2>3. CASE /\ ret.action \in {"updated", "useless"}
               /\ ReturnNode(nodes, "updated", <<>>, SetBranch(b, idx, ret.ref))
        <3>1. SetBranch(b, idx, ret.ref) \in Nodes(nodes)
            BY <1>2, <2>1, <2>3, BranchUpdateType DEF Branches
        <3> HIDE DEF b, idx
        <3> QED BY <1>1, <2>1, <2>3, <3>1, ReturnNodeKeepsIInv
    <2> QED BY <1>4, <2>2, <2>3 DEF DeleteBranchReturn
<1>5. CASE RemoveDone
    <2>1. root \in Refs(nodes) /\ EmptyRef \in Refs(nodes)
        BY <1>1 DEF TypeOK, Refs
    <2>2. UNCHANGED nodes
        BY <1>5 DEF RemoveDone
    <2>3. CASE ret.action = "updated" /\ Finish(ret.ref, Returned)
        BY <1>1, <1>2, <2>2, <2>3, FinishKeepsIInv
    <2>4. CASE Finish(root, Throw("remove error"))
        BY <1>1, <2>1, <2>2, <2>4, FinishKeepsIInv
    <2>5. CASE Finish(EmptyRef, Returned)
        BY <1>1, <2>1, <2>2, <2>5, FinishKeepsIInv
    <2> QED BY <1>5, <2>3, <2>4, <2>5 DEF RemoveDone
<1>6. CASE RemoveFallThrough
    BY <1>6, UndefinedKeepsIInv DEF RemoveFallThrough
<1> QED BY <1>3, <1>4, <1>5, <1>6

--------------------------------------------------------------------------------
(* Theorems.                                                                   *)

\* A new trie is empty.
LEMMA InitIInv == Init => IInv
<1>1. DOMAIN <<>> = {} /\ <<>> \in Seq(Nibble) /\ <<>> \in Seq(Frames(<<>>))
    BY EmptySeq
<1> QED BY <1>1 DEF Init, IInv, TypeOK, NodeFound, NoCall, StoredValues, Refs

(* The invariant is inductive.                                                 *)
LEMMA NextIInv == IInv /\ [Next]_vars => IInv'
<1> SUFFICES ASSUME IInv, [Next]_vars PROVE IInv'
    OBVIOUS
<1>1. CASE CallGet
    BY <1>1, CallKeepsIInv DEF CallGet, StoredValues
<1>2. CASE CallSet
    BY <1>2, CallKeepsIInv DEF CallSet, StoredValues
<1>3. CASE CallRemove
    BY <1>3, CallKeepsIInv DEF CallRemove, StoredValues
<1>4. CASE Getting
    BY <1>4, GettingKeepsIInv
<1>5. CASE Setting
    BY <1>5, SettingKeepsIInv
<1>6. CASE Removing
    BY <1>6, DeletingKeepsIInv, DeletionReturnKeepsIInv DEF Removing
<1>7. CASE Reply
    BY <1>7, EmptySeq DEF Reply, IInv, TypeOK, NodeFound, NoCall, StoredValues
<1>8. CASE Stopped \/ UNCHANGED vars
    BY <1>8 DEF Stopped, vars, IInv, TypeOK, NodeFound, Found, Fetch
<1> QED BY <1>1, <1>2, <1>3, <1>4, <1>5, <1>6, <1>7, <1>8 DEF Next, Step

\* Every variable keeps its type, and no node in nodes_, root_ or the running
\* call refers to a node that is not stored: PutToStorage comes before every use
\* of a reference, whatever collides.
THEOREM TypeCorrect == Spec => []TypeOK
<1>1. IInv => TypeOK
    BY DEF IInv
<1> QED BY <1>1, InitIInv, NextIInv, PTL DEF Spec

\* GetFromStorage never throws "Node not found" or "Empty byte array", in any
\* sequence of get, set and remove.
THEOREM NodesAreFound == Spec => []NodeFound
<1>1. IInv => NodeFound
    BY DEF IInv
<1> QED BY <1>1, InitIInv, NextIInv, PTL DEF Spec

--------------------------------------------------------------------------------
(* With a hash that has no collisions.                                         *)

NoCollisions == \A m, n : Hash(m) = Hash(n) => m = n

\* Every node is stored under its own hash.
ContentAddressed(store) == \A h \in DOMAIN store : Hash(store[h]) = h

\* A content-addressed storage that has all that nodes_ has.
Grown(store) ==
    /\ ContentAddressed(store)
    /\ \A h \in DOMAIN nodes : h \in DOMAIN store /\ store[h] = nodes[h]

\* What is overwritten is the same node.
LEMMA PutGrows ==
    ASSUME NoCollisions, NEW store, Grown(store), NEW n
    PROVE  Grown(Put(store, n))
<1>1. CASE Inlined(n)
    BY <1>1 DEF Put
<1>2. CASE ~Inlined(n)
    <2>1. Put(store, n) = [h \in DOMAIN store \cup {Hash(n)} |->
                              IF h = Hash(n) THEN n ELSE store[h]]
        BY <1>2 DEF Put
    <2>2. ContentAddressed(Put(store, n))
        BY <2>1 DEF Grown, ContentAddressed
    <2>3. ASSUME NEW h \in DOMAIN nodes
          PROVE  h \in DOMAIN Put(store, n) /\ Put(store, n)[h] = nodes[h]
        <3>1. h \in DOMAIN store /\ store[h] = nodes[h] /\ Hash(store[h]) = h
            BY DEF Grown, ContentAddressed
        <3>2. h = Hash(n) => store[h] = n
            BY <3>1 DEF NoCollisions
        <3> QED BY <2>1, <3>1, <3>2
    <2> QED BY <2>2, <2>3 DEF Grown
<1> QED BY <1>1, <1>2

(* The helpers of SetHandler only add to the storage.                          *)
LEMMA AddGrows ==
    ASSUME NoCollisions, NEW b, Grown(b.store), NEW p
    PROVE  /\ \A v : Grown(AddLeaf(b, p, v).store)
           /\ \A next : Grown(AddExtension(b, p, next).store)
<1>1. ASSUME NEW v PROVE Grown(AddLeaf(b, p, v).store)
    BY PutGrows DEF AddLeaf
<1>2. ASSUME NEW next PROVE Grown(AddExtension(b, p, next).store)
    <2>1. CASE Len(p) = 1
        <3>1. AddExtension(b, p, next) = [b EXCEPT !.refs[Head(p)] = next]
            BY <2>1 DEF AddExtension
        <3> QED BY <3>1
    <2>2. CASE Len(p) # 1
        BY <2>2, PutGrows DEF AddExtension
    <2> QED BY <2>1, <2>2
<1> QED BY <1>1, <1>2

\* Handlers that return have only added to the storage.
LEMMA ReturnsGrow ==
    ASSUME NoCollisions, ContentAddressed(nodes)
    PROVE  /\ \A res : Return(nodes, res) => Grown(nodes')
           /\ \A action, p, n : ReturnNode(nodes, action, p, n) => Grown(nodes')
           /\ \A b, v, p : Grown(b.store) /\ ReturnBranch(b, v, p) => Grown(nodes')
           /\ \A b, idx : BranchDeletion(b, idx) => Grown(nodes')
<1>1. Grown(nodes)
    BY DEF Grown
<1>2. ASSUME NEW res, Return(nodes, res) PROVE Grown(nodes')
    BY <1>1, <1>2 DEF Return
<1>3. ASSUME NEW s, Grown(s), NEW action, NEW p, NEW n, ReturnNode(s, action, p, n)
      PROVE  Grown(nodes')
    BY <1>3, PutGrows DEF ReturnNode, Return
<1>4. ASSUME NEW b, NEW v, NEW p, Grown(b.store), ReturnBranch(b, v, p)
      PROVE  Grown(nodes')
    <2> DEFINE branch == Branch(b.refs, v)
               store == Put(b.store, branch)
    <2>1. Grown(store)
        BY <1>4, PutGrows
    <2>2. CASE p = <<>>
        BY <1>4, <2>1, <2>2 DEF ReturnBranch, Return
    <2>3. CASE p # <<>>
        <3>1. ReturnNode(store, "updated", <<>>, Extension(p, RefTo(branch)))
            BY <1>4, <2>3 DEF ReturnBranch
        <3> HIDE DEF store
        <3> QED BY <1>3, <2>1, <3>1
    <2> QED BY <2>2, <2>3
<1>5. ASSUME NEW b, NEW idx, BranchDeletion(b, idx) PROVE Grown(nodes')
    BY <1>1, <1>2, <1>3, <1>5 DEF BranchDeletion
<1> QED BY <1>1, <1>2, <1>3, <1>4, <1>5

\* Any step keeps what is stored, under its own hash.
LEMMA StepGrows ==
    ASSUME NoCollisions, ContentAddressed(nodes), [Next]_vars
    PROVE  Grown(nodes')
<1>1. Grown(nodes) /\ Grown(NewBranch.store)
    BY DEF Grown, NewBranch
<1>2. ASSUME nodes' = nodes PROVE Grown(nodes')
    BY <1>1, <1>2
<1>3. CASE CallGet \/ CallSet \/ CallRemove \/ Reply \/ Stopped \/ UNCHANGED vars
    BY <1>2, <1>3 DEF CallGet, CallSet, CallRemove, Call, Reply, Stopped, vars
<1>4. CASE Getting
    BY <1>2, <1>4
    DEF Getting, GetEmpty, GetLeaf, GetExtension, GetBranch, Give, Missing, Abandon, Visit
<1>5. CASE SetLeaf
    <2>1. \A p, q, v, w : Grown(AddLeaf(AddLeaf(NewBranch, p, v), q, w).store)
        BY <1>1, AddGrows
    <2> QED BY <1>5, <2>1, ReturnsGrow DEF SetLeaf
<1>6. CASE SetExtension
    <2>1. \A p, q, v, r : Grown(AddExtension(AddLeaf(NewBranch, p, v), q, r).store)
        BY <1>1, AddGrows
    <2> QED BY <1>2, <1>6, <2>1, ReturnsGrow DEF SetExtension, Recurse, Visit
<1>7. CASE SetEmpty \/ SetBranchNode \/ SetExtensionReturn \/ SetBranchReturn \/ SetDone
    BY <1>2, <1>7, ReturnsGrow
    DEF SetEmpty, SetBranchNode, SetExtensionReturn, SetBranchReturn, SetDone,
        Recurse, Visit
<1>8. CASE RemoveEmpty \/ DeleteLeaf \/ DeleteExtension \/ DeleteBranch
    BY <1>2, <1>8, ReturnsGrow
    DEF RemoveEmpty, DeleteLeaf, DeleteExtension, DeleteBranch, Missing, Abandon,
        Recurse, Visit
<1>9. CASE DeleteBranchValue \/ DeleteExtensionReturn \/ DeleteBranchReturn
           \/ RemoveDone \/ RemoveFallThrough
    BY <1>2, <1>9, ReturnsGrow
    DEF DeleteBranchValue, DeleteExtensionReturn, DeleteBranchReturn, RemoveDone,
        RemoveFallThrough, Undefined
<1> QED BY <1>3, <1>4, <1>5, <1>6, <1>7, <1>8, <1>9 DEF Next, Step, Setting, Removing

\* Without collisions PutToStorage never overwrites a node by another: the root
\* reference taken before a set or a remove stays good for the old entries.
THEOREM StorageGrows ==
    ASSUME NoCollisions
    PROVE  Spec => StorageOnlyGrows
<1>1. Init => ContentAddressed(nodes)
    BY DEF Init, ContentAddressed
<1>2. ContentAddressed(nodes) /\ [Next]_vars =>
          /\ ContentAddressed(nodes)'
          /\ \A h \in DOMAIN nodes : h \in DOMAIN nodes' /\ nodes'[h] = nodes[h]
    BY StepGrows DEF Grown, ContentAddressed
<1> QED BY <1>1, <1>2, PTL DEF Spec, StorageOnlyGrows

--------------------------------------------------------------------------------
(* The entries of the references to a storage.                                 *)

\* The references a node holds, the empty ones of a branch included.
RefsOf(n) ==
    CASE n.kind = "leaf" -> {}
      [] n.kind = "extension" -> {n.next}
      [] n.kind = "branch" -> {n.branches[i] : i \in Nibble}

\* Nodes refer to nodes of lower ranks only.
RankedBy(store, N, rank) ==
    /\ rank \in [DOMAIN store -> 0..N]
    /\ \A h \in DOMAIN store : \A r \in RefsOf(store[h]) :
          r.tag = "hash" => rank[r.key] < rank[h]

Ranked(store) == \E N \in Nat : \E rank : RankedBy(store, N, rank)

\* The rank of what a reference refers to, and one less if that is not stored.
Height(store, rank) ==
    [r \in Refs(store) |-> IF r.tag = "hash" THEN rank[r.key] + 1 ELSE 0]

EntrySets == SUBSET (Seq(Nibble) \X Values)

\* What a node refers to is a reference to the storage.
LEMMA RefsOfType ==
    ASSUME NEW store, NEW n \in Nodes(store)
    PROVE  RefsOf(n) \subseteq Refs(store)
<1>1. CASE n.kind = "leaf"
    BY <1>1 DEF RefsOf
<1>2. CASE n.kind = "extension"
    BY <1>2, NodeKinds DEF RefsOf, Extensions, Refs
<1>3. CASE n.kind = "branch"
    BY <1>3, NodeKinds DEF RefsOf, Branches
<1> QED BY <1>1, <1>2, <1>3, NodeKinds

\* The node at a reference of a closed storage.
LEMMA NodeAtType ==
    ASSUME NEW store, Closed(store), NEW r \in Refs(store), r # EmptyRef
    PROVE  /\ NodeAt(store, r) \in Nodes(store)
           /\ r.tag = "inline" => NodeAt(store, r).kind = "leaf"
           /\ r.tag = "hash" => r.key \in DOMAIN store /\ NodeAt(store, r) = store[r.key]
           /\ r.tag \in {"inline", "hash"}
<1>1. r \in NodeRefs(store)
    BY RefCases
<1> QED BY <1>1 DEF NodeRefs, NodeAt, Closed, Nodes, Leaves

\* The height decreases along every reference.
LEMMA HeightDecreases ==
    ASSUME NEW store, Closed(store), NEW N \in Nat, NEW rank, RankedBy(store, N, rank),
           NEW r \in Refs(store), r # EmptyRef, NEW c \in RefsOf(NodeAt(store, r))
    PROVE  c \in Refs(store) /\ Height(store, rank)[c] < Height(store, rank)[r]
<1>1. NodeAt(store, r) \in Nodes(store)
    BY NodeAtType
<1>2. c \in Refs(store)
    BY <1>1, RefsOfType
<1>3. r.tag # "inline"
    BY <1>1, NodeAtType DEF RefsOf
<1>4. r.tag = "hash" /\ r.key \in DOMAIN store /\ NodeAt(store, r) = store[r.key]
    BY <1>3, NodeAtType
<1>5. c.tag = "hash" => rank[c.key] < rank[r.key]
    BY <1>4 DEF RankedBy
<1>6. Height(store, rank)[r] = rank[r.key] + 1 /\ rank[r.key] \in Nat
    BY <1>4 DEF Height, RankedBy
<1>7. c.tag = "hash" => c.key \in DOMAIN store
    BY <1>2 DEF Refs, NodeRefs, EmptyRef
<1>8. c.tag = "hash" => rank[c.key] \in Nat
    BY <1>7 DEF RankedBy
<1>9. Height(store, rank)[c] = IF c.tag = "hash" THEN rank[c.key] + 1 ELSE 0
    BY <1>2 DEF Height
<1> QED BY <1>2, <1>5, <1>6, <1>8, <1>9

\* Heights are bounded by the number of ranks.
LEMMA HeightType ==
    ASSUME NEW store, NEW N \in Nat, NEW rank, RankedBy(store, N, rank)
    PROVE  Height(store, rank) \in [Refs(store) -> 0..(N + 1)]
<1>1. ASSUME NEW r \in Refs(store), r.tag = "hash" PROVE rank[r.key] \in 0..N
    <2>1. r.key \in DOMAIN store
        BY <1>1 DEF Refs, NodeRefs, EmptyRef
    <2> QED BY <2>1 DEF RankedBy
<1>2. ASSUME NEW r \in Refs(store)
      PROVE  (IF r.tag = "hash" THEN rank[r.key] + 1 ELSE 0) \in 0..(N + 1)
    BY <1>1
<1> QED BY <1>2 DEF Height

\* What holds of a reference when it holds of those in its node holds of all.
LEMMA RefInduction ==
    ASSUME NEW store, Closed(store), Ranked(store), NEW S, EmptyRef \in S,
           \A r \in Refs(store) : r # EmptyRef /\ RefsOf(NodeAt(store, r)) \subseteq S => r \in S
    PROVE  Refs(store) \subseteq S
<1>1. PICK N \in Nat : \E rank : RankedBy(store, N, rank)
    BY DEF Ranked
<1>2. PICK rank : RankedBy(store, N, rank)
    BY <1>1
<1> DEFINE height == Height(store, rank)
<1>3. height \in [Refs(store) -> Nat]
    BY <1>2, HeightType
<1>4. ASSUME NEW r \in Refs(store),
             \A y \in Refs(store) : height[y] < height[r] => y \in S
      PROVE  r \in S
    <2>1. CASE r # EmptyRef
        <3>1. \A c \in RefsOf(NodeAt(store, r)) : c \in Refs(store) /\ height[c] < height[r]
            BY <1>2, <2>1, HeightDecreases
        <3> QED BY <1>4, <2>1, <3>1
    <2> QED BY <2>1
<1> HIDE DEF height
<1> QED BY <1>3, <1>4, InductionByHeight

\* An entry with a prefix, in the set and in the set of the longer keys.
LEMMA PrefixedType ==
    ASSUME NEW p \in Seq(Nibble), NEW E \in EntrySets
    PROVE  Prefixed(p, E) \in EntrySets
<1>1. ASSUME NEW e \in E PROVE <<p \o e[1], e[2]>> \in Seq(Nibble) \X Values
    <2>1. e[1] \in Seq(Nibble) /\ e[2] \in Values
        BY DEF EntrySets
    <2> QED BY <2>1, ConcatProperties
<1> QED BY <1>1 DEF Prefixed, EntrySets

\* A node's entries are pairs of a path and a value, when its children's are.
LEMMA NodeEntriesType ==
    ASSUME NEW store, NEW n \in Nodes(store), NEW g \in [Refs(store) -> EntrySets]
    PROVE  NodeEntries(g, n) \in EntrySets
<1>1. CASE n.kind = "leaf"
    <2>1. n.path \in Seq(Nibble) /\ n.value \in Values
        BY <1>1, NodeKinds DEF Leaves
    <2> QED BY <1>1, <2>1 DEF NodeEntries, EntrySets
<1>2. CASE n.kind = "extension"
    <2>1. n.path \in Seq(Nibble) /\ n.next \in Refs(store)
        BY <1>2, NodeKinds DEF Extensions, Refs
    <2>2. NodeEntries(g, n) = Prefixed(n.path, g[n.next])
        BY <1>2 DEF NodeEntries
    <2> QED BY <2>1, <2>2, PrefixedType
<1>3. CASE n.kind = "branch"
    <2>1. n.branches \in [Nibble -> Refs(store)] /\ n.value \in StoredValues
        BY <1>3, NodeKinds DEF Branches
    <2> DEFINE below == UNION {Prefixed(<<i>>, g[n.branches[i]]) : i \in Nibble}
               own == {<<<<>>, v>> : v \in {n.value} \ {NoValue}}
    <2>2. NodeEntries(g, n) = below \cup own
        BY <1>3 DEF NodeEntries
    <2>3. ASSUME NEW i \in Nibble PROVE Prefixed(<<i>>, g[n.branches[i]]) \in EntrySets
        <3>1. <<i>> \in Seq(Nibble) /\ g[n.branches[i]] \in EntrySets
            BY <2>1
        <3> QED BY <3>1, PrefixedType
    <2>4. <<>> \in Seq(Nibble) /\ \A v \in {n.value} \ {NoValue} : v \in Values
        BY <2>1, EmptySeq DEF StoredValues
    <2>5. \A v \in {n.value} \ {NoValue} : <<<<>>, v>> \in Seq(Nibble) \X Values
        BY <2>4
    <2>6. own \in EntrySets
        BY <2>5, Zenon DEF EntrySets
    <2>7. below \in EntrySets
        BY <2>3 DEF EntrySets
    <2> HIDE DEF below, own
    <2> QED BY <2>2, <2>6, <2>7 DEF EntrySets
<1> QED BY <1>1, <1>2, <1>3, NodeKinds

\* Only the references a node holds count for its entries.
LEMMA NodeEntriesLocal ==
    ASSUME NEW store, NEW n \in Nodes(store), NEW g, NEW h,
           \A r \in RefsOf(n) : g[r] = h[r]
    PROVE  NodeEntries(g, n) = NodeEntries(h, n)
<1>1. CASE n.kind = "leaf"
    BY <1>1 DEF NodeEntries
<1>2. CASE n.kind = "extension"
    BY <1>2 DEF NodeEntries, RefsOf
<1>3. CASE n.kind = "branch"
    <2>1. \A i \in Nibble : g[n.branches[i]] = h[n.branches[i]]
        BY <1>3 DEF RefsOf
    <2>2. UNION {Prefixed(<<i>>, g[n.branches[i]]) : i \in Nibble}
            = UNION {Prefixed(<<i>>, h[n.branches[i]]) : i \in Nibble}
        BY <2>1
    <2> QED BY <1>3, <2>2 DEF NodeEntries
<1> QED BY <1>1, <1>2, <1>3, NodeKinds

\* The recursion that defines the entries ends: they satisfy its equation.
LEMMA EntriesEquation ==
    ASSUME NEW store, Closed(store), Ranked(store)
    PROVE  /\ Entries(store) \in [Refs(store) -> EntrySets]
           /\ Entries(store)[EmptyRef] = {}
           /\ \A r \in Refs(store) \ {EmptyRef} :
                 Entries(store)[r] = NodeEntries(Entries(store), NodeAt(store, r))
<1>1. PICK N \in Nat : \E rank : RankedBy(store, N, rank)
    BY DEF Ranked
<1>2. PICK rank : RankedBy(store, N, rank)
    BY <1>1
<1> DEFINE D == Refs(store)
           height == Height(store, rank)
           body(g, r) == IF r = EmptyRef THEN {} ELSE NodeEntries(g, NodeAt(store, r))
           step == [r \in D |-> [g \in [D -> EntrySets] |-> body(g, r)]]
<1>3. ASSUME NEW r \in D, NEW g \in [D -> EntrySets] PROVE body(g, r) \in EntrySets
    BY NodeAtType, NodeEntriesType DEF EntrySets
<1>4. ASSUME NEW r \in D, NEW g, NEW h,
             \A y \in D : height[y] < height[r] => g[y] = h[y]
      PROVE  body(g, r) = body(h, r)
    <2>1. CASE r # EmptyRef
        <3>1. \A c \in RefsOf(NodeAt(store, r)) : c \in D /\ height[c] < height[r]
            BY <1>2, <2>1, HeightDecreases
        <3>2. \A c \in RefsOf(NodeAt(store, r)) : g[c] = h[c]
            BY <1>4, <3>1
        <3> QED BY <2>1, <3>2, NodeAtType, NodeEntriesLocal
    <2> QED BY <2>1
<1>5. \A r \in D : \A g \in [D -> EntrySets] : step[r][g] = body(g, r)
    OBVIOUS
<1> HIDE DEF body
<1>6. LooksBelow(step, EntrySets, D, height)
    <2> HIDE DEF step, height
    <2> QED BY <1>3, <1>4, <1>5 DEF LooksBelow
<1>7. {} \in EntrySets /\ N + 1 \in Nat
    BY DEF EntrySets
<1>8. height \in [D -> 0..(N + 1)]
    BY <1>2, HeightType
<1>9. \E g \in [D -> EntrySets] : \A r \in D : g[r] = step[r][g]
    <2> HIDE DEF step, height, D
    <2> QED BY <1>6, <1>7, <1>8, RecursionByHeight
<1>10. PICK g \in [D -> EntrySets] : \A r \in D : g[r] = body(g, r)
    BY <1>5, <1>9
<1>11. g = [r \in D |-> body(g, r)]
    BY <1>10
<1> DEFINE E == CHOOSE f : f = [r \in D |-> body(f, r)]
<1>12. Entries(store) = E
    BY Zenon DEF Entries, body
<1>13. E = [r \in D |-> body(E, r)]
    BY <1>11, Zenon
<1> HIDE DEF E
<1>14. \A r \in D : E[r] = body(E, r)
    BY <1>13
<1>15. EmptyRef \in D
    BY DEF Refs
<1>16. \A r \in D : E[r] \in EntrySets
    <2> DEFINE S == {r \in D : E[r] \in EntrySets /\ E[r] = g[r]}
    <2>1. EmptyRef \in S
        BY <1>7, <1>10, <1>14, <1>15 DEF body
    <2>2. ASSUME NEW r \in D, r # EmptyRef, RefsOf(NodeAt(store, r)) \subseteq S PROVE r \in S
        <3>1. \A c \in RefsOf(NodeAt(store, r)) : E[c] = g[c]
            BY <2>2
        <3>2. NodeEntries(E, NodeAt(store, r)) = NodeEntries(g, NodeAt(store, r))
            BY <2>2, <3>1, NodeAtType, NodeEntriesLocal
        <3>3. E[r] = g[r] /\ g[r] \in EntrySets
            BY <1>10, <1>14, <2>2, <3>2 DEF body
        <3> QED BY <3>3
    <2>3. D \subseteq S
        <3> HIDE DEF S
        <3> QED BY <2>1, <2>2, RefInduction
    <2> QED BY <2>3
<1>17. E \in [D -> EntrySets]
    BY <1>13, <1>16
<1> QED BY <1>12, <1>14, <1>15, <1>17 DEF body

--------------------------------------------------------------------------------
(* Paths that are put together and taken apart.                                *)

\* A sequence that starts with q and goes on with r is their concatenation.
LEMMA Concatenated ==
    ASSUME NEW p \in Seq(Nibble), NEW q \in Seq(Nibble), NEW r \in Seq(Nibble),
           Len(q) <= Len(p), Len(r) = Len(p) - Len(q),
           \A i \in 1..Len(q) : p[i] = q[i],
           \A i \in 1..Len(p) - Len(q) : r[i] = p[Len(q) + i]
    PROVE  p = q \o r
<1>1. Len(p) \in Nat /\ Len(q) \in Nat /\ Len(r) \in Nat
    BY LenProperties
<1>2. /\ q \o r \in Seq(Nibble) /\ Len(q \o r) = Len(q) + Len(r)
      /\ \A i \in 1..Len(q) + Len(r) :
            (q \o r)[i] = IF i <= Len(q) THEN q[i] ELSE r[i - Len(q)]
    BY ConcatProperties, Zenon
<1>3. ASSUME NEW i \in 1..Len(p) PROVE p[i] = (q \o r)[i]
    <2>1. CASE i <= Len(q)
        BY <1>1, <1>2, <2>1
    <2>2. CASE ~(i <= Len(q))
        <3>1. i - Len(q) \in 1..Len(p) - Len(q) /\ Len(q) + (i - Len(q)) = i
            BY <1>1, <2>2
        <3> QED BY <1>1, <1>2, <2>2, <3>1
    <2> QED BY <2>1, <2>2
<1>4. Len(p) = Len(q \o r)
    BY <1>1, <1>2
<1> QED BY <1>2, <1>3, <1>4, SeqEqual

\* The nibbles that are left when n are consumed.
LEMMA Consumed ==
    ASSUME NEW p \in Seq(Nibble), NEW n \in Nat, n <= Len(p)
    PROVE  /\ Consume(p, n) \in Seq(Nibble)
           /\ Len(Consume(p, n)) = Len(p) - n
           /\ \A i \in 1..Len(p) - n : Consume(p, n)[i] = p[n + i]
<1>1. Len(p) \in Nat /\ n + 1 \in Nat \ {0} /\ Len(p) \in Int
    BY LenProperties
<1>2. /\ Consume(p, n) \in Seq(Nibble)
      /\ Len(Consume(p, n)) = IF Len(p) < n + 1 THEN 0 ELSE Len(p) - (n + 1) + 1
      /\ \A i \in 1..(Len(p) - (n + 1) + 1) : Consume(p, n)[i] = p[(n + 1) + i - 1]
    BY <1>1, PartIsSeq DEF Consume
<1>3. Len(Consume(p, n)) = Len(p) - n
    BY <1>1, <1>2
<1>4. ASSUME NEW i \in 1..Len(p) - n PROVE Consume(p, n)[i] = p[n + i]
    <2>1. i \in 1..(Len(p) - (n + 1) + 1) /\ (n + 1) + i - 1 = n + i
        BY <1>1
    <2> QED BY <1>2, <2>1
<1> QED BY <1>2, <1>3, <1>4

\* The first n nibbles of a path.
LEMMA FirstNibbles ==
    ASSUME NEW p \in Seq(Nibble), NEW n \in Nat, n <= Len(p)
    PROVE  /\ SubSeq(p, 1, n) \in Seq(Nibble)
           /\ Len(SubSeq(p, 1, n)) = n
           /\ \A i \in 1..n : SubSeq(p, 1, n)[i] = p[i]
<1>1. Len(p) \in Nat /\ 1 \in Nat \ {0} /\ n \in Int
    BY LenProperties
<1>2. /\ SubSeq(p, 1, n) \in Seq(Nibble)
      /\ Len(SubSeq(p, 1, n)) = IF n < 1 THEN 0 ELSE n - 1 + 1
      /\ \A i \in 1..(n - 1 + 1) : SubSeq(p, 1, n)[i] = p[1 + i - 1]
    BY <1>1, PartIsSeq
<1> QED BY <1>2

\* What two paths go on with after the same beginning is the same.
LEMMA Cancel ==
    ASSUME NEW q \in Seq(Nibble), NEW r \in Seq(Nibble), NEW s \in Seq(Nibble),
           q \o r = q \o s
    PROVE  r = s
BY ConcatSimplifications

\* A path that starts with another one goes on with what is consumed after it.
LEMMA Rejoined ==
    ASSUME NEW p \in Seq(Nibble), NEW q \in Seq(Nibble), StartsWith(p, q)
    PROVE  Consume(p, Len(q)) \in Seq(Nibble) /\ p = q \o Consume(p, Len(q))
<1>1. /\ Len(p) \in Nat /\ Len(q) \in Nat /\ Len(q) <= Len(p)
      /\ SubSeq(q, 1, Len(q)) = SubSeq(p, 1, Len(q))
    BY LenProperties DEF StartsWith, IsPrefix
<1>2. SubSeq(q, 1, Len(q)) = q
    BY SubSeqFull
<1>3. \A i \in 1..Len(q) : SubSeq(p, 1, Len(q))[i] = p[i]
    BY <1>1, FirstNibbles
<1>4. \A i \in 1..Len(q) : p[i] = q[i]
    BY <1>1, <1>2, <1>3
<1> QED BY <1>1, <1>4, Consumed, Concatenated

\* A concatenation starts with its first part, and goes on with the second one.
LEMMA Joined ==
    ASSUME NEW q \in Seq(Nibble), NEW r \in Seq(Nibble)
    PROVE  /\ q \o r \in Seq(Nibble)
           /\ StartsWith(q \o r, q)
           /\ Consume(q \o r, Len(q)) = r
<1>1. Len(q) \in Nat /\ Len(r) \in Nat
    BY LenProperties
<1>2. /\ q \o r \in Seq(Nibble) /\ Len(q \o r) = Len(q) + Len(r)
      /\ \A i \in 1..Len(q) + Len(r) :
            (q \o r)[i] = IF i <= Len(q) THEN q[i] ELSE r[i - Len(q)]
    BY ConcatProperties, Zenon
<1>3. SubSeq(q, 1, Len(q)) = SubSeq(q \o r, 1, Len(q))
    <2>1. SubSeq(q, 1, Len(q)) = q
        BY SubSeqFull
    <2>2. /\ SubSeq(q \o r, 1, Len(q)) \in Seq(Nibble)
          /\ Len(SubSeq(q \o r, 1, Len(q))) = Len(q)
          /\ \A i \in 1..Len(q) : SubSeq(q \o r, 1, Len(q))[i] = (q \o r)[i]
        BY <1>1, <1>2, FirstNibbles
    <2>3. \A i \in 1..Len(q) : q[i] = SubSeq(q \o r, 1, Len(q))[i]
        BY <1>1, <1>2, <2>2
    <2>4. q = SubSeq(q \o r, 1, Len(q))
        BY <2>2, <2>3, SeqEqual, Zenon
    <2> QED BY <2>1, <2>4
<1>4. StartsWith(q \o r, q)
    BY <1>1, <1>2, <1>3 DEF StartsWith, IsPrefix
<1>5. /\ Consume(q \o r, Len(q)) \in Seq(Nibble)
      /\ q \o r = q \o Consume(q \o r, Len(q))
    BY <1>2, <1>4, Rejoined
<1>6. Consume(q \o r, Len(q)) = r
    BY <1>5, Cancel
<1> QED BY <1>2, <1>4, <1>6

\* A path is its first nibble and its tail.
LEMMA FirstAndRest ==
    ASSUME NEW p \in Seq(Nibble), p # <<>>
    PROVE  /\ Head(p) \in Nibble /\ Tail(p) \in Seq(Nibble) /\ <<Head(p)>> \in Seq(Nibble)
           /\ p = <<Head(p)>> \o Tail(p)
<1>1. /\ Head(p) \in Nibble /\ Tail(p) \in Seq(Nibble)
      /\ Len(Tail(p)) = Len(p) - 1
      /\ \A i \in 1..Len(Tail(p)) : Tail(p)[i] = p[i + 1]
    BY HeadTailProperties
<1>2. Len(p) \in Nat \ {0}
    BY EmptySeq
<1>3. <<Head(p)>> \in Seq(Nibble) /\ Len(<<Head(p)>>) = 1 /\ <<Head(p)>>[1] = Head(p)
    BY <1>1
<1>4. Head(p) = p[1]
    BY DEF Head
<1>5. \A i \in 1..Len(p) - 1 : Tail(p)[i] = p[1 + i]
    BY <1>1, <1>2
<1>6. \A i \in 1..Len(<<Head(p)>>) : p[i] = <<Head(p)>>[i]
    BY <1>3, <1>4
<1> HIDE DEF Head
<1>7. /\ Len(<<Head(p)>>) <= Len(p) /\ Len(Tail(p)) = Len(p) - Len(<<Head(p)>>)
      /\ \A i \in 1..Len(p) - Len(<<Head(p)>>) : Tail(p)[i] = p[Len(<<Head(p)>>) + i]
    BY <1>1, <1>2, <1>3, <1>5
<1> QED BY <1>1, <1>3, <1>6, <1>7, Concatenated

\* A nibble and a path are a path with that head and that tail.
LEMMA Prepended ==
    ASSUME NEW i \in Nibble, NEW s \in Seq(Nibble)
    PROVE  /\ <<i>> \in Seq(Nibble) /\ <<i>> \o s \in Seq(Nibble) /\ <<i>> \o s # <<>>
           /\ Head(<<i>> \o s) = i /\ Tail(<<i>> \o s) = s
<1>1. <<i>> \in Seq(Nibble) /\ Len(<<i>>) = 1 /\ <<i>>[1] = i /\ Len(s) \in Nat
    BY LenProperties
<1>2. /\ <<i>> \o s \in Seq(Nibble) /\ Len(<<i>> \o s) = 1 + Len(s)
      /\ \A j \in 1..1 + Len(s) :
            (<<i>> \o s)[j] = IF j <= 1 THEN <<i>>[j] ELSE s[j - 1]
    BY <1>1, ConcatProperties
<1>3. <<i>> \o s # <<>>
    BY <1>1, <1>2, EmptySeq
<1>4. (<<i>> \o s)[1] = i
    BY <1>1, <1>2
<1>5. Head(<<i>> \o s) = i
    BY <1>4 DEF Head
<1>6. /\ Tail(<<i>> \o s) \in Seq(Nibble)
      /\ <<i>> \o s = <<i>> \o Tail(<<i>> \o s)
    BY <1>2, <1>3, <1>5, FirstAndRest
<1>7. Tail(<<i>> \o s) = s
    BY <1>1, <1>6, Cancel
<1> QED BY <1>1, <1>2, <1>3, <1>5, <1>7

--------------------------------------------------------------------------------
(* The entries of a node, key by key.                                          *)

\* Three paths in a row.
LEMMA Associated ==
    ASSUME NEW p \in Seq(Nibble), NEW q \in Seq(Nibble), NEW r \in Seq(Nibble)
    PROVE  (p \o q) \o r = p \o (q \o r)
BY ConcatAssociative

\* Sets of entries are equal when they have the same pairs.
LEMMA SameEntries ==
    ASSUME NEW D \in EntrySets, NEW E \in EntrySets,
           \A k \in Seq(Nibble) : \A v \in Values : <<k, v>> \in D <=> <<k, v>> \in E
    PROVE  D = E
<1>1. \A e \in D \cup E : e \in Seq(Nibble) \X Values
    BY DEF EntrySets
<1>2. \A e \in D \cup E : e[1] \in Seq(Nibble) /\ e[2] \in Values /\ e = <<e[1], e[2]>>
    BY <1>1
<1>3. \A e : e \in D <=> e \in E
    <2>1. ASSUME NEW e \in D \cup E PROVE e \in D <=> e \in E
        <3>1. <<e[1], e[2]>> \in D <=> <<e[1], e[2]>> \in E
            BY <1>2, Zenon
        <3> QED BY <1>2, <3>1, Zenon
    <2> QED BY <2>1
<1> QED BY <1>3, Zenon

\* A key with a prefix is there when the rest of it is.
LEMMA PrefixedHas ==
    ASSUME NEW p \in Seq(Nibble), NEW E \in EntrySets, NEW s \in Seq(Nibble), NEW v
    PROVE  <<p \o s, v>> \in Prefixed(p, E) <=> <<s, v>> \in E
<1>1. ASSUME <<p \o s, v>> \in Prefixed(p, E) PROVE <<s, v>> \in E
    <2>1. PICK e \in E : <<p \o s, v>> = <<p \o e[1], e[2]>>
        BY <1>1 DEF Prefixed
    <2>2. e \in Seq(Nibble) \X Values
        BY DEF EntrySets
    <2>3. e[1] \in Seq(Nibble) /\ e = <<e[1], e[2]>>
        BY <2>2
    <2>4. e[1] = s /\ e[2] = v
        BY <2>1, <2>3, Cancel
    <2> QED BY <2>3, <2>4
<1>2. ASSUME <<s, v>> \in E PROVE <<p \o s, v>> \in Prefixed(p, E)
    <2>1. <<s, v>>[1] = s /\ <<s, v>>[2] = v
        OBVIOUS
    <2>2. \E e \in E : <<p \o s, v>> = <<p \o e[1], e[2]>>
        BY <1>2, <2>1
    <2> QED BY <2>2 DEF Prefixed
<1> QED BY <1>1, <1>2

\* A key that is there starts with the prefix.
LEMMA PrefixedStarts ==
    ASSUME NEW p \in Seq(Nibble), NEW E \in EntrySets, NEW k, NEW v
    PROVE  <<k, v>> \in Prefixed(p, E) <=>
              \E s \in Seq(Nibble) : k = p \o s /\ <<s, v>> \in E
<1>1. ASSUME <<k, v>> \in Prefixed(p, E)
      PROVE  \E s \in Seq(Nibble) : k = p \o s /\ <<s, v>> \in E
    <2>1. PICK e \in E : <<k, v>> = <<p \o e[1], e[2]>>
        BY <1>1 DEF Prefixed
    <2>2. e \in Seq(Nibble) \X Values
        BY DEF EntrySets
    <2>3. e[1] \in Seq(Nibble) /\ e = <<e[1], e[2]>>
        BY <2>2
    <2> QED BY <2>1, <2>3
<1>2. ASSUME NEW s \in Seq(Nibble), k = p \o s, <<s, v>> \in E
      PROVE  <<k, v>> \in Prefixed(p, E)
    BY <1>2, PrefixedHas
<1> QED BY <1>1, <1>2

\* The same, one way: what a key goes on with.
LEMMA PrefixedSplit ==
    ASSUME NEW p \in Seq(Nibble), NEW E \in EntrySets, NEW k, NEW v,
           <<k, v>> \in Prefixed(p, E)
    PROVE  \E s \in Seq(Nibble) : k = p \o s /\ <<s, v>> \in E
BY PrefixedStarts, Zenon

\* An extension has the keys that start with its path.
LEMMA ExtensionEntries ==
    ASSUME NEW n, n.kind = "extension", n.path \in Seq(Nibble), NEW g,
           g[n.next] \in EntrySets
    PROVE  /\ NodeEntries(g, n) = Prefixed(n.path, g[n.next])
           /\ \A s \in Seq(Nibble), v \in Values :
                 <<n.path \o s, v>> \in NodeEntries(g, n) <=> <<s, v>> \in g[n.next]
           /\ \A k \in Seq(Nibble), v \in Values :
                 <<k, v>> \in NodeEntries(g, n) <=>
                    StartsWith(k, n.path) /\ <<Consume(k, Len(n.path)), v>> \in g[n.next]
<1>1. NodeEntries(g, n) = Prefixed(n.path, g[n.next])
    BY DEF NodeEntries
<1>2. \A s \in Seq(Nibble), v \in Values :
         <<n.path \o s, v>> \in NodeEntries(g, n) <=> <<s, v>> \in g[n.next]
    <2>1. ASSUME NEW s \in Seq(Nibble), NEW v \in Values
          PROVE  <<n.path \o s, v>> \in Prefixed(n.path, g[n.next]) <=> <<s, v>> \in g[n.next]
        BY PrefixedHas, Zenon
    <2> QED BY <1>1, <2>1, Zenon
<1>3. ASSUME NEW k \in Seq(Nibble), NEW v \in Values
      PROVE  <<k, v>> \in NodeEntries(g, n) <=>
                StartsWith(k, n.path) /\ <<Consume(k, Len(n.path)), v>> \in g[n.next]
    <2>1. ASSUME StartsWith(k, n.path)
          PROVE  <<k, v>> \in NodeEntries(g, n) <=> <<Consume(k, Len(n.path)), v>> \in g[n.next]
        <3>1. Consume(k, Len(n.path)) \in Seq(Nibble) /\ k = n.path \o Consume(k, Len(n.path))
            BY <2>1, Rejoined
        <3> QED BY <1>2, <3>1
    <2>2. ASSUME <<k, v>> \in NodeEntries(g, n) PROVE StartsWith(k, n.path)
        <3>1. \E s \in Seq(Nibble) : k = n.path \o s /\ <<s, v>> \in g[n.next]
            <4>1. <<k, v>> \in Prefixed(n.path, g[n.next])
                BY <1>1, <2>2
            <4> QED BY <4>1, PrefixedStarts, Zenon
        <3> QED BY <3>1, Joined
    <2> QED BY <2>1, <2>2
<1> QED BY <1>1, <1>2, <1>3

\* A branch has its value, and what each child has.
LEMMA BranchEntries ==
    ASSUME NEW n, n.kind = "branch", NEW g,
           \A i \in Nibble : g[n.branches[i]] \in EntrySets
    PROVE  /\ \A v : <<<<>>, v>> \in NodeEntries(g, n) <=> v = n.value /\ v # NoValue
           /\ \A i \in Nibble, s \in Seq(Nibble), v \in Values :
                 <<<<i>> \o s, v>> \in NodeEntries(g, n) <=> <<s, v>> \in g[n.branches[i]]
           /\ \A k \in Seq(Nibble), v \in Values : k # <<>> =>
                 (<<k, v>> \in NodeEntries(g, n) <=> <<Tail(k), v>> \in g[n.branches[Head(k)]])
<1> DEFINE below == UNION {Prefixed(<<i>>, g[n.branches[i]]) : i \in Nibble}
           own == {<<<<>>, v>> : v \in {n.value} \ {NoValue}}
<1>1. NodeEntries(g, n) = below \cup own
    BY DEF NodeEntries
<1>2. \A k, v : <<k, v>> \in own <=> k = <<>> /\ v = n.value /\ v # NoValue
    OBVIOUS
<1>3. \A e : e \in below <=> \E i \in Nibble : e \in Prefixed(<<i>>, g[n.branches[i]])
    OBVIOUS
<1> HIDE DEF below, own
<1>4. ASSUME NEW k, NEW v
      PROVE  <<k, v>> \in below <=>
                \E i \in Nibble : \E s \in Seq(Nibble) :
                    k = <<i>> \o s /\ <<s, v>> \in g[n.branches[i]]
    <2>1. ASSUME NEW i \in Nibble
          PROVE  <<k, v>> \in Prefixed(<<i>>, g[n.branches[i]]) <=>
                    \E s \in Seq(Nibble) : k = <<i>> \o s /\ <<s, v>> \in g[n.branches[i]]
        <3>1. <<i>> \in Seq(Nibble)
            OBVIOUS
        <3> QED BY <3>1, PrefixedStarts, Zenon
    <2> QED BY <1>3, <2>1, Zenon
<1>5. ASSUME NEW v PROVE <<<<>>, v>> \in NodeEntries(g, n) <=> v = n.value /\ v # NoValue
    <2>1. \A i \in Nibble : \A s \in Seq(Nibble) : <<>> # <<i>> \o s
        BY Prepended
    <2>2. <<<<>>, v>> \notin below
        BY <1>4, <2>1
    <2> QED BY <1>1, <1>2, <2>2
<1>6. ASSUME NEW i \in Nibble, NEW s \in Seq(Nibble), NEW v \in Values
      PROVE  <<<<i>> \o s, v>> \in NodeEntries(g, n) <=> <<s, v>> \in g[n.branches[i]]
    <2>1. <<<<i>> \o s, v>> \notin own
        BY <1>2, Prepended
    <2>2. ASSUME NEW j \in Nibble, NEW t \in Seq(Nibble), <<i>> \o s = <<j>> \o t
          PROVE  i = j /\ s = t
        <3>1. Head(<<i>> \o s) = i /\ Tail(<<i>> \o s) = s
            BY Prepended, Zenon
        <3>2. Head(<<j>> \o t) = j /\ Tail(<<j>> \o t) = t
            BY Prepended, Zenon
        <3> QED BY <2>2, <3>1, <3>2, Zenon
    <2>3. <<<<i>> \o s, v>> \in below <=> <<s, v>> \in g[n.branches[i]]
        BY <1>4, <2>2
    <2> QED BY <1>1, <2>1, <2>3
<1>7. ASSUME NEW k \in Seq(Nibble), NEW v \in Values, k # <<>>
      PROVE  <<k, v>> \in NodeEntries(g, n) <=> <<Tail(k), v>> \in g[n.branches[Head(k)]]
    <2>1. Head(k) \in Nibble /\ Tail(k) \in Seq(Nibble) /\ k = <<Head(k)>> \o Tail(k)
        BY <1>7, FirstAndRest
    <2> QED BY <1>6, <2>1
<1> QED BY <1>5, <1>6, <1>7

\* A leaf has its path and its value.
LEMMA LeafEntries ==
    ASSUME NEW n, n.kind = "leaf", NEW g
    PROVE  \A k, v : <<k, v>> \in NodeEntries(g, n) <=> k = n.path /\ v = n.value
<1>1. NodeEntries(g, n) = {<<n.path, n.value>>}
    BY DEF NodeEntries
<1> QED BY <1>1

--------------------------------------------------------------------------------
(* A storage that only PutToStorage has written to.                            *)

\* A branch that is stored has a value or a child.
Inhabited(n) == n.kind = "branch" => n.value # NoValue \/ Children(n) # {}

\* Nodes are stored under their hashes, after those they refer to.
Sound(store) ==
    /\ Closed(store)
    /\ Ranked(store)
    /\ ContentAddressed(store)
    /\ \A h \in DOMAIN store : Inhabited(store[h])

\* What s has stored, t has too.
Within(s, t) == \A h \in DOMAIN s : h \in DOMAIN t /\ t[h] = s[h]

\* A storage that grows twice keeps what it had.
LEMMA WithinTransitive ==
    ASSUME NEW s, NEW t, NEW u, Within(s, t), Within(t, u)
    PROVE  Within(s, u)
BY DEF Within

\* A storage that is larger has the same nodes at the same references.
LEMMA WithinRefs ==
    ASSUME NEW s, NEW t, Within(s, t), Closed(s), NEW r \in Refs(s)
    PROVE  /\ r \in Refs(t)
           /\ r # EmptyRef => NodeAt(t, r) = NodeAt(s, r)
<1>1. DOMAIN s \subseteq DOMAIN t
    BY DEF Within
<1>2. r \in Refs(t)
    BY <1>1, TypesGrow
<1>3. r # EmptyRef => NodeAt(t, r) = NodeAt(s, r)
    BY NodeAtType DEF Within, NodeAt
<1> QED BY <1>2, <1>3

\* Its references have the same entries.
LEMMA WithinEntries ==
    ASSUME NEW s, NEW t, Within(s, t), Sound(s), Sound(t)
    PROVE  \A r \in Refs(s) : Entries(t)[r] = Entries(s)[r]
<1> DEFINE S == {r \in Refs(s) : Entries(t)[r] = Entries(s)[r]}
<1>1. Closed(s) /\ Ranked(s) /\ Closed(t) /\ Ranked(t)
    BY DEF Sound
<1>2. EmptyRef \in S
    BY <1>1, EntriesEquation DEF Refs
<1>3. ASSUME NEW r \in Refs(s), r # EmptyRef, RefsOf(NodeAt(s, r)) \subseteq S PROVE r \in S
    <2>1. r \in Refs(t) /\ NodeAt(t, r) = NodeAt(s, r)
        BY <1>1, <1>3, WithinRefs
    <2>2. Entries(t)[r] = NodeEntries(Entries(t), NodeAt(s, r))
        BY <1>1, <1>3, <2>1, EntriesEquation
    <2>3. Entries(s)[r] = NodeEntries(Entries(s), NodeAt(s, r))
        BY <1>1, <1>3, EntriesEquation
    <2>4. NodeAt(s, r) \in Nodes(s)
        BY <1>1, <1>3, NodeAtType
    <2>5. \A c \in RefsOf(NodeAt(s, r)) : Entries(t)[c] = Entries(s)[c]
        BY <1>3
    <2>6. NodeEntries(Entries(t), NodeAt(s, r)) = NodeEntries(Entries(s), NodeAt(s, r))
        BY <2>4, <2>5, NodeEntriesLocal
    <2> QED BY <2>2, <2>3, <2>6
<1>4. Refs(s) \subseteq S
    <2> HIDE DEF S
    <2> QED BY <1>1, <1>2, <1>3, RefInduction
<1> QED BY <1>4

\* A node that is stored ranks above those it refers to.
LEMMA PutRanked ==
    ASSUME NoCollisions, NEW store, Closed(store), Ranked(store), ContentAddressed(store),
           NEW n \in Nodes(store), ~Inlined(n)
    PROVE  Ranked(Put(store, n))
<1> DEFINE t == Put(store, n)
<1>1. t = [h \in DOMAIN store \cup {Hash(n)} |-> IF h = Hash(n) THEN n ELSE store[h]]
    BY DEF Put
<1>2. PICK N \in Nat : \E rank : RankedBy(store, N, rank)
    BY DEF Ranked
<1>3. PICK rank : RankedBy(store, N, rank)
    BY <1>2
<1>4. ASSUME NEW m \in Nodes(store), NEW r \in RefsOf(m), r.tag = "hash"
      PROVE  r.key \in DOMAIN store /\ rank[r.key] \in 0..N
    <2>1. r \in Refs(store)
        BY RefsOfType
    <2>2. r.key \in DOMAIN store
        BY <1>4, <2>1 DEF Refs, NodeRefs, EmptyRef
    <2> QED BY <1>3, <2>2 DEF RankedBy
<1>5. \A h \in DOMAIN store : store[h] \in Nodes(store) /\ rank[h] \in 0..N
    BY <1>3 DEF Closed, RankedBy
<1>6. CASE Hash(n) \in DOMAIN store
    <2>1. store[Hash(n)] = n
        BY <1>6 DEF ContentAddressed, NoCollisions
    <2>2. DOMAIN t = DOMAIN store /\ \A h \in DOMAIN store : t[h] = store[h]
        BY <1>1, <1>6, <2>1
    <2>3. RankedBy(t, N, rank)
        BY <1>3, <2>2 DEF RankedBy
    <2> QED BY <2>3 DEF Ranked
<1>7. CASE Hash(n) \notin DOMAIN store
    <2> DEFINE above == [h \in DOMAIN t |-> IF h = Hash(n) THEN N + 1 ELSE rank[h]]
    <2>1. /\ DOMAIN t = DOMAIN store \cup {Hash(n)} /\ t[Hash(n)] = n
          /\ \A h \in DOMAIN store : h # Hash(n) /\ t[h] = store[h]
        BY <1>1, <1>7
    <2> HIDE DEF t
    <2>2. above \in [DOMAIN t -> 0..(N + 1)]
        BY <1>5, <2>1
    <2>3. above[Hash(n)] = N + 1 /\ \A h \in DOMAIN store : above[h] = rank[h]
        BY <2>1
    <2> HIDE DEF above
    <2>4. ASSUME NEW h \in DOMAIN t, NEW r \in RefsOf(t[h]), r.tag = "hash"
          PROVE  above[r.key] < above[h]
        <3>1. CASE h = Hash(n)
            <4>1. r.key \in DOMAIN store /\ rank[r.key] \in 0..N
                BY <1>4, <2>1, <2>4, <3>1
            <4> QED BY <2>3, <3>1, <4>1
        <3>2. CASE h \in DOMAIN store
            <4>1. r.key \in DOMAIN store
                BY <1>4, <1>5, <2>1, <2>4, <3>2
            <4>2. rank[r.key] < rank[h]
                BY <1>3, <2>1, <2>4, <3>2 DEF RankedBy
            <4> QED BY <2>3, <3>2, <4>1, <4>2
        <3> QED BY <2>1, <3>1, <3>2
    <2>5. RankedBy(t, N + 1, above)
        BY <2>2, <2>4 DEF RankedBy
    <2>6. N + 1 \in Nat
        OBVIOUS
    <2> QED BY <2>5, <2>6, Zenon DEF Ranked, t
<1> QED BY <1>6, <1>7

\* PutToStorage keeps a storage sound and all that is in it; the reference it
\* makes refers to the node, and has its entries.
LEMMA PutSound ==
    ASSUME NoCollisions, NEW store, Sound(store), NEW n \in Nodes(store), Inhabited(n)
    PROVE  /\ Sound(Put(store, n))
           /\ Within(store, Put(store, n))
           /\ RefTo(n) \in NodeRefs(Put(store, n)) /\ RefTo(n) \in Refs(Put(store, n))
           /\ RefTo(n) # EmptyRef
           /\ NodeAt(Put(store, n), RefTo(n)) = n
           /\ Entries(Put(store, n))[RefTo(n)] = NodeEntries(Entries(store), n)
<1> DEFINE t == Put(store, n)
<1>1. Closed(store) /\ Ranked(store) /\ ContentAddressed(store)
    BY DEF Sound
<1>2. Closed(t) /\ RefTo(n) \in NodeRefs(t)
    BY <1>1, PutKeepsClosed
<1>3. RefTo(n) \in Refs(t) /\ RefTo(n) # EmptyRef
    BY <1>2, RefCases DEF Refs
<1>4. Sound(t) /\ Within(store, t) /\ NodeAt(t, RefTo(n)) = n
    <2>1. CASE Inlined(n)
        <3>1. t = store
            BY <2>1 DEF Put
        <3>2. NodeAt(t, RefTo(n)) = n
            BY <2>1 DEF NodeAt, RefTo
        <3>3. Within(store, store)
            BY DEF Within
        <3> QED BY <3>1, <3>2, <3>3
    <2>2. CASE ~Inlined(n)
        <3>1. t = [h \in DOMAIN store \cup {Hash(n)} |-> IF h = Hash(n) THEN n ELSE store[h]]
            BY <2>2 DEF Put
        <3>2. ContentAddressed(t)
            BY <1>1, <3>1 DEF ContentAddressed
        <3>3. Within(store, t)
            BY <1>1, <3>1 DEF Within, ContentAddressed, NoCollisions
        <3>4. \A h \in DOMAIN t : Inhabited(t[h])
            BY <3>1 DEF Sound
        <3>5. NodeAt(t, RefTo(n)) = n
            BY <2>2, <3>1 DEF NodeAt, RefTo
        <3>6. Ranked(t)
            BY <1>1, <2>2, PutRanked
        <3> HIDE DEF t
        <3> QED BY <1>2, <3>2, <3>3, <3>4, <3>5, <3>6 DEF Sound
    <2> QED BY <2>1, <2>2
<1> HIDE DEF t
<1>5. Closed(t) /\ Ranked(t)
    BY <1>4 DEF Sound
<1>6. Entries(t)[RefTo(n)] = NodeEntries(Entries(t), n)
    BY <1>3, <1>4, <1>5, EntriesEquation
<1>7. \A c \in RefsOf(n) : Entries(t)[c] = Entries(store)[c]
    BY <1>4, RefsOfType, WithinEntries
<1>8. NodeEntries(Entries(t), n) = NodeEntries(Entries(store), n)
    BY <1>7, NodeEntriesLocal
<1> QED BY <1>2, <1>3, <1>4, <1>6, <1>8 DEF t

--------------------------------------------------------------------------------
(* Where two paths part.                                                       *)

\* A set of numbers from 1 without gaps goes up to its size.
LEMMA WithoutGaps ==
    ASSUME NEW n \in Nat, NEW C \in SUBSET (1..n),
           \A x \in C : 1..x \subseteq C
    PROVE  Cardinality(C) \in Nat /\ C = 1..Cardinality(C)
<1>1. IsFiniteSet(C) /\ Cardinality(C) \in Nat
    BY UpToFinite, FS_Subset, FS_CardinalityType
<1>2. ASSUME NEW x \in C PROVE x \in 1..Cardinality(C)
    <2>1. x \in Nat /\ 1 <= x /\ 1..x \in SUBSET C
        OBVIOUS
    <2>2. Cardinality(1..x) = x
        BY <2>1, UpToFinite
    <2>3. Cardinality(1..x) <= Cardinality(C)
        BY <1>1, <2>1, FS_Subset
    <2> QED BY <1>1, <2>1, <2>2, <2>3
<1>3. C \in SUBSET (1..Cardinality(C))
    BY <1>2
<1>4. IsFiniteSet(1..Cardinality(C)) /\ Cardinality(1..Cardinality(C)) = Cardinality(C)
    BY <1>1, UpToFinite
<1>5. 1..Cardinality(C) = C
    BY <1>3, <1>4, FS_Subset
<1> QED BY <1>1, <1>5

\* The first n nibbles of p are a prefix of q when both agree on n nibbles.
LEMMA PrefixAgrees ==
    ASSUME NEW p \in Seq(Nibble), NEW q \in Seq(Nibble), NEW n \in Nat, n <= Len(p)
    PROVE  IsPrefix(SubSeq(p, 1, n), q) <=> n <= Len(q) /\ \A i \in 1..n : p[i] = q[i]
<1> DEFINE s == SubSeq(p, 1, n)
<1>1. s \in Seq(Nibble) /\ Len(s) = n /\ \A i \in 1..n : s[i] = p[i]
    BY FirstNibbles
<1>2. SubSeq(s, 1, n) = s
    BY <1>1, SubSeqFull
<1>3. n <= Len(q) =>
         /\ SubSeq(q, 1, n) \in Seq(Nibble) /\ Len(SubSeq(q, 1, n)) = n
         /\ \A i \in 1..n : SubSeq(q, 1, n)[i] = q[i]
    BY FirstNibbles
<1> HIDE DEF s
<1>4. ASSUME IsPrefix(s, q) PROVE n <= Len(q) /\ \A i \in 1..n : p[i] = q[i]
    <2>1. n <= Len(q) /\ s = SubSeq(q, 1, n)
        BY <1>1, <1>2, <1>4 DEF IsPrefix
    <2> QED BY <1>1, <1>3, <2>1
<1>5. ASSUME n <= Len(q), \A i \in 1..n : p[i] = q[i] PROVE IsPrefix(s, q)
    <2>1. s = SubSeq(q, 1, n)
        BY <1>1, <1>3, <1>5, SeqEqual
    <2> QED BY <1>1, <1>2, <1>5, <2>1 DEF IsPrefix
<1> QED BY <1>4, <1>5 DEF s

\* Two paths go on differently after their common prefix.
LEMMA PathsPart ==
    ASSUME NEW p \in Seq(Nibble), NEW q \in Seq(Nibble)
    PROVE  LET common == CommonPrefix(p, q)
               mine == Consume(p, Len(common))
               theirs == Consume(q, Len(common))
           IN  /\ common \in Seq(Nibble) /\ mine \in Seq(Nibble) /\ theirs \in Seq(Nibble)
               /\ p = common \o mine /\ q = common \o theirs
               /\ mine # <<>> /\ theirs # <<>> => Head(mine) # Head(theirs)
<1> DEFINE C == {i \in 1..Len(p) : IsPrefix(SubSeq(p, 1, i), q)}
           n == CommonLength(p, q)
           common == CommonPrefix(p, q)
           mine == Consume(p, Len(common))
           theirs == Consume(q, Len(common))
<1>1. Len(p) \in Nat /\ Len(q) \in Nat
    BY LenProperties
<1>2. \A i \in 1..Len(p) : i \in C <=> i <= Len(q) /\ \A j \in 1..i : p[j] = q[j]
    BY <1>1, PrefixAgrees
<1>3. C \in SUBSET (1..Len(p))
    OBVIOUS
<1> HIDE DEF C
<1>4. ASSUME NEW x \in C, NEW y \in 1..x PROVE y \in C
    <2>1. x \in 1..Len(p) /\ x <= Len(q) /\ \A j \in 1..x : p[j] = q[j]
        BY <1>2, <1>3
    <2>2. y \in 1..Len(p) /\ y <= Len(q) /\ \A j \in 1..y : p[j] = q[j]
        BY <1>1, <2>1
    <2> QED BY <1>2, <2>2
<1>5. Cardinality(C) \in Nat /\ C = 1..Cardinality(C)
    BY <1>1, <1>3, <1>4, WithoutGaps
<1>6. n \in Nat /\ C = 1..n
    BY <1>5 DEF CommonLength, C
<1>7. n \in 0..Len(p) /\ n \in 0..Len(q)
    BY CommonLengthBound
<1>8. \A i \in 1..n : p[i] = q[i]
    <2>1. n # 0 => n \in C /\ n \in 1..Len(p)
        BY <1>1, <1>6, <1>7
    <2> QED BY <1>1, <1>2, <1>6, <2>1
<1>9. ASSUME n < Len(p), n < Len(q) PROVE p[n + 1] # q[n + 1]
    <2>1. n + 1 \in 1..Len(p) /\ n + 1 <= Len(q) /\ n + 1 \notin C
        BY <1>1, <1>6, <1>9
    <2>2. ~ \A j \in 1..n + 1 : p[j] = q[j]
        BY <1>2, <2>1
    <2> QED BY <1>6, <1>8, <2>2
<1>10. /\ common \in Seq(Nibble) /\ Len(common) = n
       /\ \A i \in 1..n : common[i] = p[i]
    BY <1>6, <1>7, FirstNibbles DEF CommonPrefix
<1> HIDE DEF n, common
<1>11. /\ mine \in Seq(Nibble) /\ Len(mine) = Len(p) - n
       /\ \A i \in 1..Len(p) - n : mine[i] = p[n + i]
    BY <1>6, <1>7, <1>10, Consumed
<1>12. /\ theirs \in Seq(Nibble) /\ Len(theirs) = Len(q) - n
       /\ \A i \in 1..Len(q) - n : theirs[i] = q[n + i]
    BY <1>6, <1>7, <1>10, Consumed
<1> HIDE DEF mine, theirs
<1>13. p = common \o mine
    <2>1. /\ Len(common) <= Len(p) /\ Len(mine) = Len(p) - Len(common)
          /\ \A i \in 1..Len(common) : p[i] = common[i]
          /\ \A i \in 1..Len(p) - Len(common) : mine[i] = p[Len(common) + i]
        BY <1>1, <1>7, <1>10, <1>11
    <2> QED BY <1>10, <1>11, <2>1, Concatenated
<1>14. \A i \in 1..n : common[i] = q[i]
    BY <1>8, <1>10
<1>15. q = common \o theirs
    <2>1. /\ Len(common) <= Len(q) /\ Len(theirs) = Len(q) - Len(common)
          /\ \A i \in 1..Len(common) : q[i] = common[i]
          /\ \A i \in 1..Len(q) - Len(common) : theirs[i] = q[Len(common) + i]
        BY <1>1, <1>7, <1>10, <1>12, <1>14
    <2> QED BY <1>10, <1>12, <2>1, Concatenated
<1>16. ASSUME mine # <<>>, theirs # <<>> PROVE Head(mine) # Head(theirs)
    <2>1. Len(mine) # 0 /\ Len(theirs) # 0
        BY <1>11, <1>12, <1>16, EmptySeq
    <2>2. n < Len(p) /\ n < Len(q)
        BY <1>1, <1>6, <1>7, <1>11, <1>12, <2>1
    <2>3. mine[1] = p[n + 1] /\ theirs[1] = q[n + 1]
        <3>1. 1 \in 1..Len(p) - n /\ 1 \in 1..Len(q) - n
            BY <1>1, <1>6, <2>2
        <3> QED BY <1>11, <1>12, <3>1
    <2>4. mine[1] # theirs[1]
        BY <1>9, <2>2, <2>3
    <2> QED BY <2>4 DEF Head
<1> QED BY <1>10, <1>11, <1>12, <1>13, <1>15, <1>16 DEF common, mine, theirs

\* The path that does not start with the other goes on, if it does, elsewhere.
LEMMA PartedStarts ==
    ASSUME NEW common \in Seq(Nibble), NEW mine \in Seq(Nibble), NEW theirs \in Seq(Nibble)
    PROVE  StartsWith(common \o mine, common \o theirs) <=> StartsWith(mine, theirs)
<1>1. ASSUME StartsWith(common \o mine, common \o theirs) PROVE StartsWith(mine, theirs)
    <2> DEFINE s == Consume(common \o mine, Len(common \o theirs))
    <2>1. common \o mine \in Seq(Nibble) /\ common \o theirs \in Seq(Nibble)
        BY Joined
    <2>2. s \in Seq(Nibble) /\ common \o mine = (common \o theirs) \o s
        BY <1>1, <2>1, Rejoined
    <2> HIDE DEF s
    <2>3. (common \o theirs) \o s = common \o (theirs \o s)
        BY <2>2, Associated
    <2>4. theirs \o s \in Seq(Nibble) /\ StartsWith(theirs \o s, theirs)
        BY <2>2, Joined
    <2>5. mine = theirs \o s
        BY <2>2, <2>3, <2>4, Cancel
    <2> QED BY <2>4, <2>5
<1>2. ASSUME StartsWith(mine, theirs) PROVE StartsWith(common \o mine, common \o theirs)
    <2> DEFINE s == Consume(mine, Len(theirs))
    <2>1. s \in Seq(Nibble) /\ mine = theirs \o s
        BY <1>2, Rejoined
    <2> HIDE DEF s
    <2>2. common \o mine = (common \o theirs) \o s
        BY <2>1, Associated
    <2>3. common \o theirs \in Seq(Nibble)
        BY Joined
    <2> QED BY <2>1, <2>2, <2>3, Joined
<1> QED BY <1>1, <1>2

--------------------------------------------------------------------------------
(* What a set does to entries.                                                 *)

\* The entries of D without the key k, and with the value v for it.
Without(D, k) == {d \in D : d[1] # k}
Updated(D, k, v) == Without(D, k) \cup {<<k, v>>}

\* An update has the new value at its key, and leaves the others alone.
LEMMA UpdatedHas ==
    ASSUME NEW D \in EntrySets, NEW k \in Seq(Nibble), NEW v \in Values
    PROVE  /\ Updated(D, k, v) \in EntrySets /\ Without(D, k) \in EntrySets
           /\ \A j, w : <<j, w>> \in Without(D, k) <=> j # k /\ <<j, w>> \in D
           /\ \A j, w : <<j, w>> \in Updated(D, k, v) <=> IF j = k THEN w = v ELSE <<j, w>> \in D
<1>1. \A j, w : <<j, w>>[1] = j /\ <<j, w>>[2] = w
    OBVIOUS
<1>2. \A j, w : <<j, w>> \in Without(D, k) <=> j # k /\ <<j, w>> \in D
    BY <1>1 DEF Without
<1>3. \A j, w : <<j, w>> \in Updated(D, k, v) <=> IF j = k THEN w = v ELSE <<j, w>> \in D
    BY <1>2 DEF Updated
<1>4. Updated(D, k, v) \in EntrySets /\ Without(D, k) \in EntrySets
    BY DEF Updated, Without, EntrySets
<1> QED BY <1>2, <1>3, <1>4

\* The value changes behind an extension, for the key with its path in front.
LEMMA ExtensionUpdated ==
    ASSUME NEW p \in Seq(Nibble), NEW D \in EntrySets, NEW k \in Seq(Nibble), NEW v \in Values
    PROVE  Prefixed(p, Updated(D, k, v)) = Updated(Prefixed(p, D), p \o k, v)
<1> DEFINE L == Prefixed(p, Updated(D, k, v))
           R == Updated(Prefixed(p, D), p \o k, v)
<1>1. Updated(D, k, v) \in EntrySets /\ Prefixed(p, D) \in EntrySets /\ p \o k \in Seq(Nibble)
    BY UpdatedHas, PrefixedType, Joined
<1>2. L \in EntrySets /\ R \in EntrySets
    BY <1>1, UpdatedHas, PrefixedType
<1>3. ASSUME NEW j \in Seq(Nibble), NEW w \in Values
      PROVE  <<j, w>> \in L <=> <<j, w>> \in R
    <2>1. <<j, w>> \in R <=> IF j = p \o k THEN w = v ELSE <<j, w>> \in Prefixed(p, D)
        BY <1>1, UpdatedHas
    <2>2. CASE \E s \in Seq(Nibble) : j = p \o s
        <3>1. PICK s \in Seq(Nibble) : j = p \o s
            BY <2>2
        <3>2. <<j, w>> \in L <=> <<s, w>> \in Updated(D, k, v)
            BY <1>1, <3>1, PrefixedHas
        <3>3. <<j, w>> \in Prefixed(p, D) <=> <<s, w>> \in D
            BY <3>1, PrefixedHas
        <3>4. j = p \o k <=> s = k
            BY <3>1, Cancel
        <3> QED BY <2>1, <3>2, <3>3, <3>4, UpdatedHas
    <2>3. CASE ~ \E s \in Seq(Nibble) : j = p \o s
        <3>1. <<j, w>> \notin Prefixed(p, Updated(D, k, v))
            <4>1. SUFFICES ASSUME <<j, w>> \in Prefixed(p, Updated(D, k, v)) PROVE FALSE
                OBVIOUS
            <4> HIDE DEF L, R
            <4>2. \E s \in Seq(Nibble) : j = p \o s /\ <<s, w>> \in Updated(D, k, v)
                BY <1>1, <4>1, PrefixedSplit, Zenon
            <4> QED BY <2>3, <4>2
        <3>2. <<j, w>> \notin Prefixed(p, D)
            <4>1. SUFFICES ASSUME <<j, w>> \in Prefixed(p, D) PROVE FALSE
                OBVIOUS
            <4> HIDE DEF L, R
            <4>2. \E s \in Seq(Nibble) : j = p \o s /\ <<s, w>> \in D
                BY <4>1, PrefixedSplit, Zenon
            <4> QED BY <2>3, <4>2
        <3> QED BY <2>1, <2>3, <3>1, <3>2
    <2> QED BY <2>2, <2>3
<1> HIDE DEF L, R
<1>4. L = R
    BY <1>2, <1>3, SameEntries
<1> QED BY <1>4 DEF L, R

\* What a branch with another child holds.
LEMMA ChildReplaced ==
    ASSUME NEW store, NEW b \in Branches(store), NEW i \in Nibble, NEW r
    PROVE  /\ SetBranch(b, i, r).kind = "branch" /\ SetBranch(b, i, r).value = b.value
           /\ \A j \in Nibble :
                 SetBranch(b, i, r).branches[j] = IF j = i THEN r ELSE b.branches[j]
BY DEF SetBranch, Branches

\* The value changes below a branch, for the key with the nibble in front.
LEMMA BranchUpdated ==
    ASSUME NEW store, NEW b \in Branches(store), NEW i \in Nibble, NEW r, NEW g,
           \A j \in Nibble : g[b.branches[j]] \in EntrySets,
           NEW k \in Seq(Nibble), NEW v \in Values, NoValue \notin Values,
           g[r] = Updated(g[b.branches[i]], k, v),
           NodeEntries(g, b) \in EntrySets, NodeEntries(g, SetBranch(b, i, r)) \in EntrySets
    PROVE  NodeEntries(g, SetBranch(b, i, r)) = Updated(NodeEntries(g, b), <<i>> \o k, v)
<1> DEFINE n == SetBranch(b, i, r)
           L == NodeEntries(g, n)
           R == Updated(NodeEntries(g, b), <<i>> \o k, v)
<1>1. /\ n.kind = "branch" /\ n.value = b.value
      /\ \A j \in Nibble : n.branches[j] = IF j = i THEN r ELSE b.branches[j]
    BY ChildReplaced
<1>2. b.kind = "branch"
    BY DEF Branches
<1> HIDE DEF n
<1>3. g[r] \in EntrySets
    BY UpdatedHas
<1>4. \A j \in Nibble : g[n.branches[j]] \in EntrySets
    BY <1>1, <1>3
<1>5. /\ \A w : <<<<>>, w>> \in L <=> w = n.value /\ w # NoValue
      /\ \A j \in Nibble, s \in Seq(Nibble), w \in Values :
            <<<<j>> \o s, w>> \in L <=> <<s, w>> \in g[n.branches[j]]
    BY <1>1, <1>4, BranchEntries
<1>6. /\ \A w : <<<<>>, w>> \in NodeEntries(g, b) <=> w = b.value /\ w # NoValue
      /\ \A j \in Nibble, s \in Seq(Nibble), w \in Values :
            <<<<j>> \o s, w>> \in NodeEntries(g, b) <=> <<s, w>> \in g[b.branches[j]]
    BY <1>2, BranchEntries
<1>7. L \in EntrySets /\ NodeEntries(g, b) \in EntrySets /\ <<i>> \o k \in Seq(Nibble)
    BY Prepended DEF n
<1> HIDE DEF L
<1>8. \A j, w : <<j, w>> \in R <=> IF j = <<i>> \o k THEN w = v ELSE <<j, w>> \in NodeEntries(g, b)
    BY <1>7, UpdatedHas
<1>9. R \in EntrySets
    BY <1>7, UpdatedHas
<1> HIDE DEF R
<1>10. ASSUME NEW p \in Seq(Nibble), NEW w \in Values
       PROVE  <<p, w>> \in L <=> <<p, w>> \in R
    <2>1. CASE p = <<>>
        <3>1. p # <<i>> \o k
            BY <2>1, Prepended
        <3> QED BY <1>1, <1>5, <1>6, <1>8, <2>1, <3>1
    <2>2. CASE p # <<>>
        <3>1. PICK j \in Nibble, s \in Seq(Nibble) : p = <<j>> \o s
            BY <2>2, FirstAndRest
        <3>2. p = <<i>> \o k <=> j = i /\ s = k
            <4>1. Head(<<j>> \o s) = j /\ Tail(<<j>> \o s) = s
                BY Prepended, Zenon
            <4>2. Head(<<i>> \o k) = i /\ Tail(<<i>> \o k) = k
                BY Prepended, Zenon
            <4> QED BY <3>1, <4>1, <4>2, Zenon
        <3>3. <<p, w>> \in L <=> <<s, w>> \in g[n.branches[j]]
            BY <1>5, <3>1
        <3>4. <<p, w>> \in NodeEntries(g, b) <=> <<s, w>> \in g[b.branches[j]]
            BY <1>6, <3>1
        <3>5. <<s, w>> \in g[r] <=> IF s = k THEN w = v ELSE <<s, w>> \in g[b.branches[i]]
            BY UpdatedHas
        <3>6. n.branches[j] = IF j = i THEN r ELSE b.branches[j]
            BY <1>1
        <3> QED BY <1>8, <3>2, <3>3, <3>4, <3>5, <3>6
    <2> QED BY <2>1, <2>2
<1>11. L = R
    BY <1>7, <1>9, <1>10, SameEntries
<1> QED BY <1>11 DEF L, R, n

\* Two paths that part in a new branch: what it has below common.  X is what is
\* at the end of theirs, and B what the branch has.
LEMMA Parted ==
    ASSUME NEW common \in Seq(Nibble), NEW mine \in Seq(Nibble), NEW theirs \in Seq(Nibble),
           NEW v \in Values, NEW X \in EntrySets, NEW B \in EntrySets,
           \A s \in Seq(Nibble), w \in Values :
              <<s, w>> \in B <=> (s = mine /\ w = v) \/ <<s, w>> \in Prefixed(theirs, X),
           \A w \in Values : <<mine, w>> \notin Prefixed(theirs, X)
    PROVE  Prefixed(common, B) = Updated(Prefixed(common \o theirs, X), common \o mine, v)
<1> DEFINE T == Prefixed(theirs, X)
<1>1. T \in EntrySets
    BY PrefixedType
<1>2. common \o theirs \in Seq(Nibble)
    BY Joined
<1> HIDE DEF T
<1>3. Updated(T, mine, v) \in EntrySets
    BY <1>1, UpdatedHas
<1>4. ASSUME NEW s \in Seq(Nibble), NEW w \in Values
      PROVE  <<s, w>> \in B <=> <<s, w>> \in Updated(T, mine, v)
    <2>1. <<s, w>> \in Updated(T, mine, v) <=> IF s = mine THEN w = v ELSE <<s, w>> \in T
        BY <1>1, UpdatedHas
    <2> QED BY <2>1 DEF T
<1>5. B = Updated(T, mine, v)
    BY <1>3, <1>4, SameEntries
<1>6. Prefixed(common, B) = Updated(Prefixed(common, T), common \o mine, v)
    BY <1>1, <1>5, ExtensionUpdated
<1>7. Prefixed(common, T) \in EntrySets /\ Prefixed(common \o theirs, X) \in EntrySets
    BY <1>1, <1>2, PrefixedType
<1>8. ASSUME NEW k \in Seq(Nibble), NEW w \in Values
      PROVE  <<k, w>> \in Prefixed(common, T) <=> <<k, w>> \in Prefixed(common \o theirs, X)
    <2>1. ASSUME <<k, w>> \in Prefixed(common, T)
          PROVE  <<k, w>> \in Prefixed(common \o theirs, X)
        <3>1. PICK t \in Seq(Nibble) : k = common \o t /\ <<t, w>> \in T
            BY <1>1, <2>1, PrefixedSplit
        <3>2. PICK s \in Seq(Nibble) : t = theirs \o s /\ <<s, w>> \in X
            BY <3>1, PrefixedSplit DEF T
        <3>3. k = (common \o theirs) \o s
            <4>1. (common \o theirs) \o s = common \o (theirs \o s)
                BY Associated
            <4> QED BY <3>1, <3>2, <4>1, Zenon
        <3> QED BY <1>2, <3>2, <3>3, PrefixedHas
    <2>2. ASSUME <<k, w>> \in Prefixed(common \o theirs, X)
          PROVE  <<k, w>> \in Prefixed(common, T)
        <3>1. PICK s \in Seq(Nibble) : k = (common \o theirs) \o s /\ <<s, w>> \in X
            BY <1>2, <2>2, PrefixedSplit
        <3>2. k = common \o (theirs \o s) /\ theirs \o s \in Seq(Nibble)
            BY <3>1, Associated, Joined
        <3>3. <<theirs \o s, w>> \in T
            BY <3>1, PrefixedHas DEF T
        <3> QED BY <1>1, <3>2, <3>3, PrefixedHas
    <2> QED BY <2>1, <2>2
<1>9. Prefixed(common, T) = Prefixed(common \o theirs, X)
    BY <1>7, <1>8, SameEntries
<1> QED BY <1>6, <1>9

\* A reference that is not empty has entries: no chain of nodes ends in nothing.
LEMMA HasEntries ==
    ASSUME NEW store, Sound(store)
    PROVE  \A r \in Refs(store) : r # EmptyRef => Entries(store)[r] # {}
<1> DEFINE E == Entries(store)
           S == {r \in Refs(store) : r # EmptyRef => E[r] # {}}
<1>1. Closed(store) /\ Ranked(store) /\ \A h \in DOMAIN store : Inhabited(store[h])
    BY DEF Sound
<1>2. EmptyRef \in S
    BY DEF Refs
<1>3. ASSUME NEW r \in Refs(store), r # EmptyRef, RefsOf(NodeAt(store, r)) \subseteq S PROVE r \in S
    <2> DEFINE n == NodeAt(store, r)
    <2>1. n \in Nodes(store) /\ Inhabited(n)
        BY <1>1, <1>3, NodeAtType DEF Inhabited
    <2>2. E[r] = NodeEntries(E, n)
        BY <1>1, <1>3, EntriesEquation
    <2> HIDE DEF E
    <2>3. CASE n.kind = "leaf"
        <3>1. E[r] = {<<n.path, n.value>>}
            BY <2>2, <2>3 DEF NodeEntries
        <3> QED BY <1>3, <3>1
    <2>4. CASE n.kind = "extension"
        <3>1. n.next \in S /\ n.next # EmptyRef
            BY <1>3, <2>1, <2>4, NodeKinds, RefCases DEF RefsOf, Extensions, Refs
        <3>2. PICK e \in E[n.next] : TRUE
            BY <3>1
        <3>3. <<n.path \o e[1], e[2]>> \in E[r]
            BY <2>2, <2>4 DEF NodeEntries, Prefixed
        <3> QED BY <1>3, <3>3
    <2>5. CASE n.kind = "branch"
        <3> DEFINE below == UNION {Prefixed(<<i>>, E[n.branches[i]]) : i \in Nibble}
                   own == {<<<<>>, v>> : v \in {n.value} \ {NoValue}}
        <3>1. E[r] = below \cup own
            BY <2>2, <2>5 DEF NodeEntries
        <3>2. CASE n.value # NoValue
            <4>1. <<<<>>, n.value>> \in own
                BY <3>2
            <4> QED BY <1>3, <3>1, <4>1
        <3>3. CASE Children(n) # {}
            <4>1. PICK i \in Nibble : n.branches[i] # EmptyRef
                BY <3>3 DEF Children
            <4>2. n.branches[i] \in S
                BY <1>3, <2>5 DEF RefsOf
            <4>3. PICK e \in E[n.branches[i]] : TRUE
                BY <4>1, <4>2
            <4>4. <<<<i>> \o e[1], e[2]>> \in Prefixed(<<i>>, E[n.branches[i]])
                BY <4>3 DEF Prefixed
            <4>5. <<<<i>> \o e[1], e[2]>> \in below
                BY <4>4
            <4> HIDE DEF below, own
            <4> QED BY <1>3, <3>1, <4>5
        <3> QED BY <2>1, <2>5, <3>2, <3>3 DEF Inhabited
    <2> QED BY <2>1, <2>3, <2>4, <2>5, NodeKinds
<1>4. Refs(store) \subseteq S
    <2> HIDE DEF S
    <2> QED BY <1>1, <1>2, <1>3, RefInduction
<1> QED BY <1>4

--------------------------------------------------------------------------------
(* The way from the root to where a call is.                                   *)

\* What the frame of a waiting handler has consumed, and where it has gone on.
StepPath(f) == IF f.node.kind = "extension" THEN f.node.path ELSE <<f.idx>>
ChildRef(f) == IF f.node.kind = "extension" THEN f.node.next ELSE f.node.branches[f.idx]

\* The reference a handler of the stack, or the one above it, was applied to.
Slot(rt, stk, i) == IF i = 1 THEN rt ELSE ChildRef(stk[i - 1])

\* Every frame has the node at its reference; rest has what each handler got of
\* the key.
Trail(store, rt, stk, key, rest) ==
    /\ rest \in [1..Len(stk) + 1 -> Seq(Nibble)]
    /\ rest[1] = key
    /\ \A i \in 1..Len(stk) :
          /\ Slot(rt, stk, i) # EmptyRef
          /\ NodeAt(store, Slot(rt, stk, i)) = stk[i].node
          /\ rest[i] = StepPath(stk[i]) \o rest[i + 1]

\* A frame consumes a path, and goes on with a reference to the storage.
LEMMA FrameType ==
    ASSUME NEW store, NEW f \in Frames(store)
    PROVE  /\ f.node \in Nodes(store)
           /\ StepPath(f) \in Seq(Nibble)
           /\ ChildRef(f) \in Refs(store)
           /\ ChildRef(f) \in RefsOf(f.node)
<1>1. CASE f \in [node : Extensions(store)]
    BY <1>1 DEF StepPath, ChildRef, Extensions, Refs, Nodes, RefsOf
<1>2. CASE f \in [node : Branches(store), idx : Nibble]
    BY <1>2 DEF StepPath, ChildRef, Branches, Nodes, RefsOf
<1> QED BY <1>1, <1>2 DEF Frames

\* The entries of a node whose keys start with what its frame consumes are those
\* of the reference the frame goes on with.
LEMMA FrameEntries ==
    ASSUME NEW store, NEW f \in Frames(store), NEW g \in [Refs(store) -> EntrySets],
           NEW s \in Seq(Nibble), NEW v \in Values
    PROVE  <<StepPath(f) \o s, v>> \in NodeEntries(g, f.node) <=> <<s, v>> \in g[ChildRef(f)]
<1>1. CASE f \in [node : Extensions(store)]
    <2>1. /\ f.node.kind = "extension" /\ f.node.path \in Seq(Nibble)
          /\ f.node.next \in Refs(store)
        BY <1>1 DEF Extensions, Refs
    <2>2. g[f.node.next] \in EntrySets
        BY <2>1
    <2> QED BY <2>1, <2>2, ExtensionEntries DEF StepPath, ChildRef
<1>2. CASE f \in [node : Branches(store), idx : Nibble]
    <2>1. /\ f.node.kind = "branch" /\ f.idx \in Nibble
          /\ f.node.branches \in [Nibble -> Refs(store)]
        BY <1>2 DEF Branches
    <2>2. \A i \in Nibble : g[f.node.branches[i]] \in EntrySets
        BY <2>1
    <2> QED BY <2>1, <2>2, BranchEntries DEF StepPath, ChildRef
<1> QED BY <1>1, <1>2 DEF Frames

\* The references on the way are references to the storage.
LEMMA SlotType ==
    ASSUME NEW store, NEW rt \in Refs(store), NEW stk \in Seq(Frames(store)),
           NEW i \in 1..Len(stk) + 1
    PROVE  Slot(rt, stk, i) \in Refs(store)
<1>1. CASE i = 1
    BY <1>1 DEF Slot
<1>2. CASE i # 1
    <2>1. i - 1 \in 1..Len(stk)
        BY <1>2, LenProperties
    <2>2. stk[i - 1] \in Frames(store)
        BY <2>1, ElementOfSeq
    <2> QED BY <1>2, <2>2, FrameType DEF Slot
<1> QED BY <1>1, <1>2

\* More in the storage does not change the way.
LEMMA TrailWithin ==
    ASSUME NEW s, NEW t, Within(s, t), Closed(s), NEW rt \in Refs(s),
           NEW stk \in Seq(Frames(s)), NEW key, NEW rest, Trail(s, rt, stk, key, rest)
    PROVE  Trail(t, rt, stk, key, rest)
<1>1. ASSUME NEW i \in 1..Len(stk)
      PROVE  NodeAt(t, Slot(rt, stk, i)) = NodeAt(s, Slot(rt, stk, i))
    <2>1. i \in 1..Len(stk) + 1
        BY LenProperties
    <2>2. Slot(rt, stk, i) \in Refs(s)
        BY <2>1, SlotType
    <2>3. Slot(rt, stk, i) # EmptyRef
        BY DEF Trail
    <2> QED BY <2>2, <2>3, WithinRefs
<1> QED BY <1>1 DEF Trail

\* A call that has only begun is at the root.
LEMMA TrailStarts ==
    ASSUME NEW store, NEW rt, NEW key \in Seq(Nibble)
    PROVE  \E rest : /\ Trail(store, rt, <<>>, key, rest)
                     /\ rest[Len(<<>>) + 1] = key
                     /\ Slot(rt, <<>>, Len(<<>>) + 1) = rt
<1> DEFINE rest == [i \in 1..1 |-> key]
<1>1. Len(<<>>) = 0
    OBVIOUS
<1>2. rest \in [1..Len(<<>>) + 1 -> Seq(Nibble)] /\ rest[1] = key
    BY <1>1
<1> HIDE DEF rest
<1>3. Trail(store, rt, <<>>, key, rest)
    BY <1>1, <1>2 DEF Trail
<1>4. rest[Len(<<>>) + 1] = key /\ Slot(rt, <<>>, Len(<<>>) + 1) = rt
    BY <1>1, <1>2 DEF Slot
<1> QED BY <1>3, <1>4

\* A handler calls the next one: the way is longer by its frame.
LEMMA TrailGrows ==
    ASSUME NEW store, NEW rt, NEW stk \in Seq(Frames(store)), NEW key, NEW rest,
           Trail(store, rt, stk, key, rest), NEW f \in Frames(store),
           Slot(rt, stk, Len(stk) + 1) # EmptyRef,
           NodeAt(store, Slot(rt, stk, Len(stk) + 1)) = f.node,
           NEW p \in Seq(Nibble), rest[Len(stk) + 1] = StepPath(f) \o p
    PROVE  \E more : /\ Trail(store, rt, Append(stk, f), key, more)
                     /\ more[Len(Append(stk, f)) + 1] = p
                     /\ Slot(rt, Append(stk, f), Len(Append(stk, f)) + 1) = ChildRef(f)
<1> DEFINE n == Len(stk)
           new == Append(stk, f)
           more == [i \in 1..n + 2 |-> IF i = n + 2 THEN p ELSE rest[i]]
<1>1. n \in Nat /\ rest \in [1..n + 1 -> Seq(Nibble)] /\ rest[1] = key
    BY LenProperties DEF Trail
<1>2. /\ new \in Seq(Frames(store)) /\ Len(new) = n + 1
      /\ new[n + 1] = f /\ \A i \in 1..n : new[i] = stk[i]
    BY <1>1, AppendProperties
<1>3. /\ more \in [1..n + 2 -> Seq(Nibble)] /\ more[n + 2] = p
      /\ \A i \in 1..n + 1 : more[i] = rest[i]
    BY <1>1
<1>4. \A i \in 1..n + 1 : Slot(rt, new, i) = Slot(rt, stk, i)
    <2>1. \A i \in 1..n + 1 : i # 1 => i - 1 \in 1..n
        BY <1>1
    <2> QED BY <1>2, <2>1 DEF Slot
<1>5. Slot(rt, new, n + 2) = ChildRef(f)
    BY <1>1, <1>2 DEF Slot
<1> HIDE DEF n, new, more
<1>6. ASSUME NEW i \in 1..n + 1
      PROVE  /\ Slot(rt, new, i) # EmptyRef
             /\ NodeAt(store, Slot(rt, new, i)) = new[i].node
             /\ more[i] = StepPath(new[i]) \o more[i + 1]
    <2>1. CASE i = n + 1
        <3>1. i + 1 = n + 2
            BY <1>1, <2>1
        <3> QED BY <1>2, <1>3, <1>4, <2>1, <3>1 DEF n
    <2>2. CASE i # n + 1
        <3>1. i \in 1..n /\ i + 1 \in 1..n + 1
            BY <1>1, <2>2
        <3> QED BY <1>2, <1>3, <1>4, <3>1 DEF Trail, n
    <2> QED BY <2>1, <2>2
<1>7. Trail(store, rt, new, key, more)
    <2>1. 1 \in 1..n + 1 /\ n + 1 + 1 = n + 2
        BY <1>1
    <2> QED BY <1>1, <1>2, <1>3, <1>6, <2>1 DEF Trail
<1>8. Len(new) + 1 = n + 2
    BY <1>1, <1>2
<1> QED BY <1>3, <1>5, <1>7, <1>8 DEF new

\* The stack below its top.
LEMMA FrontProperties ==
    ASSUME NEW T, NEW stk \in Seq(T), stk # <<>>
    PROVE  /\ Len(stk) \in Nat \ {0}
           /\ Front(stk) \in Seq(T) /\ Len(Front(stk)) = Len(stk) - 1
           /\ \A i \in 1..Len(stk) - 1 : Front(stk)[i] = stk[i]
           /\ Last(stk) = stk[Len(stk)] /\ Last(stk) \in T
<1>1. Len(stk) \in Nat \ {0}
    BY EmptySeq
<1>2. 1 \in Nat \ {0} /\ Len(stk) - 1 \in Int /\ Len(stk) - 1 <= Len(stk)
    BY <1>1
<1>3. /\ Front(stk) \in Seq(T)
      /\ Len(Front(stk)) = IF Len(stk) - 1 < 1 THEN 0 ELSE Len(stk) - 1 - 1 + 1
      /\ \A i \in 1..(Len(stk) - 1 - 1 + 1) : Front(stk)[i] = stk[1 + i - 1]
    BY <1>2, PartIsSeq DEF Front
<1>4. \A i \in 1..Len(stk) - 1 : Front(stk)[i] = stk[i]
    BY <1>1, <1>3
<1>5. Len(Front(stk)) = Len(stk) - 1
    <2>1. ASSUME NEW n \in Nat \ {0} PROVE (IF n - 1 < 1 THEN 0 ELSE n - 1 - 1 + 1) = n - 1
        OBVIOUS
    <2> QED BY <1>1, <1>3, <2>1, Zenon
<1>6. Last(stk) = stk[Len(stk)] /\ Last(stk) \in T
    BY <1>1, ElementOfSeq DEF Last
<1> QED BY <1>1, <1>3, <1>4, <1>5, <1>6

\* What the lowest n handlers got of the key.
Lowest(rest, n) == [i \in 1..n |-> rest[i]]

\* A handler returns to the one below it: the way is shorter by that frame.
LEMMA TrailShrinks ==
    ASSUME NEW store, NEW rt, NEW stk \in Seq(Frames(store)), stk # <<>>, NEW key, NEW rest,
           Trail(store, rt, stk, key, rest)
    PROVE  /\ Slot(rt, Front(stk), Len(Front(stk)) + 1) # EmptyRef
           /\ NodeAt(store, Slot(rt, Front(stk), Len(Front(stk)) + 1)) = Last(stk).node
           /\ Trail(store, rt, Front(stk), key, Lowest(rest, Len(stk)))
           /\ Lowest(rest, Len(stk))[Len(Front(stk)) + 1]
                = StepPath(Last(stk)) \o rest[Len(stk) + 1]
<1> DEFINE n == Len(stk)
           less == Lowest(rest, n)
           f == Last(stk)
           front == Front(stk)
<1>1. /\ n \in Nat \ {0} /\ front \in Seq(Frames(store)) /\ Len(front) = n - 1
      /\ \A i \in 1..n - 1 : front[i] = stk[i]
      /\ f = stk[n] /\ f \in Frames(store)
    BY FrontProperties
<1>2. /\ rest \in [1..n + 1 -> Seq(Nibble)] /\ rest[1] = key
      /\ \A i \in 1..n : /\ Slot(rt, stk, i) # EmptyRef
                         /\ NodeAt(store, Slot(rt, stk, i)) = stk[i].node
                         /\ rest[i] = StepPath(stk[i]) \o rest[i + 1]
    BY DEF Trail
<1>3. less \in [1..n -> Seq(Nibble)] /\ \A i \in 1..n : less[i] = rest[i]
    BY <1>1, <1>2 DEF Lowest
<1>4. \A i \in 1..n : Slot(rt, front, i) = Slot(rt, stk, i)
    <2>1. \A i \in 1..n : i # 1 => i - 1 \in 1..n - 1
        BY <1>1
    <2> QED BY <1>1, <2>1 DEF Slot
<1> HIDE DEF n, less, f, front
<1>6. n \in 1..n /\ n + 1 \in 1..n + 1 /\ 1 \in 1..n /\ Len(front) + 1 = n
    BY <1>1
<1>7. Slot(rt, front, n) # EmptyRef /\ NodeAt(store, Slot(rt, front, n)) = f.node
    BY <1>1, <1>2, <1>4, <1>6
<1>8. less[n] = StepPath(f) \o rest[n + 1]
    BY <1>1, <1>2, <1>3, <1>6
<1>9. ASSUME NEW i \in 1..n - 1
      PROVE  /\ Slot(rt, front, i) # EmptyRef
             /\ NodeAt(store, Slot(rt, front, i)) = front[i].node
             /\ less[i] = StepPath(front[i]) \o less[i + 1]
    <2>1. i \in 1..n /\ i + 1 \in 1..n
        BY <1>1
    <2> QED BY <1>1, <1>2, <1>3, <1>4, <2>1
<1>10. Trail(store, rt, front, key, less)
    BY <1>1, <1>2, <1>3, <1>6, <1>9 DEF Trail
<1> QED BY <1>6, <1>7, <1>8, <1>10 DEF n, less, f, front

--------------------------------------------------------------------------------
(* The inductive invariant of a call.                                          *)

\* D has the entries of C whose keys start with q, which is what has been
\* consumed of the key.
Leads(C, D, key, q, p) ==
    /\ q \in Seq(Nibble) /\ key = q \o p
    /\ \A s \in Seq(Nibble), v \in Values : <<q \o s, v>> \in C <=> <<s, v>> \in D

\* What the result of a handler says of the entries D it was applied to, when k
\* is what it got of the key: set has given it a value; remove has deleted it at
\* most, and kept every other one unless it worked with an uninitialised index.
Answers(op, value, clean, store, res, D, k) ==
    IF op = "set" THEN Entries(store)[res.ref] = Updated(D, k, value)
    ELSE IF res.action = "deleted" THEN \A e \in D : e[1] = k
    ELSE /\ Entries(store)[res.ref] \subseteq D
         /\ clean => Without(D, k) \subseteq Entries(store)[res.ref]
         /\ res.action = "useless" => NodeAt(store, res.ref).kind # "branch"

Clean == ~ReadsIndeterminate(call.key)

\* The reference the running handler, or the one that has returned, works on.
Here == Slot(root, stack, Len(stack) + 1)

\* Between two steps of a call: the way that leads to where it is, and what the
\* handler that has returned says of the entries there.
Visits ==
    pc = "node" =>
        /\ \E q : Leads(Contents, Entries(nodes)[ref], call.key, q, path)
        /\ call.op # "get" =>
              \E rest : /\ Trail(nodes, root, stack, call.key, rest)
                        /\ rest[Len(stack) + 1] = path
                        /\ Here = ref

Returns ==
    pc = "return" =>
        /\ call.op = "remove" => Here # EmptyRef
        /\ \E rest : /\ Trail(nodes, root, stack, call.key, rest)
                     /\ Answers(call.op, call.value, Clean, nodes, ret,
                                Entries(nodes)[Here], rest[Len(stack) + 1])

KeysInUse ==
    /\ \A e \in Contents : e[1] \in Keys
    /\ pc \in {"node", "return"} => call.key \in Keys

CallInv ==
    /\ Sound(nodes)
    /\ KeysInUse
    /\ pc \in {"idle", "done"} => stack = <<>>
    /\ Visits
    /\ Returns
    /\ GetReadsContents

--------------------------------------------------------------------------------
(* The ways a handler ends.                                                    *)

\* Entries of references are sets of keys and values.
LEMMA EntriesType ==
    ASSUME NEW store, Sound(store)
    PROVE  /\ Entries(store) \in [Refs(store) -> EntrySets]
           /\ Entries(store)[EmptyRef] = {}
           /\ \A r \in Refs(store) : Entries(store)[r] \in EntrySets
           /\ \A r \in Refs(store) : r # EmptyRef =>
                 Entries(store)[r] = NodeEntries(Entries(store), NodeAt(store, r))
<1>1. Closed(store) /\ Ranked(store)
    BY DEF Sound
<1>2. /\ Entries(store) \in [Refs(store) -> EntrySets]
      /\ Entries(store)[EmptyRef] = {}
      /\ \A r \in Refs(store) \ {EmptyRef} :
            Entries(store)[r] = NodeEntries(Entries(store), NodeAt(store, r))
    BY <1>1, EntriesEquation
<1> QED BY <1>2

\* What the trie contains stays as long as root_ does.
LEMMA ContentsStay ==
    ASSUME IInv, Sound(nodes), Sound(nodes'), Within(nodes, nodes'), root' = root
    PROVE  /\ Contents' = Contents /\ Contents \in EntrySets
           /\ \A k : ReadsIndeterminate(k)' = ReadsIndeterminate(k)
<1>1. root \in Refs(nodes)
    BY DEF IInv, TypeOK
<1>2. Contents' = Contents
    BY <1>1, WithinEntries DEF Contents
<1>3. Contents \in EntrySets
    BY <1>1, EntriesType DEF Contents
<1> HIDE DEF Contents
<1>4. ASSUME NEW k PROVE ReadsIndeterminate(k)' = ReadsIndeterminate(k)
    BY <1>2 DEF ReadsIndeterminate, Present
<1> QED BY <1>2, <1>3, <1>4

\* A handler calls GetNode, SetNode or DeleteNode on what its node refers to.
LEMMA DescentKeepsCallInv ==
    ASSUME IInv, CallInv, pc = "node", ref # EmptyRef,
           NEW f \in Frames(nodes), Fetch(ref) = f.node,
           NEW p \in Seq(Nibble), path = StepPath(f) \o p, Visit(ChildRef(f), p),
           call.op # "get" => stack' = Append(stack, f)
    PROVE  CallInv'
<1>1. /\ nodes' = nodes /\ root' = root /\ ref' = ChildRef(f) /\ path' = p
      /\ pc' = "node" /\ call' = call
    BY DEF Visit
<1>2. Sound(nodes) /\ Contents' = Contents
    BY <1>1 DEF CallInv, Contents
<1>3. /\ ref \in Refs(nodes) /\ root \in Refs(nodes) /\ stack \in Seq(Frames(nodes))
      /\ NodeAt(nodes, ref) = f.node
    BY DEF IInv, TypeOK, Fetch
<1>4. /\ Entries(nodes) \in [Refs(nodes) -> EntrySets]
      /\ Entries(nodes)[ref] = NodeEntries(Entries(nodes), f.node)
    BY <1>2, <1>3, EntriesType
<1>5. StepPath(f) \in Seq(Nibble)
    BY FrameType
<1>6. \E q : Leads(Contents, Entries(nodes)[ChildRef(f)], call.key, q, p)
    <2>1. PICK q : Leads(Contents, Entries(nodes)[ref], call.key, q, path)
        BY DEF CallInv, Visits
    <2>2. q \in Seq(Nibble) /\ call.key = q \o (StepPath(f) \o p)
        BY <2>1 DEF Leads
    <2>3. q \o StepPath(f) \in Seq(Nibble)
        BY <1>5, <2>2, Joined
    <2>4. call.key = (q \o StepPath(f)) \o p
        BY <1>5, <2>2, Associated
    <2>5. ASSUME NEW s \in Seq(Nibble), NEW v \in Values
          PROVE  <<(q \o StepPath(f)) \o s, v>> \in Contents <=>
                    <<s, v>> \in Entries(nodes)[ChildRef(f)]
        <3>1. (q \o StepPath(f)) \o s = q \o (StepPath(f) \o s)
            BY <1>5, <2>2, Associated
        <3>2. StepPath(f) \o s \in Seq(Nibble)
            BY <1>5, Joined
        <3>3. <<q \o (StepPath(f) \o s), v>> \in Contents <=>
                 <<StepPath(f) \o s, v>> \in NodeEntries(Entries(nodes), f.node)
            BY <1>4, <2>1, <3>2 DEF Leads
        <3>4. <<StepPath(f) \o s, v>> \in NodeEntries(Entries(nodes), f.node) <=>
                 <<s, v>> \in Entries(nodes)[ChildRef(f)]
            BY <1>4, FrameEntries
        <3> QED BY <3>1, <3>3, <3>4
    <2>6. Leads(Contents, Entries(nodes)[ChildRef(f)], call.key, q \o StepPath(f), p)
        BY <2>3, <2>4, <2>5 DEF Leads
    <2> QED BY <2>6
<1>7. ASSUME call.op # "get"
      PROVE  \E rest : /\ Trail(nodes, root, stack', call.key, rest)
                       /\ rest[Len(stack') + 1] = p
                       /\ Slot(root, stack', Len(stack') + 1) = ChildRef(f)
    <2>1. PICK rest : /\ Trail(nodes, root, stack, call.key, rest)
                      /\ rest[Len(stack) + 1] = path
                      /\ Here = ref
        BY <1>7 DEF CallInv, Visits
    <2>2. stack' = Append(stack, f)
        BY <1>7
    <2>3. /\ Slot(root, stack, Len(stack) + 1) # EmptyRef
          /\ NodeAt(nodes, Slot(root, stack, Len(stack) + 1)) = f.node
          /\ rest[Len(stack) + 1] = StepPath(f) \o p
        BY <1>3, <2>1 DEF Here
    <2>4. \E more : /\ Trail(nodes, root, Append(stack, f), call.key, more)
                    /\ more[Len(Append(stack, f)) + 1] = p
                    /\ Slot(root, Append(stack, f), Len(Append(stack, f)) + 1) = ChildRef(f)
        BY <1>3, <2>1, <2>3, TrailGrows
    <2> QED BY <2>2, <2>4, Zenon
<1>8. Visits'
    BY <1>1, <1>2, <1>6, <1>7 DEF Visits, Here
<1> QED BY <1>1, <1>2, <1>8 DEF CallInv, Returns, KeysInUse, GetReadsContents

\* A handler returns: the way is shorter, and the storage has more in it.
LEMMA ReturnKeepsCallInv ==
    ASSUME IInv, CallInv, Sound(nodes'), Within(nodes, nodes'),
           root' = root, call' = call, pc' = "return", call.key \in Keys,
           stack' \in Seq(Frames(nodes)),
           NEW slot, slot = Slot(root, stack', Len(stack') + 1),
           call.op = "remove" => slot # EmptyRef,
           NEW rest, Trail(nodes, root, stack', call.key, rest),
           Answers(call.op, call.value, Clean, nodes', ret',
                   Entries(nodes)[slot], rest[Len(stack') + 1])
    PROVE  CallInv'
<1>1. Sound(nodes) /\ Closed(nodes) /\ root \in Refs(nodes)
    BY DEF CallInv, Sound, IInv, TypeOK
<1>2. Contents' = Contents /\ Clean' = Clean
    BY <1>1, ContentsStay DEF Clean
<1>3. slot \in Refs(nodes)
    BY <1>1, SlotType, LenProperties
<1>4. Entries(nodes')[slot] = Entries(nodes)[slot]
    BY <1>1, <1>3, WithinEntries
<1>5. Trail(nodes', root, stack', call.key, rest)
    BY <1>1, TrailWithin
<1>6. Returns'
    BY <1>2, <1>4, <1>5 DEF Returns, Here
<1> QED BY <1>2, <1>6 DEF CallInv, Visits, KeysInUse, GetReadsContents

\* The handler of a node returns to the one below it.
LEMMA AnswerKeepsCallInv ==
    ASSUME IInv, CallInv, pc = "node", call.op # "get",
           call.op = "remove" => ref # EmptyRef,
           Sound(nodes'), Within(nodes, nodes'),
           root' = root, call' = call, pc' = "return", stack' = stack,
           Answers(call.op, call.value, Clean, nodes', ret', Entries(nodes)[ref], path)
    PROVE  CallInv'
<1>1. PICK rest : /\ Trail(nodes, root, stack, call.key, rest)
                  /\ rest[Len(stack) + 1] = path
                  /\ Here = ref
    BY DEF CallInv, Visits
<1>2. stack \in Seq(Frames(nodes)) /\ call.key \in Keys
    BY DEF IInv, TypeOK, CallInv, KeysInUse
<1>3. ref = Slot(root, stack', Len(stack') + 1)
    BY <1>1 DEF Here
<1> QED BY <1>1, <1>2, <1>3, ReturnKeepsCallInv

\* The handler at the top of the stack returns in turn.
LEMMA AnswerAboveKeepsCallInv ==
    ASSUME IInv, CallInv, pc = "return", stack # <<>>, stack' = Front(stack),
           Sound(nodes'), Within(nodes, nodes'),
           root' = root, call' = call, pc' = "return",
           \A k \in Seq(Nibble) :
              /\ call.op = "remove" => ChildRef(Last(stack)) # EmptyRef
              /\ Answers(call.op, call.value, Clean, nodes, ret,
                         Entries(nodes)[ChildRef(Last(stack))], k)
              => Answers(call.op, call.value, Clean, nodes', ret',
                         NodeEntries(Entries(nodes), Last(stack).node),
                         StepPath(Last(stack)) \o k)
    PROVE  CallInv'
<1> DEFINE f == Last(stack)
           slot == Slot(root, stack', Len(stack') + 1)
<1>1. PICK rest : /\ Trail(nodes, root, stack, call.key, rest)
                  /\ Answers(call.op, call.value, Clean, nodes, ret,
                             Entries(nodes)[Here], rest[Len(stack) + 1])
    BY DEF CallInv, Returns
<1> DEFINE less == Lowest(rest, Len(stack))
<1>2. /\ stack \in Seq(Frames(nodes)) /\ call.key \in Keys /\ Sound(nodes)
      /\ root \in Refs(nodes)
    BY DEF IInv, TypeOK, CallInv, KeysInUse
<1>3. /\ f \in Frames(nodes) /\ stack' \in Seq(Frames(nodes))
      /\ slot # EmptyRef /\ NodeAt(nodes, slot) = f.node
      /\ Here = ChildRef(f)
      /\ rest[Len(stack) + 1] \in Seq(Nibble)
      /\ Trail(nodes, root, stack', call.key, less)
      /\ less[Len(stack') + 1] = StepPath(f) \o rest[Len(stack) + 1]
    <2> HIDE DEF f, slot
    <2>1. f = Last(stack) /\ slot = Slot(root, stack', Len(stack') + 1)
        BY DEF f, slot
    <2>2. f \in Frames(nodes) /\ stack' \in Seq(Frames(nodes)) /\ Len(stack) \in Nat \ {0}
        BY <1>2, <2>1, FrontProperties
    <2>3. slot # EmptyRef /\ NodeAt(nodes, slot) = f.node
        BY <1>1, <1>2, <2>1, TrailShrinks
    <2>4. Here = ChildRef(f) /\ rest[Len(stack) + 1] \in Seq(Nibble)
        <3>1. Len(stack) + 1 # 1 /\ Len(stack) + 1 - 1 = Len(stack)
            BY <2>2
        <3>2. Here = ChildRef(f)
            BY <2>1, <3>1 DEF Here, Slot, Last
        <3>3. Len(stack) + 1 \in 1..Len(stack) + 1
            BY <2>2
        <3> QED BY <1>1, <3>2, <3>3 DEF Trail
    <2>5. /\ Trail(nodes, root, stack', call.key, less)
          /\ less[Len(stack') + 1] = StepPath(f) \o rest[Len(stack) + 1]
        <3>1. /\ Trail(nodes, root, Front(stack), call.key, less)
              /\ less[Len(Front(stack)) + 1] = StepPath(Last(stack)) \o rest[Len(stack) + 1]
            BY <1>1, <1>2, TrailShrinks
        <3> HIDE DEF less
        <3> QED BY <2>1, <3>1
    <2> QED BY <2>2, <2>3, <2>4, <2>5
<1>5. call.op = "remove" => ChildRef(f) # EmptyRef
    BY <1>3 DEF CallInv, Returns
<1>6. slot \in Refs(nodes)
    BY <1>2, <1>3, SlotType, LenProperties
<1>7. Entries(nodes)[slot] = NodeEntries(Entries(nodes), f.node)
    BY <1>2, <1>3, <1>6, EntriesType
<1>8. Answers(call.op, call.value, Clean, nodes', ret',
              Entries(nodes)[slot], less[Len(stack') + 1])
    BY <1>1, <1>3, <1>5, <1>7
<1> HIDE DEF f
<1> QED BY <1>2, <1>3, <1>8, ReturnKeepsCallInv

\* The public method ends with the root r.
LEMMA FinishKeepsCallInv ==
    ASSUME IInv, CallInv, NEW r, NEW o, Finish(r, o), UNCHANGED nodes,
           \A e \in Entries(nodes)[r] : e[1] \in Keys,
           GetReadsContents'
    PROVE  CallInv'
<1>1. nodes' = nodes /\ root' = r /\ stack' = <<>> /\ pc' = "done"
    BY DEF Finish
<1> QED BY <1>1 DEF CallInv, KeysInUse, Visits, Returns, Contents

\* The empty byte vector is not stored as a value.
NoEmptyValue == NoValue \notin Values

--------------------------------------------------------------------------------
(* Calls, and the handlers of get.                                             *)

\* A node that is visited has the entries it stands for.
LEMMA VisitedEntries ==
    ASSUME IInv, CallInv, NEW op, NEW kind, Visiting(op, kind)
    PROVE  /\ pc = "node" /\ call.op = op /\ ref # EmptyRef
           /\ Sound(nodes) /\ Closed(nodes)
           /\ ref \in Refs(nodes) /\ Fetch(ref) \in Nodes(nodes) /\ Fetch(ref).kind = kind
           /\ Entries(nodes) \in [Refs(nodes) -> EntrySets]
           /\ Entries(nodes)[ref] = NodeEntries(Entries(nodes), Fetch(ref))
           /\ path \in Seq(Nibble) /\ call.key \in Keys /\ call.key \in Seq(Nibble)
           /\ Contents \in EntrySets
<1>1. /\ Sound(nodes) /\ path \in Seq(Nibble) /\ root \in Refs(nodes)
      /\ call.key \in Seq(Nibble)
    BY DEF CallInv, IInv, TypeOK
<1>2. /\ ref \in NodeRefs(nodes) /\ Fetch(ref) \in Nodes(nodes) /\ Fetch(ref).kind = kind
      /\ pc = "node" /\ call.op = op /\ Closed(nodes)
    BY VisitedType
<1>3. ref \in Refs(nodes) /\ ref # EmptyRef
    BY <1>2, RefCases DEF Refs
<1>4. /\ Entries(nodes) \in [Refs(nodes) -> EntrySets]
      /\ Entries(nodes)[ref] = NodeEntries(Entries(nodes), Fetch(ref))
    BY <1>1, <1>3, EntriesType DEF Fetch
<1>5. Contents \in EntrySets
    BY <1>1, EntriesType DEF Contents
<1>6. call.key \in Keys
    BY <1>2 DEF CallInv, KeysInUse
<1> QED BY <1>1, <1>2, <1>3, <1>4, <1>5, <1>6

\* A key is present when the rest of it is among the entries it leads to.
LEMMA PresentHere ==
    ASSUME NEW C \in EntrySets, NEW D, NEW key, NEW q, NEW p \in Seq(Nibble),
           Leads(C, D, key, q, p)
    PROVE  (\E e \in C : e[1] = key) <=> \E v \in Values : <<p, v>> \in D
<1>1. q \in Seq(Nibble) /\ key = q \o p
    BY DEF Leads
<1>2. \A v \in Values : <<key, v>> \in C <=> <<p, v>> \in D
    BY <1>1 DEF Leads
<1>3. ASSUME NEW e \in C, e[1] = key PROVE \E v \in Values : <<p, v>> \in D
    <2>1. e \in Seq(Nibble) \X Values
        BY DEF EntrySets
    <2>2. e[2] \in Values /\ e = <<key, e[2]>>
        BY <1>3, <2>1
    <2> QED BY <1>2, <2>2
<1>4. ASSUME NEW v \in Values, <<p, v>> \in D PROVE \E e \in C : e[1] = key
    <2>1. <<key, v>> \in C /\ <<key, v>>[1] = key
        BY <1>2, <1>4
    <2> QED BY <2>1
<1> QED BY <1>3, <1>4

\* The same for the key of the call, at the node it is at.
LEMMA PresentBelow ==
    ASSUME IInv, CallInv, pc = "node", Contents \in EntrySets
    PROVE  Present(call.key) <=> \E v \in Values : <<path, v>> \in Entries(nodes)[ref]
<1>1. PICK q : Leads(Contents, Entries(nodes)[ref], call.key, q, path)
    BY DEF CallInv, Visits
<1>2. path \in Seq(Nibble)
    BY DEF IInv, TypeOK
<1>3. (\E e \in Contents : e[1] = call.key)
         <=> \E v \in Values : <<path, v>> \in Entries(nodes)[ref]
    BY <1>1, <1>2, PresentHere
<1> QED BY <1>3 DEF Present

\* The key is absent where its path ends at another leaf, ...
LEMMA AbsentAtLeaf ==
    ASSUME IInv, CallInv, NEW op, Visiting(op, "leaf"), Fetch(ref).path # path
    PROVE  ~Present(call.key)
<1> DEFINE leaf == Fetch(ref)
<1>1. /\ leaf.kind = "leaf" /\ pc = "node" /\ Contents \in EntrySets
      /\ Entries(nodes)[ref] = NodeEntries(Entries(nodes), leaf)
    BY VisitedEntries
<1>2. \A v : <<path, v>> \in Entries(nodes)[ref] <=> path = leaf.path /\ v = leaf.value
    BY <1>1, LeafEntries
<1> HIDE DEF leaf
<1> QED BY <1>1, <1>2, PresentBelow DEF leaf

\* ... leaves that of an extension, ...
LEMMA AbsentAtExtension ==
    ASSUME IInv, CallInv, NEW op, Visiting(op, "extension"), ~StartsWith(path, Fetch(ref).path)
    PROVE  ~Present(call.key)
<1> DEFINE ext == Fetch(ref)
<1>1. /\ ext.kind = "extension" /\ ext \in Nodes(nodes) /\ path \in Seq(Nibble)
      /\ pc = "node" /\ Contents \in EntrySets
      /\ Entries(nodes)[ref] = NodeEntries(Entries(nodes), ext)
      /\ Entries(nodes) \in [Refs(nodes) -> EntrySets]
    BY VisitedEntries
<1>2. ext.path \in Seq(Nibble) /\ ext.next \in Refs(nodes)
    BY <1>1, NodeKinds DEF Extensions, Refs
<1>3. Entries(nodes)[ext.next] \in EntrySets
    BY <1>1, <1>2
<1>4. \A v \in Values : <<path, v>> \notin Entries(nodes)[ref]
    BY <1>1, <1>2, <1>3, ExtensionEntries
<1> QED BY <1>1, <1>4, PresentBelow

\* ... goes on where a branch has no child, ...
LEMMA AbsentAtBranch ==
    ASSUME IInv, CallInv, NEW op, Visiting(op, "branch"),
           path # <<>>, Head(path) \notin Children(Fetch(ref))
    PROVE  ~Present(call.key)
<1> DEFINE b == Fetch(ref)
<1>1. /\ b.kind = "branch" /\ b \in Nodes(nodes) /\ path \in Seq(Nibble)
      /\ pc = "node" /\ Contents \in EntrySets /\ Sound(nodes)
      /\ Entries(nodes)[ref] = NodeEntries(Entries(nodes), b)
      /\ Entries(nodes) \in [Refs(nodes) -> EntrySets]
    BY VisitedEntries
<1>2. b.branches \in [Nibble -> Refs(nodes)]
    BY <1>1, NodeKinds DEF Branches
<1>3. \A i \in Nibble : Entries(nodes)[b.branches[i]] \in EntrySets
    BY <1>1, <1>2
<1>4. Head(path) \in Nibble
    BY <1>1, FirstAndRest
<1>5. Entries(nodes)[b.branches[Head(path)]] = {}
    BY <1>1, <1>4, EntriesType DEF Children
<1> HIDE DEF b
<1>6. \A v \in Values : <<path, v>> \in NodeEntries(Entries(nodes), b) <=>
         <<Tail(path), v>> \in Entries(nodes)[b.branches[Head(path)]]
    BY <1>1, <1>3, BranchEntries
<1> QED BY <1>1, <1>5, <1>6, PresentBelow

\* ... or ends at one without a value.
LEMMA AbsentValue ==
    ASSUME IInv, CallInv, NEW op, Visiting(op, "branch"),
           path = <<>>, Fetch(ref).value = NoValue
    PROVE  ~Present(call.key)
<1> DEFINE b == Fetch(ref)
<1>1. /\ b.kind = "branch" /\ b \in Nodes(nodes)
      /\ pc = "node" /\ Contents \in EntrySets
      /\ Entries(nodes)[ref] = NodeEntries(Entries(nodes), b)
      /\ Entries(nodes) \in [Refs(nodes) -> EntrySets]
    BY VisitedEntries
<1>2. b.branches \in [Nibble -> Refs(nodes)]
    BY <1>1, NodeKinds DEF Branches
<1>3. \A i \in Nibble : Entries(nodes)[b.branches[i]] \in EntrySets
    BY <1>1, <1>2
<1> HIDE DEF b
<1>4. \A v : <<<<>>, v>> \in NodeEntries(Entries(nodes), b) <=> v = b.value /\ v # NoValue
    BY <1>1, <1>3, BranchEntries
<1> QED BY <1>1, <1>4, PresentBelow DEF b

\* An exception is thrown for a key that is absent.
LEMMA MissingKeepsCallInv ==
    ASSUME IInv, CallInv, NEW what, Abandon(what), call.op = "get" => ~Present(call.key)
    PROVE  CallInv'
<1>1. /\ nodes' = nodes /\ root' = root /\ call' = call /\ outcome' = Throw(what)
      /\ Finish(root, Throw(what))
    BY DEF Abandon, Finish
<1>2. \A e \in Entries(nodes)[root] : e[1] \in Keys
    BY DEF CallInv, KeysInUse, Contents
<1>3. GetReadsContents'
    BY <1>1 DEF GetReadsContents, Throw, Present, Contents
<1> QED BY <1>1, <1>2, <1>3, FinishKeepsCallInv

\* A public call starts at the root with the whole key.
LEMMA CallKeepsCallInv ==
    ASSUME IInv, CallInv, NEW op, NEW k \in Keys, NEW v, Call(op, k, v)
    PROVE  CallInv'
<1>1. /\ nodes' = nodes /\ root' = root /\ stack' = <<>>
      /\ ref' = root /\ path' = k /\ pc' = "node" /\ call'.key = k
    BY DEF Call, CallInv
<1>2. k \in Seq(Nibble) /\ <<>> \in Seq(Nibble)
    BY ConstantsAssumption, EmptySeq
<1>3. \A s \in Seq(Nibble) : <<>> \o s = s
    BY ConcatEmptySeq
<1>4. Leads(Contents, Entries(nodes)[root], k, <<>>, k)
    BY <1>2, <1>3 DEF Leads, Contents
<1>5. \E rest : /\ Trail(nodes, root, <<>>, k, rest)
                /\ rest[Len(<<>>) + 1] = k
                /\ Slot(root, <<>>, Len(<<>>) + 1) = root
    BY <1>2, TrailStarts
<1>6. Contents' = Contents
    BY <1>1 DEF Contents
<1>7. Visits'
    BY <1>1, <1>4, <1>5, <1>6 DEF Visits, Here
<1> QED BY <1>1, <1>6, <1>7 DEF CallInv, Returns, KeysInUse, GetReadsContents

\* The handlers of get.
LEMMA GettingKeepsCallInv ==
    ASSUME IInv, CallInv, Getting
    PROVE  CallInv'
<1>1. CASE GetEmpty
    <2>1. Contents = {}
        BY <1>1, EntriesType DEF GetEmpty, Contents, CallInv
    <2>2. ~Present(call.key)
        BY <2>1 DEF Present
    <2> QED BY <1>1, <2>2, MissingKeepsCallInv DEF GetEmpty
<1>2. CASE GetLeaf
    <2> DEFINE leaf == Fetch(ref)
    <2>1. /\ leaf.kind = "leaf" /\ leaf \in Nodes(nodes) /\ path \in Seq(Nibble)
          /\ pc = "node" /\ call.op = "get" /\ Contents \in EntrySets
          /\ Entries(nodes)[ref] = NodeEntries(Entries(nodes), leaf)
          /\ call.key \in Keys
        BY <1>2, VisitedEntries DEF GetLeaf
    <2>2. leaf.value \in Values /\ leaf.path \in Seq(Nibble)
        BY <2>1, NodeKinds DEF Leaves
    <2>3. PICK q : Leads(Contents, Entries(nodes)[ref], call.key, q, path)
        BY <2>1 DEF CallInv, Visits
    <2>4. \A v : <<path, v>> \in Entries(nodes)[ref] <=> path = leaf.path /\ v = leaf.value
        BY <2>1, LeafEntries
    <2> HIDE DEF leaf
    <2>5. CASE leaf.path = path /\ Give(leaf.value)
        <3>1. <<call.key, leaf.value>> \in Contents
            BY <2>1, <2>2, <2>3, <2>4, <2>5 DEF Leads
        <3>2. /\ nodes' = nodes /\ root' = root /\ call' = call
              /\ outcome' = Answer(leaf.value) /\ Finish(root, Answer(leaf.value))
            BY <2>5 DEF Give, Finish
        <3>3. \A e \in Entries(nodes)[root] : e[1] \in Keys
            BY DEF CallInv, KeysInUse, Contents
        <3>4. GetReadsContents'
            BY <3>1, <3>2 DEF GetReadsContents, Answer, Contents
        <3> QED BY <3>2, <3>3, <3>4, FinishKeepsCallInv
    <2>6. CASE leaf.path # path /\ Missing
        <3>1. ~Present(call.key)
            BY <1>2, <2>6, AbsentAtLeaf DEF GetLeaf, leaf
        <3> QED BY <2>6, <3>1, MissingKeepsCallInv DEF Missing
    <2> QED BY <1>2, <2>5, <2>6 DEF GetLeaf, leaf
<1>3. CASE GetExtension
    <2> DEFINE ext == Fetch(ref)
    <2>1. /\ ext.kind = "extension" /\ ext \in Nodes(nodes) /\ path \in Seq(Nibble)
          /\ pc = "node" /\ call.op = "get" /\ Contents \in EntrySets /\ ref # EmptyRef
          /\ Entries(nodes)[ref] = NodeEntries(Entries(nodes), ext)
          /\ Entries(nodes) \in [Refs(nodes) -> EntrySets]
        BY <1>3, VisitedEntries DEF GetExtension
    <2>2. ext \in Extensions(nodes) /\ ext.path \in Seq(Nibble) /\ ext.next \in Refs(nodes)
        BY <2>1, NodeKinds DEF Extensions, Refs
    <2>3. CASE /\ StartsWith(path, ext.path)
               /\ Visit(ext.next, Consume(path, Len(ext.path)))
        <3> DEFINE f == [node |-> ext]
                   p == Consume(path, Len(ext.path))
        <3>1. f \in Frames(nodes) /\ StepPath(f) = ext.path /\ ChildRef(f) = ext.next
            BY <2>1, <2>2 DEF Frames, StepPath, ChildRef
        <3>2. p \in Seq(Nibble) /\ path = ext.path \o p
            BY <2>1, <2>2, <2>3, Rejoined
        <3>3. Fetch(ref) = f.node /\ Visit(ChildRef(f), p)
            BY <2>3, <3>1
        <3> HIDE DEF f, p
        <3> QED BY <2>1, <3>1, <3>2, <3>3, DescentKeepsCallInv
    <2>4. CASE ~StartsWith(path, ext.path) /\ Missing
        <3>4. ~Present(call.key)
            BY <1>3, <2>4, AbsentAtExtension DEF GetExtension
        <3> QED BY <2>4, <3>4, MissingKeepsCallInv DEF Missing
    <2> QED BY <1>3, <2>3, <2>4 DEF GetExtension
<1>4. CASE GetBranch
    <2> DEFINE b == Fetch(ref)
    <2>1. /\ b.kind = "branch" /\ b \in Nodes(nodes) /\ path \in Seq(Nibble)
          /\ pc = "node" /\ call.op = "get" /\ Contents \in EntrySets /\ ref # EmptyRef
          /\ Entries(nodes)[ref] = NodeEntries(Entries(nodes), b)
          /\ Entries(nodes) \in [Refs(nodes) -> EntrySets] /\ ref \in Refs(nodes)
        BY <1>4, VisitedEntries DEF GetBranch
    <2>2. /\ b \in Branches(nodes) /\ b.branches \in [Nibble -> Refs(nodes)]
          /\ b.value \in StoredValues
        BY <2>1, NodeKinds DEF Branches
    <2>3. \A i \in Nibble : Entries(nodes)[b.branches[i]] \in EntrySets
        BY <2>1, <2>2
    <2>4. PICK q : Leads(Contents, Entries(nodes)[ref], call.key, q, path)
        BY <2>1 DEF CallInv, Visits
    <2>5. \A v : <<<<>>, v>> \in Entries(nodes)[ref] <=> v = b.value /\ v # NoValue
        <3>1. \A v : <<<<>>, v>> \in NodeEntries(Entries(nodes), b) <=> v = b.value /\ v # NoValue
            <4> HIDE DEF b
            <4> QED BY <2>1, <2>3, BranchEntries
        <3> QED BY <2>1, <3>1
    <2>6. CASE path = <<>> /\ Give(b.value)
        <3>1. /\ nodes' = nodes /\ root' = root /\ call' = call
              /\ outcome' = Answer(b.value) /\ Finish(root, Answer(b.value))
            BY <2>6 DEF Give, Finish
        <3>2. \A e \in Entries(nodes)[root] : e[1] \in Keys
            BY DEF CallInv, KeysInUse, Contents
        <3>3. b.value # NoValue => <<call.key, b.value>> \in Contents
            BY <2>1, <2>2, <2>4, <2>5, <2>6 DEF Leads, StoredValues
        <3>4. ASSUME b.value = NoValue
              PROVE  ~Present(call.key) /\ \E e \in Contents : StartsWith(e[1], call.key)
            <4>1. ~Present(call.key)
                BY <1>4, <2>6, <3>4, AbsentValue DEF GetBranch
            <4>2. Entries(nodes)[ref] # {} /\ Entries(nodes)[ref] \in EntrySets
                BY <2>1, HasEntries DEF CallInv
            <4>3. PICK e \in Entries(nodes)[ref] : e \in Seq(Nibble) \X Values
                BY <4>2 DEF EntrySets
            <4>4. e[1] \in Seq(Nibble) /\ e[2] \in Values /\ e = <<e[1], e[2]>>
                BY <4>3
            <4>5. q \in Seq(Nibble) /\ call.key = q \o <<>>
                BY <2>4, <2>6 DEF Leads
            <4>6. call.key = q
                BY <4>5, ConcatEmptySeq
            <4>7. <<q \o e[1], e[2]>> \in Contents
                BY <2>4, <4>3, <4>4 DEF Leads
            <4>8. StartsWith(q \o e[1], q) /\ <<q \o e[1], e[2]>>[1] = q \o e[1]
                BY <4>4, <4>5, Joined
            <4> QED BY <4>1, <4>6, <4>7, <4>8
        <3> HIDE DEF b
        <3>5. GetReadsContents'
            BY <3>1, <3>3, <3>4 DEF GetReadsContents, Answer, Present, Contents
        <3> QED BY <3>1, <3>2, <3>5, FinishKeepsCallInv
    <2>7. CASE /\ path # <<>> /\ Head(path) \in Children(b)
               /\ Visit(b.branches[Head(path)], Tail(path))
        <3> DEFINE f == [node |-> b, idx |-> Head(path)]
                   p == Tail(path)
        <3>1. Head(path) \in Nibble /\ p \in Seq(Nibble) /\ path = <<Head(path)>> \o p
            BY <2>1, <2>7, FirstAndRest
        <3>2. /\ f \in Frames(nodes) /\ StepPath(f) = <<Head(path)>>
              /\ ChildRef(f) = b.branches[Head(path)]
            BY <2>1, <2>2, <3>1 DEF Frames, StepPath, ChildRef
        <3>3. Fetch(ref) = f.node /\ Visit(ChildRef(f), p)
            BY <2>7, <3>2
        <3> HIDE DEF f, p
        <3> QED BY <2>1, <3>1, <3>2, <3>3, DescentKeepsCallInv
    <2>8. CASE path # <<>> /\ Head(path) \notin Children(b) /\ Missing
        <3>4. ~Present(call.key)
            BY <1>4, <2>8, AbsentAtBranch DEF GetBranch
        <3> QED BY <2>8, <3>4, MissingKeepsCallInv DEF Missing
    <2> QED BY <1>4, <2>6, <2>7, <2>8 DEF GetBranch
<1> QED BY <1>1, <1>2, <1>3, <1>4 DEF Getting

--------------------------------------------------------------------------------
(* The handlers of set.                                                        *)

\* The empty path prefixes nothing.
LEMMA PrefixedByNothing ==
    ASSUME NEW E \in EntrySets
    PROVE  Prefixed(<<>>, E) = E
<1>1. <<>> \in Seq(Nibble)
    BY EmptySeq
<1>2. Prefixed(<<>>, E) \in EntrySets
    BY <1>1, PrefixedType
<1>3. ASSUME NEW k \in Seq(Nibble), NEW v \in Values
      PROVE  <<k, v>> \in Prefixed(<<>>, E) <=> <<k, v>> \in E
    <2>1. <<<<>> \o k, v>> \in Prefixed(<<>>, E) <=> <<k, v>> \in E
        BY <1>1, PrefixedHas
    <2>2. <<>> \o k = k
        BY ConcatEmptySeq
    <2> QED BY <2>1, <2>2
<1> QED BY <1>2, <1>3, SameEntries

\* A prefix of the entry at the empty path.
LEMMA PrefixedOne ==
    ASSUME NEW p \in Seq(Nibble), NEW v
    PROVE  Prefixed(p, {<<<<>>, v>>}) = {<<p, v>>}
<1> DEFINE e == <<<<>>, v>>
<1>1. p \o <<>> = p
    BY ConcatEmptySeq
<1>2. e[1] = <<>> /\ e[2] = v
    OBVIOUS
<1> HIDE DEF e
<1>3. Prefixed(p, {e}) = {<<p \o e[1], e[2]>>}
    BY DEF Prefixed
<1>4. Prefixed(p, {e}) = {<<p, v>>}
    BY <1>1, <1>2, <1>3
<1> QED BY <1>4 DEF e

\* Prefixes nibble by nibble.
LEMMA PrefixedByHead ==
    ASSUME NEW p \in Seq(Nibble), p # <<>>, NEW E \in EntrySets,
           NEW k \in Seq(Nibble), NEW v
    PROVE  <<k, v>> \in Prefixed(p, E) <=>
              k # <<>> /\ Head(k) = Head(p) /\ <<Tail(k), v>> \in Prefixed(Tail(p), E)
<1>1. /\ Head(p) \in Nibble /\ Tail(p) \in Seq(Nibble) /\ <<Head(p)>> \in Seq(Nibble)
      /\ p = <<Head(p)>> \o Tail(p)
    BY FirstAndRest
<1>2. ASSUME <<k, v>> \in Prefixed(p, E)
      PROVE  k # <<>> /\ Head(k) = Head(p) /\ <<Tail(k), v>> \in Prefixed(Tail(p), E)
    <2>1. PICK s \in Seq(Nibble) : k = p \o s /\ <<s, v>> \in E
        BY <1>2, PrefixedSplit
    <2>2. k = <<Head(p)>> \o (Tail(p) \o s)
        BY <1>1, <2>1, Associated
    <2>3. Tail(p) \o s \in Seq(Nibble)
        BY <1>1, <2>1, Joined
    <2>4. k # <<>> /\ Head(k) = Head(p) /\ Tail(k) = Tail(p) \o s
        BY <1>1, <2>2, <2>3, Prepended
    <2> QED BY <1>1, <2>1, <2>4, PrefixedHas
<1>3. ASSUME k # <<>>, Head(k) = Head(p), <<Tail(k), v>> \in Prefixed(Tail(p), E)
      PROVE  <<k, v>> \in Prefixed(p, E)
    <2>1. PICK s \in Seq(Nibble) : Tail(k) = Tail(p) \o s /\ <<s, v>> \in E
        BY <1>1, <1>3, PrefixedSplit
    <2>2. k = <<Head(p)>> \o (Tail(p) \o s)
        BY <1>3, <2>1, FirstAndRest
    <2>3. k = p \o s
        BY <1>1, <2>1, <2>2, Associated
    <2> QED BY <2>1, <2>3, PrefixedHas
<1> QED BY <1>2, <1>3

\* In the branch n the path theirs, which has the entries X at its end, and the
\* path mine to the value v part.
PartsIn(n, g, mine, v, theirs, X) ==
    /\ mine # <<>> \/ theirs # <<>>
    /\ mine # <<>> /\ theirs # <<>> => Head(mine) # Head(theirs)
    /\ theirs = <<>> => \A s \in Seq(Nibble), w \in Values : <<s, w>> \in X => s = <<>>
    /\ \A i \in Nibble : g[n.branches[i]] =
          IF theirs # <<>> /\ i = Head(theirs) THEN Prefixed(Tail(theirs), X)
          ELSE IF mine # <<>> /\ i = Head(mine) THEN {<<Tail(mine), v>>} ELSE {}
    /\ \A w \in Values : (w = n.value /\ w # NoValue) <=>
          (mine = <<>> /\ w = v) \/ (theirs = <<>> /\ <<<<>>, w>> \in X)

\* A branch at the place where two paths part has the entries of both: a new
\* value at mine, and those of X, which were below theirs.
LEMMA PartingBranch ==
    ASSUME NEW mine \in Seq(Nibble), NEW theirs \in Seq(Nibble),
           NEW v \in Values, NEW X \in EntrySets,
           NEW n, n.kind = "branch", NEW g,
           \A i \in Nibble : g[n.branches[i]] \in EntrySets,
           PartsIn(n, g, mine, v, theirs, X)
    PROVE  /\ \A s \in Seq(Nibble), w \in Values :
                 <<s, w>> \in NodeEntries(g, n) <=>
                    (s = mine /\ w = v) \/ <<s, w>> \in Prefixed(theirs, X)
           /\ \A w \in Values : <<mine, w>> \notin Prefixed(theirs, X)
<1> USE DEF PartsIn
<1>0. <<>> \in Seq(Nibble)
    BY EmptySeq
<1>1. theirs = <<>> => Prefixed(theirs, X) = X
    BY PrefixedByNothing
<1>2. ASSUME theirs # <<>>, NEW s \in Seq(Nibble), NEW w \in Values
      PROVE  <<s, w>> \in Prefixed(theirs, X) <=>
                s # <<>> /\ Head(s) = Head(theirs) /\ <<Tail(s), w>> \in Prefixed(Tail(theirs), X)
    BY <1>2, PrefixedByHead
<1>3. \A w \in Values : <<mine, w>> \notin Prefixed(theirs, X)
    <2>1. CASE theirs = <<>>
        BY <1>1, <2>1
    <2>2. CASE theirs # <<>>
        BY <1>2, <2>2
    <2> QED BY <2>1, <2>2
<1>4. ASSUME NEW s \in Seq(Nibble), NEW w \in Values
      PROVE  <<s, w>> \in NodeEntries(g, n) <=>
                (s = mine /\ w = v) \/ <<s, w>> \in Prefixed(theirs, X)
    <2>1. CASE s = <<>>
        <3>1. <<<<>>, w>> \in NodeEntries(g, n) <=> w = n.value /\ w # NoValue
            BY BranchEntries
        <3>2. <<<<>>, w>> \in Prefixed(theirs, X) <=> theirs = <<>> /\ <<<<>>, w>> \in X
            <4>1. CASE theirs = <<>>
                BY <1>1, <4>1
            <4>2. CASE theirs # <<>>
                BY <1>0, <1>2, <4>2
            <4> QED BY <4>1, <4>2
        <3>3. <<<<>>, w>> \in NodeEntries(g, n) <=>
                 (<<>> = mine /\ w = v) \/ <<<<>>, w>> \in Prefixed(theirs, X)
            BY <3>1, <3>2
        <3> QED BY <2>1, <3>3
    <2>2. CASE s # <<>>
        <3>1. Head(s) \in Nibble /\ Tail(s) \in Seq(Nibble) /\ s = <<Head(s)>> \o Tail(s)
            BY <2>2, FirstAndRest
        <3>2. <<s, w>> \in NodeEntries(g, n) <=> <<Tail(s), w>> \in g[n.branches[Head(s)]]
            BY <2>2, BranchEntries
        <3>3. CASE theirs # <<>> /\ Head(s) = Head(theirs)
            <4>1. g[n.branches[Head(s)]] = Prefixed(Tail(theirs), X)
                BY <3>1, <3>3
            <4>2. s # mine
                BY <2>2, <3>3
            <4>3. <<s, w>> \in Prefixed(theirs, X) <=> <<Tail(s), w>> \in Prefixed(Tail(theirs), X)
                BY <1>2, <2>2, <3>3
            <4> QED BY <3>2, <4>1, <4>2, <4>3
        <3>4. CASE ~(theirs # <<>> /\ Head(s) = Head(theirs)) /\ mine # <<>> /\ Head(s) = Head(mine)
            <4>1. g[n.branches[Head(s)]] = {<<Tail(mine), v>>}
                BY <3>1, <3>4
            <4>2. mine = <<Head(mine)>> \o Tail(mine)
                BY <3>4, FirstAndRest
            <4>3. Tail(s) = Tail(mine) <=> s = mine
                BY <3>1, <3>4, <4>2
            <4>4. <<s, w>> \notin Prefixed(theirs, X)
                <5>1. CASE theirs = <<>>
                    BY <1>1, <2>2, <5>1
                <5>2. CASE theirs # <<>>
                    BY <1>2, <3>4, <5>2
                <5> QED BY <5>1, <5>2
            <4> QED BY <3>2, <4>1, <4>3, <4>4
        <3>5. CASE ~(theirs # <<>> /\ Head(s) = Head(theirs)) /\ ~(mine # <<>> /\ Head(s) = Head(mine))
            <4>1. g[n.branches[Head(s)]] = {}
                BY <3>1, <3>5
            <4>2. s # mine
                BY <2>2, <3>5
            <4>4. <<s, w>> \notin Prefixed(theirs, X)
                <5>1. CASE theirs = <<>>
                    BY <1>1, <2>2, <5>1
                <5>2. CASE theirs # <<>>
                    BY <1>2, <3>5, <5>2
                <5> QED BY <5>1, <5>2
            <4> QED BY <3>2, <4>1, <4>2, <4>4
        <3> QED BY <3>3, <3>4, <3>5
    <2> QED BY <2>1, <2>2
<1> QED BY <1>3, <1>4

\* What that branch has below the prefix the two paths have in common.
LEMMA PartingEntries ==
    ASSUME NEW common \in Seq(Nibble), NEW mine \in Seq(Nibble), NEW theirs \in Seq(Nibble),
           NEW v \in Values, NEW X \in EntrySets,
           NEW n, n.kind = "branch", NEW g,
           \A i \in Nibble : g[n.branches[i]] \in EntrySets,
           PartsIn(n, g, mine, v, theirs, X),
           NodeEntries(g, n) \in EntrySets
    PROVE  Prefixed(common, NodeEntries(g, n))
              = Updated(Prefixed(common \o theirs, X), common \o mine, v)
<1> DEFINE B == NodeEntries(g, n)
<1>1. /\ \A s \in Seq(Nibble), w \in Values :
             <<s, w>> \in NodeEntries(g, n) <=>
                (s = mine /\ w = v) \/ <<s, w>> \in Prefixed(theirs, X)
      /\ \A w \in Values : <<mine, w>> \notin Prefixed(theirs, X)
    BY PartingBranch
<1>2. \A s \in Seq(Nibble), w \in Values :
         <<s, w>> \in B <=> (s = mine /\ w = v) \/ <<s, w>> \in Prefixed(theirs, X)
    BY <1>1
<1>3. B \in EntrySets
    OBVIOUS
<1> HIDE DEF B
<1>4. Prefixed(common, B) = Updated(Prefixed(common \o theirs, X), common \o mine, v)
    BY <1>1, <1>2, <1>3, Parted
<1> QED BY <1>4 DEF B

\* A branch under construction whose storage is sound, and has all of nodes.
Growing(b) ==
    /\ Sound(b.store) /\ Within(nodes, b.store)
    /\ b.refs \in [Nibble -> Refs(b.store)]

\* What is below its i-th reference.
ChildEntries(b, i) == Entries(b.store)[b.refs[i]]

\* The branch b with the value w is the one in which the two paths part.
SplitInto(b, w, mine, v, theirs, X) ==
    /\ Growing(b) /\ w \in StoredValues /\ X \in EntrySets
    /\ PartsIn(Branch(b.refs, w), Entries(b.store), mine, v, theirs, X)
    /\ w # NoValue \/ \E i \in Nibble : b.refs[i] # EmptyRef

\* Storing a child of a branch under construction keeps it well formed.
LEMMA AddNodeGrows ==
    ASSUME NoCollisions, NEW b, Growing(b), NEW i \in Nibble,
           NEW n \in Nodes(b.store), Inhabited(n),
           NEW c, c = [store |-> Put(b.store, n), refs |-> [b.refs EXCEPT ![i] = RefTo(n)]]
    PROVE  /\ Growing(c)
           /\ Within(b.store, c.store)
           /\ c.refs[i] # EmptyRef
           /\ ChildEntries(c, i) = NodeEntries(Entries(b.store), n)
           /\ \A j \in Nibble : j # i =>
                 c.refs[j] = b.refs[j] /\ ChildEntries(c, j) = ChildEntries(b, j)
<1>1. /\ c.store = Put(b.store, n) /\ c.refs = [b.refs EXCEPT ![i] = RefTo(n)]
      /\ b.refs \in [Nibble -> Refs(b.store)] /\ Sound(b.store) /\ Within(nodes, b.store)
    BY DEF Growing
<1>2. /\ Sound(c.store) /\ Within(b.store, c.store)
      /\ RefTo(n) \in Refs(c.store) /\ RefTo(n) # EmptyRef
      /\ Entries(c.store)[RefTo(n)] = NodeEntries(Entries(b.store), n)
    BY <1>1, PutSound
<1>3. c.refs[i] = RefTo(n) /\ \A j \in Nibble : j # i => c.refs[j] = b.refs[j]
    BY <1>1
<1>4. \A r \in Refs(b.store) : r \in Refs(c.store)
    BY <1>1, <1>2, WithinRefs DEF Sound
<1>5. c.refs \in [Nibble -> Refs(c.store)]
    <2>1. \A j \in Nibble : b.refs[j] \in Refs(c.store)
        BY <1>1, <1>4
    <2> QED BY <1>1, <1>2, <2>1
<1>6. Within(nodes, c.store)
    BY <1>1, <1>2, WithinTransitive
<1>7. ASSUME NEW j \in Nibble, j # i PROVE ChildEntries(c, j) = ChildEntries(b, j)
    <2>1. b.refs[j] \in Refs(b.store)
        BY <1>1
    <2>2. Entries(c.store)[b.refs[j]] = Entries(b.store)[b.refs[j]]
        BY <1>1, <1>2, <2>1, WithinEntries
    <2> QED BY <1>3, <1>7, <2>2 DEF ChildEntries
<1> QED BY <1>2, <1>3, <1>5, <1>6, <1>7 DEF Growing, ChildEntries

\* c is the branch b with the value v at the end of p, unless p is empty.
LeafAdded(b, p, v, c) ==
    /\ Growing(c)
    /\ p # <<>> => /\ c.refs[Head(p)] # EmptyRef
                   /\ ChildEntries(c, Head(p)) = {<<Tail(p), v>>}
    /\ \A j \in Nibble : ~(p # <<>> /\ j = Head(p)) =>
          c.refs[j] = b.refs[j] /\ ChildEntries(c, j) = ChildEntries(b, j)

\* CreateBranchLeaf: the value is below the first nibble of its path.
LEMMA AddLeafGrows ==
    ASSUME NoCollisions, NEW b, Growing(b), NEW p \in Seq(Nibble), NEW v \in Values,
           NEW c, c = AddLeaf(b, p, v)
    PROVE  LeafAdded(b, p, v, c)
<1> USE DEF LeafAdded
<1>1. CASE p = <<>>
    BY <1>1 DEF AddLeaf
<1>2. CASE p # <<>>
    <2> DEFINE n == Leaf(Tail(p), v)
    <2>1. Head(p) \in Nibble /\ Tail(p) \in Seq(Nibble)
        BY <1>2, FirstAndRest
    <2>2. n \in Nodes(b.store) /\ Inhabited(n)
        BY <2>1 DEF Nodes, Leaves, Leaf, Inhabited
    <2>3. c = [store |-> Put(b.store, n),
               refs |-> [b.refs EXCEPT ![Head(p)] = RefTo(n)]]
        BY <1>2 DEF AddLeaf
    <2>4. NodeEntries(Entries(b.store), n) = {<<Tail(p), v>>}
        BY DEF NodeEntries, Leaf
    <2> HIDE DEF n
    <2>5. /\ Growing(c) /\ c.refs[Head(p)] # EmptyRef
          /\ ChildEntries(c, Head(p)) = NodeEntries(Entries(b.store), n)
          /\ \A j \in Nibble : j # Head(p) =>
                 c.refs[j] = b.refs[j] /\ ChildEntries(c, j) = ChildEntries(b, j)
        <3>1. b.refs \in [Nibble -> Refs(b.store)] /\ Sound(b.store) /\ Within(nodes, b.store)
            BY DEF Growing
        <3> QED BY <2>1, <2>2, <2>3, <3>1, AddNodeGrows
    <2> QED BY <1>2, <2>4, <2>5
<1> QED BY <1>1, <1>2

\* CreateBranchExtension: what next has is below the first nibble of its path.
LEMMA AddExtensionGrows ==
    ASSUME NoCollisions, Sound(nodes), NEW b, Growing(b), NEW p \in Seq(Nibble), p # <<>>,
           NEW next \in NodeRefs(nodes), NEW c, c = AddExtension(b, p, next)
    PROVE  /\ Growing(c)
           /\ c.refs[Head(p)] # EmptyRef
           /\ ChildEntries(c, Head(p)) = Prefixed(Tail(p), Entries(nodes)[next])
           /\ \A j \in Nibble : j # Head(p) =>
                 c.refs[j] = b.refs[j] /\ ChildEntries(c, j) = ChildEntries(b, j)
<1>1. /\ Head(p) \in Nibble /\ Tail(p) \in Seq(Nibble)
      /\ Sound(b.store) /\ Within(nodes, b.store)
      /\ b.refs \in [Nibble -> Refs(b.store)]
    BY FirstAndRest DEF Growing
<1>2. next \in Refs(nodes) /\ next # EmptyRef
    BY RefCases DEF Refs
<1>3. /\ next \in Refs(b.store) /\ next \in NodeRefs(b.store)
      /\ Entries(b.store)[next] = Entries(nodes)[next]
      /\ Entries(nodes)[next] \in EntrySets
    <2>1. next \in Refs(b.store)
        BY <1>1, <1>2, WithinRefs DEF Sound
    <2>2. Entries(b.store)[next] = Entries(nodes)[next]
        BY <1>1, <1>2, WithinEntries
    <2> QED BY <1>2, <2>1, <2>2, RefCases, EntriesType
<1>4. CASE Len(p) = 1
    <2>1. c = [b EXCEPT !.refs[Head(p)] = next]
        BY <1>4 DEF AddExtension
    <2>2. /\ c.store = b.store /\ c.refs = [b.refs EXCEPT ![Head(p)] = next]
        BY <2>1
    <2>3. Tail(p) = <<>>
        <3>1. Len(Tail(p)) = Len(p) - 1 /\ Tail(p) \in Seq(Nibble)
            BY HeadTailProperties
        <3>2. Len(Tail(p)) = 0
            BY <1>4, <3>1
        <3> QED BY <3>1, <3>2, EmptySeq
    <2>4. Prefixed(Tail(p), Entries(nodes)[next]) = Entries(nodes)[next]
        BY <1>3, <2>3, PrefixedByNothing
    <2> QED BY <1>1, <1>2, <1>3, <2>2, <2>4 DEF Growing, ChildEntries
<1>5. CASE Len(p) # 1
    <2> DEFINE n == Extension(Tail(p), next)
    <2>1. n \in Nodes(b.store) /\ Inhabited(n) /\ n.kind = "extension"
          /\ n.path = Tail(p) /\ n.next = next
        BY <1>1, <1>3 DEF Nodes, Extensions, Extension, Inhabited
    <2>2. c = [store |-> Put(b.store, n), refs |-> [b.refs EXCEPT ![Head(p)] = RefTo(n)]]
        BY <1>5 DEF AddExtension
    <2> HIDE DEF n
    <2>3. NodeEntries(Entries(b.store), n) = Prefixed(Tail(p), Entries(nodes)[next])
        BY <1>1, <1>3, <2>1, ExtensionEntries
    <2>4. /\ Growing(c) /\ c.refs[Head(p)] # EmptyRef
          /\ ChildEntries(c, Head(p)) = NodeEntries(Entries(b.store), n)
          /\ \A j \in Nibble : j # Head(p) =>
                 c.refs[j] = b.refs[j] /\ ChildEntries(c, j) = ChildEntries(b, j)
        BY <1>1, <2>1, <2>2, AddNodeGrows
    <2> QED BY <2>3, <2>4
<1> QED BY <1>4, <1>5

\* A new branch is returned, with or without an extension before it.
LEMMA ReturnBranchKeepsCallInv ==
    ASSUME NoCollisions, IInv, CallInv, pc = "node", call.op = "set",
           NEW b, Growing(b), NEW w \in StoredValues,
           w # NoValue \/ \E i \in Nibble : b.refs[i] # EmptyRef,
           NEW common \in Seq(Nibble), ReturnBranch(b, w, common),
           Prefixed(common, NodeEntries(Entries(b.store), Branch(b.refs, w)))
              = Updated(Entries(nodes)[ref], path, call.value)
    PROVE  CallInv'
<1> DEFINE n == Branch(b.refs, w)
           store == Put(b.store, n)
           B == NodeEntries(Entries(b.store), n)
<1>1. /\ Sound(b.store) /\ Within(nodes, b.store) /\ b.refs \in [Nibble -> Refs(b.store)]
      /\ Entries(b.store) \in [Refs(b.store) -> EntrySets]
    BY EntriesType DEF Growing
<1>2. n \in Nodes(b.store) /\ Inhabited(n)
    BY <1>1 DEF Nodes, Branches, Branch, Inhabited, Children
<1>3. B \in EntrySets
    BY <1>1, <1>2, NodeEntriesType
<1>4. /\ Sound(store) /\ Within(b.store, store) /\ RefTo(n) \in NodeRefs(store)
      /\ Entries(store)[RefTo(n)] = B
    BY <1>1, <1>2, PutSound
<1>5. Within(nodes, store)
    BY <1>1, <1>4, WithinTransitive
<1>6. Prefixed(common, B) = Updated(Entries(nodes)[ref], path, call.value)
    OBVIOUS
<1>7. CASE common = <<>>
    <2>1. Return(store, Result("updated", <<>>, n)) /\ UNCHANGED stack
        BY <1>7 DEF ReturnBranch
    <2>2. /\ nodes' = store /\ root' = root /\ call' = call /\ pc' = "return"
          /\ ret'.ref = RefTo(n)
        BY <2>1 DEF Return, Result
    <2>3. Prefixed(common, B) = B
        BY <1>3, <1>7, PrefixedByNothing
    <2> HIDE DEF n, store, B
    <2>4. Answers(call.op, call.value, Clean, nodes', ret', Entries(nodes)[ref], path)
        BY <1>4, <1>6, <2>2, <2>3 DEF Answers
    <2> QED BY <1>4, <1>5, <2>1, <2>2, <2>4, AnswerKeepsCallInv
<1>8. CASE common # <<>>
    <2> DEFINE ext == Extension(common, RefTo(n))
               final == Put(store, ext)
    <2>1. Return(final, Result("updated", <<>>, ext)) /\ UNCHANGED stack
        BY <1>8 DEF ReturnBranch, ReturnNode
    <2>2. /\ nodes' = final /\ root' = root /\ call' = call /\ pc' = "return"
          /\ ret'.ref = RefTo(ext)
        BY <2>1 DEF Return, Result
    <2> HIDE DEF n, store, B
    <2>3. ext \in Nodes(store) /\ Inhabited(ext) /\ ext.kind = "extension"
          /\ ext.path = common /\ ext.next = RefTo(n)
        BY <1>4 DEF Nodes, Extensions, Extension, Inhabited
    <2> HIDE DEF ext
    <2>4. /\ Sound(final) /\ Within(store, final)
          /\ Entries(final)[RefTo(ext)] = NodeEntries(Entries(store), ext)
        BY <1>4, <2>3, PutSound
    <2>5. NodeEntries(Entries(store), ext) = Prefixed(common, B)
        BY <1>3, <1>4, <2>3, ExtensionEntries
    <2>6. Within(nodes, final)
        BY <1>5, <2>4, WithinTransitive
    <2> HIDE DEF final
    <2>7. Answers(call.op, call.value, Clean, nodes', ret', Entries(nodes)[ref], path)
        BY <1>6, <2>2, <2>4, <2>5 DEF Answers
    <2> QED BY <2>1, <2>2, <2>4, <2>6, <2>7, AnswerKeepsCallInv
<1> QED BY <1>7, <1>8

\* The node at ref is split where its path, which goes on with theirs to the
\* entries X, and the path of the call part.
LEMMA SplitKeepsCallInv ==
    ASSUME NoCollisions, IInv, CallInv, pc = "node", call.op = "set",
           NEW common \in Seq(Nibble), NEW mine \in Seq(Nibble), NEW theirs \in Seq(Nibble),
           path = common \o mine, call.value \in Values,
           NEW X, NEW b, NEW w, SplitInto(b, w, mine, call.value, theirs, X),
           Entries(nodes)[ref] = Prefixed(common \o theirs, X),
           ReturnBranch(b, w, common)
    PROVE  CallInv'
<1> USE DEF SplitInto
<1> DEFINE n == Branch(b.refs, w)
           g == Entries(b.store)
           B == NodeEntries(g, n)
<1>1. /\ Sound(b.store) /\ b.refs \in [Nibble -> Refs(b.store)]
      /\ g \in [Refs(b.store) -> EntrySets]
    BY EntriesType DEF Growing
<1>2. /\ n.kind = "branch" /\ n.branches = b.refs /\ n.value = w /\ n \in Nodes(b.store)
    BY <1>1 DEF Branch, Nodes, Branches
<1>3. B \in EntrySets
    BY <1>1, <1>2, NodeEntriesType
<1> HIDE DEF n
<1>4. \A i \in Nibble : g[n.branches[i]] \in EntrySets
    BY <1>1, <1>2
<1>5. PartsIn(n, g, mine, call.value, theirs, X)
    BY DEF n
<1> HIDE DEF g
<1>6. n.kind = "branch" /\ NodeEntries(g, n) \in EntrySets
    BY <1>2, <1>3
<1>7. ASSUME NEW v \in Values, PartsIn(n, g, mine, v, theirs, X)
      PROVE  Prefixed(common, NodeEntries(g, n))
                = Updated(Prefixed(common \o theirs, X), common \o mine, v)
    BY <1>4, <1>6, <1>7, PartingEntries
<1>10. Prefixed(common, NodeEntries(g, n))
          = Updated(Prefixed(common \o theirs, X), common \o mine, call.value)
    BY <1>5, <1>7
<1>11. Prefixed(common, NodeEntries(Entries(b.store), Branch(b.refs, w)))
          = Updated(Entries(nodes)[ref], path, call.value)
    BY <1>10 DEF g, n
<1> QED BY <1>11, ReturnBranchKeepsCallInv

\* A new branch has nothing yet.
LEMMA NewBranchGrowing ==
    ASSUME CallInv
    PROVE  /\ Growing(NewBranch)
           /\ \A i \in Nibble : ChildEntries(NewBranch, i) = {}
<1>1. Sound(nodes)
    BY DEF CallInv
<1>2. /\ NewBranch.store = nodes /\ NewBranch.refs = [i \in Nibble |-> EmptyRef]
      /\ EmptyRef \in Refs(nodes) /\ Within(nodes, nodes)
    BY DEF NewBranch, NoBranches, Refs, Within
<1>3. Entries(nodes)[EmptyRef] = {}
    BY <1>1, EntriesType
<1> QED BY <1>1, <1>2, <1>3 DEF Growing, ChildEntries

\* A set of a new key or a new value creates a leaf, or gives the node it ends at
\* another value.
LEMMA SetNodeKeepsCallInv ==
    ASSUME NoCollisions, IInv, CallInv, pc = "node", call.op = "set",
           NEW n \in Nodes(nodes), Inhabited(n),
           ReturnNode(nodes, "updated", <<>>, n), UNCHANGED stack,
           NodeEntries(Entries(nodes), n) = Updated(Entries(nodes)[ref], path, call.value)
    PROVE  CallInv'
<1> DEFINE store == Put(nodes, n)
<1>1. /\ nodes' = store /\ ret'.ref = RefTo(n)
      /\ root' = root /\ call' = call /\ pc' = "return" /\ stack' = stack
    BY DEF ReturnNode, Return, Result
<1>2. Sound(nodes)
    BY DEF CallInv
<1> HIDE DEF store
<1>3. /\ Sound(store) /\ Within(nodes, store)
      /\ Entries(store)[RefTo(n)] = NodeEntries(Entries(nodes), n)
    BY <1>2, PutSound DEF store
<1>4. Answers(call.op, call.value, Clean, nodes', ret', Entries(nodes)[ref], path)
    BY <1>1, <1>3 DEF Answers
<1> QED BY <1>1, <1>3, <1>4, AnswerKeepsCallInv

\* Where there is nothing, a set creates a leaf.
LEMMA SetEmptyKeepsCallInv ==
    ASSUME NoCollisions, IInv, CallInv, SetEmpty
    PROVE  CallInv'
<1>1. /\ pc = "node" /\ call.op = "set" /\ ref = EmptyRef /\ UNCHANGED stack
      /\ ReturnNode(nodes, "updated", <<>>, Leaf(path, call.value))
      /\ path \in Seq(Nibble) /\ call.value \in Values /\ Sound(nodes)
    BY DEF SetEmpty, IInv, TypeOK, CallInv
<1>2. Leaf(path, call.value) \in Nodes(nodes) /\ Inhabited(Leaf(path, call.value))
    BY <1>1 DEF Leaf, Leaves, Nodes, Inhabited
<1>3. Entries(nodes)[ref] = {}
    BY <1>1, EntriesType
<1>4. NodeEntries(Entries(nodes), Leaf(path, call.value))
         = Updated(Entries(nodes)[ref], path, call.value)
    BY <1>3 DEF NodeEntries, Leaf, Updated, Without
<1> QED BY <1>1, <1>2, <1>4, SetNodeKeepsCallInv

\* The branch in which a leaf and a new one part.
LEMMA LeafSplit ==
    ASSUME NoCollisions, NoEmptyValue, CallInv,
           NEW mine \in Seq(Nibble), NEW theirs \in Seq(Nibble),
           mine # <<>> /\ theirs # <<>> => Head(mine) # Head(theirs),
           mine # <<>> \/ theirs # <<>>,
           NEW v \in Values, NEW u \in Values,
           NEW b, b = AddLeaf(AddLeaf(NewBranch, mine, v), theirs, u),
           NEW w, w = EndingValue(mine, v, theirs, u)
    PROVE  SplitInto(b, w, mine, v, theirs, {<<<<>>, u>>})
<1> DEFINE X == {<<<<>>, u>>}
           n == Branch(b.refs, w)
<1>1. w = IF mine = <<>> THEN v ELSE IF theirs = <<>> THEN u ELSE NoValue
    BY DEF EndingValue
<1>2. Growing(NewBranch) /\ \A i \in Nibble : ChildEntries(NewBranch, i) = {}
    BY NewBranchGrowing
<1>3. PICK b1 : b1 = AddLeaf(NewBranch, mine, v)
    OBVIOUS
<1>4. LeafAdded(NewBranch, mine, v, b1)
    BY <1>2, <1>3, AddLeafGrows
<1>5. LeafAdded(b1, theirs, u, b)
    <2>1. Growing(b1)
        BY <1>4 DEF LeafAdded
    <2> QED BY <1>3, <2>1, AddLeafGrows
<1>6. X \in EntrySets
    <2>1. <<>> \in Seq(Nibble)
        BY EmptySeq
    <2>2. <<<<>>, u>> \in Seq(Nibble) \X Values
        BY <2>1
    <2> QED BY <2>2 DEF EntrySets
<1>7. ASSUME theirs # <<>> PROVE Prefixed(Tail(theirs), X) = {<<Tail(theirs), u>>}
    BY <1>7, FirstAndRest, PrefixedOne
<1>8. n.branches = b.refs /\ n.value = w
    BY DEF Branch
<1>9. \A i \in Nibble : ChildEntries(b, i) =
         IF theirs # <<>> /\ i = Head(theirs) THEN Prefixed(Tail(theirs), X)
         ELSE IF mine # <<>> /\ i = Head(mine) THEN {<<Tail(mine), v>>} ELSE {}
    BY <1>2, <1>4, <1>5, <1>7 DEF LeafAdded
<1>10. \A x \in Values : (x = n.value /\ x # NoValue) <=>
          (mine = <<>> /\ x = v) \/ (theirs = <<>> /\ <<<<>>, x>> \in X)
    BY <1>1, <1>8 DEF NoEmptyValue
<1>11. PartsIn(n, Entries(b.store), mine, v, theirs, X)
    <2>1. \A i \in Nibble : Entries(b.store)[n.branches[i]] = ChildEntries(b, i)
        BY <1>8 DEF ChildEntries
    <2>2. \A s \in Seq(Nibble), x \in Values : <<s, x>> \in X => s = <<>>
        OBVIOUS
    <2> HIDE DEF n, X
    <2> QED BY <1>9, <1>10, <2>1, <2>2 DEF PartsIn
<1>12. w \in StoredValues /\ (w # NoValue \/ \E i \in Nibble : b.refs[i] # EmptyRef)
    <2>1. w \in StoredValues
        BY <1>1 DEF StoredValues
    <2>2. CASE mine = <<>> \/ theirs = <<>>
        BY <1>1, <2>1, <2>2 DEF NoEmptyValue
    <2>3. CASE mine # <<>> /\ theirs # <<>>
        <3>1. Head(theirs) \in Nibble
            BY <2>3, FirstAndRest
        <3> QED BY <1>5, <2>1, <2>3, <3>1 DEF LeafAdded
    <2> QED BY <2>2, <2>3
<1> QED BY <1>5, <1>6, <1>11, <1>12 DEF LeafAdded, SplitInto

\* The leaf with the path of the key gets the value; another leaf is split.
LEMMA SetLeafKeepsCallInv ==
    ASSUME NoCollisions, NoEmptyValue, IInv, CallInv, SetLeaf
    PROVE  CallInv'
<1> DEFINE leaf == Fetch(ref)
           common == CommonPrefix(path, leaf.path)
           mine == Consume(path, Len(common))
           theirs == Consume(leaf.path, Len(common))
<1>1. /\ leaf.kind = "leaf" /\ leaf \in Nodes(nodes) /\ path \in Seq(Nibble)
      /\ pc = "node" /\ call.op = "set"
      /\ Entries(nodes)[ref] = NodeEntries(Entries(nodes), leaf)
    BY VisitedEntries DEF SetLeaf
<1>2. leaf.value \in Values /\ leaf.path \in Seq(Nibble) /\ call.value \in Values
    BY <1>1, NodeKinds DEF Leaves, IInv, TypeOK
<1>3. Entries(nodes)[ref] = {<<leaf.path, leaf.value>>}
    BY <1>1 DEF NodeEntries
<1>4. /\ common \in Seq(Nibble) /\ mine \in Seq(Nibble) /\ theirs \in Seq(Nibble)
      /\ path = common \o mine /\ leaf.path = common \o theirs
      /\ mine # <<>> /\ theirs # <<>> => Head(mine) # Head(theirs)
    <2> HIDE DEF leaf
    <2> QED BY <1>1, <1>2, PathsPart
<1>5. CASE /\ leaf.path = path
           /\ ReturnNode(nodes, "updated", <<>>, Leaf(path, call.value))
           /\ UNCHANGED stack
    <2>1. Leaf(path, call.value) \in Nodes(nodes) /\ Inhabited(Leaf(path, call.value))
        BY <1>1, <1>2 DEF Leaf, Leaves, Nodes, Inhabited
    <2>2. NodeEntries(Entries(nodes), Leaf(path, call.value)) = {<<path, call.value>>}
        BY DEF NodeEntries, Leaf
    <2>3. Updated(Entries(nodes)[ref], path, call.value) = {<<path, call.value>>}
        BY <1>3, <1>5 DEF Updated, Without
    <2> QED BY <1>1, <1>5, <2>1, <2>2, <2>3, SetNodeKeepsCallInv
<1>6. CASE /\ leaf.path # path
           /\ ReturnBranch(AddLeaf(AddLeaf(NewBranch, mine, call.value),
                                   theirs, leaf.value),
                           EndingValue(mine, call.value, theirs, leaf.value),
                           common)
    <2> HIDE DEF leaf, common, mine, theirs
    <2>1. mine # <<>> \/ theirs # <<>>
        BY <1>4, <1>6
    <2>2. PICK v \in Values : v = call.value
        BY <1>2
    <2>3. PICK u \in Values : u = leaf.value
        BY <1>2
    <2>4. PICK b : b = AddLeaf(AddLeaf(NewBranch, mine, v), theirs, u)
        OBVIOUS
    <2>5. PICK w : w = EndingValue(mine, v, theirs, u)
        OBVIOUS
    <2>6. PICK X : X = {<<<<>>, u>>}
        OBVIOUS
    <2>7. SplitInto(b, w, mine, v, theirs, X)
        BY <1>4, <2>1, <2>4, <2>5, <2>6, LeafSplit
    <2>8. ReturnBranch(b, w, common)
        BY <1>6, <2>2, <2>3, <2>4, <2>5
    <2>9. Entries(nodes)[ref] = Prefixed(common \o theirs, X)
        <3>1. Prefixed(leaf.path, {<<<<>>, u>>}) = {<<leaf.path, u>>}
            BY <1>2, PrefixedOne
        <3> QED BY <1>3, <1>4, <2>3, <2>6, <3>1
    <2>10. SplitInto(b, w, mine, call.value, theirs, X)
        BY <2>2, <2>7
    <2> QED BY <1>1, <1>2, <1>4, <2>8, <2>9, <2>10, SplitKeepsCallInv
<1> QED BY <1>5, <1>6 DEF SetLeaf

\* The branch in which an extension and a new leaf part.
LEMMA ExtensionSplit ==
    ASSUME NoCollisions, NoEmptyValue, CallInv,
           NEW mine \in Seq(Nibble), NEW theirs \in Seq(Nibble), theirs # <<>>,
           mine # <<>> => Head(mine) # Head(theirs),
           NEW v \in Values, NEW next \in NodeRefs(nodes),
           NEW b, b = AddExtension(AddLeaf(NewBranch, mine, v), theirs, next),
           NEW w, w = IF mine = <<>> THEN v ELSE NoValue
    PROVE  SplitInto(b, w, mine, v, theirs, Entries(nodes)[next])
<1>1. PICK X : X = Entries(nodes)[next]
    OBVIOUS
<1> DEFINE n == Branch(b.refs, w)
<1>2. Growing(NewBranch) /\ \A i \in Nibble : ChildEntries(NewBranch, i) = {}
    BY NewBranchGrowing
<1>3. PICK b1 : b1 = AddLeaf(NewBranch, mine, v)
    OBVIOUS
<1>4. LeafAdded(NewBranch, mine, v, b1)
    BY <1>2, <1>3, AddLeafGrows
<1>5. /\ Growing(b)
      /\ b.refs[Head(theirs)] # EmptyRef
      /\ ChildEntries(b, Head(theirs)) = Prefixed(Tail(theirs), X)
      /\ \A j \in Nibble : j # Head(theirs) => ChildEntries(b, j) = ChildEntries(b1, j)
    <2>1. Growing(b1) /\ Sound(nodes)
        BY <1>4 DEF LeafAdded, CallInv
    <2>2. b = AddExtension(b1, theirs, next)
        BY <1>3
    <2> QED BY <1>1, <2>1, <2>2, AddExtensionGrows
<1>6. X \in EntrySets
    BY <1>1, RefCases, EntriesType DEF CallInv, Refs
<1>8. n.branches = b.refs /\ n.value = w
    BY DEF Branch
<1>9. \A i \in Nibble : ChildEntries(b, i) =
         IF theirs # <<>> /\ i = Head(theirs) THEN Prefixed(Tail(theirs), X)
         ELSE IF mine # <<>> /\ i = Head(mine) THEN {<<Tail(mine), v>>} ELSE {}
    BY <1>2, <1>4, <1>5 DEF LeafAdded
<1>10. \A x \in Values : (x = n.value /\ x # NoValue) <=>
          (mine = <<>> /\ x = v) \/ (theirs = <<>> /\ <<<<>>, x>> \in X)
    BY <1>8 DEF NoEmptyValue
<1>11. PartsIn(n, Entries(b.store), mine, v, theirs, X)
    <2>1. \A i \in Nibble : Entries(b.store)[n.branches[i]] = ChildEntries(b, i)
        BY <1>8 DEF ChildEntries
    <2> HIDE DEF n
    <2> QED BY <1>9, <1>10, <2>1 DEF PartsIn
<1>12. w \in StoredValues /\ (w # NoValue \/ \E i \in Nibble : b.refs[i] # EmptyRef)
    BY <1>5, FirstAndRest DEF StoredValues
<1> QED BY <1>1, <1>5, <1>6, <1>11, <1>12 DEF SplitInto

\* An extension the key does not follow is split.
LEMMA SetExtensionKeepsCallInv ==
    ASSUME NoCollisions, NoEmptyValue, IInv, CallInv, SetExtension
    PROVE  CallInv'
<1> DEFINE ext == Fetch(ref)
           common == CommonPrefix(path, ext.path)
           mine == Consume(path, Len(common))
           theirs == Consume(ext.path, Len(common))
<1>1. /\ ext.kind = "extension" /\ ext \in Nodes(nodes) /\ path \in Seq(Nibble)
      /\ pc = "node" /\ call.op = "set" /\ ref # EmptyRef
      /\ Entries(nodes)[ref] = NodeEntries(Entries(nodes), ext)
      /\ Entries(nodes) \in [Refs(nodes) -> EntrySets]
    BY VisitedEntries DEF SetExtension
<1>2. /\ ext \in Extensions(nodes) /\ ext.path \in Seq(Nibble)
      /\ ext.next \in NodeRefs(nodes) /\ ext.next \in Refs(nodes)
      /\ call.value \in Values
    BY <1>1, NodeKinds DEF Extensions, Refs, IInv, TypeOK
<1>3. CASE /\ StartsWith(path, ext.path)
           /\ Recurse([node |-> ext], ext.next, Consume(path, Len(ext.path)))
    <2> DEFINE f == [node |-> ext]
               p == Consume(path, Len(ext.path))
    <2>1. f \in Frames(nodes) /\ StepPath(f) = ext.path /\ ChildRef(f) = ext.next
        BY <1>1, <1>2 DEF Frames, StepPath, ChildRef
    <2>2. p \in Seq(Nibble) /\ path = ext.path \o p
        BY <1>1, <1>2, <1>3, Rejoined
    <2>3. Fetch(ref) = f.node /\ Visit(ChildRef(f), p) /\ stack' = Append(stack, f)
        BY <1>3, <2>1 DEF Recurse
    <2> HIDE DEF f, p
    <2> QED BY <1>1, <2>1, <2>2, <2>3, DescentKeepsCallInv
<1>4. CASE /\ ~StartsWith(path, ext.path)
           /\ ReturnBranch(AddExtension(AddLeaf(NewBranch, mine, call.value),
                                        theirs, ext.next),
                           IF mine = <<>> THEN call.value ELSE NoValue,
                           common)
    <2>1. /\ common \in Seq(Nibble) /\ mine \in Seq(Nibble) /\ theirs \in Seq(Nibble)
          /\ path = common \o mine /\ ext.path = common \o theirs
          /\ mine # <<>> /\ theirs # <<>> => Head(mine) # Head(theirs)
        <3> HIDE DEF ext
        <3> QED BY <1>1, <1>2, PathsPart
    <2>2. theirs # <<>>
        <3> HIDE DEF ext
        <3> QED BY <1>1, <1>2, <1>4, RestNotEmpty
    <2> HIDE DEF ext, common, mine, theirs
    <2>3. PICK v \in Values : v = call.value
        BY <1>2
    <2>4. PICK b : b = AddExtension(AddLeaf(NewBranch, mine, v), theirs, ext.next)
        OBVIOUS
    <2>5. PICK w : w = IF mine = <<>> THEN v ELSE NoValue
        OBVIOUS
    <2>6. SplitInto(b, w, mine, v, theirs, Entries(nodes)[ext.next])
        BY <1>2, <2>1, <2>2, <2>4, <2>5, ExtensionSplit
    <2>7. ReturnBranch(b, w, common)
        BY <1>4, <2>3, <2>4, <2>5
    <2>8. PICK X : X = Entries(nodes)[ext.next]
        OBVIOUS
    <2>9. Entries(nodes)[ref] = Prefixed(common \o theirs, X)
        BY <1>1, <2>1, <2>8 DEF NodeEntries
    <2>10. SplitInto(b, w, mine, call.value, theirs, X)
        BY <2>3, <2>6, <2>8
    <2> QED BY <1>1, <1>2, <2>1, <2>7, <2>9, <2>10, SplitKeepsCallInv
<1> QED BY <1>3, <1>4 DEF SetExtension

\* At the end of the key the branch gets the value.
LEMMA SetBranchNodeKeepsCallInv ==
    ASSUME NoCollisions, NoEmptyValue, IInv, CallInv, SetBranchNode
    PROVE  CallInv'
<1> DEFINE b == Fetch(ref)
<1>1. /\ b.kind = "branch" /\ b \in Nodes(nodes) /\ path \in Seq(Nibble)
      /\ pc = "node" /\ call.op = "set" /\ ref # EmptyRef
      /\ Entries(nodes)[ref] = NodeEntries(Entries(nodes), b)
      /\ Entries(nodes) \in [Refs(nodes) -> EntrySets]
    BY VisitedEntries DEF SetBranchNode
<1>2. /\ b \in Branches(nodes) /\ b.branches \in [Nibble -> Refs(nodes)]
      /\ call.value \in Values
    BY <1>1, NodeKinds DEF Branches, IInv, TypeOK
<1>3. CASE /\ path = <<>>
           /\ ReturnNode(nodes, "updated", <<>>, [b EXCEPT !.value = call.value])
           /\ UNCHANGED stack
    <2> DEFINE n == [b EXCEPT !.value = call.value]
    <2>1. /\ n \in Branches(nodes) /\ n.kind = "branch"
          /\ n.branches = b.branches /\ n.value = call.value
        <3> HIDE DEF b
        <3> QED BY <1>2 DEF Branches, StoredValues
    <2>2. ReturnNode(nodes, "updated", <<>>, n)
        BY <1>3
    <2> HIDE DEF n, b
    <2>3. n \in Nodes(nodes) /\ Inhabited(n)
        BY <1>2, <2>1 DEF Nodes, Inhabited, NoEmptyValue
    <2>4. NodeEntries(Entries(nodes), n) \in EntrySets /\ Entries(nodes)[ref] \in EntrySets
        BY <1>1, <2>3, NodeEntriesType
    <2>5. \A i \in Nibble : Entries(nodes)[b.branches[i]] \in EntrySets
        BY <1>1, <1>2
    <2>6. ASSUME NEW k \in Seq(Nibble), NEW u \in Values
          PROVE  <<k, u>> \in NodeEntries(Entries(nodes), n) <=>
                    IF k = <<>> THEN u = call.value ELSE <<k, u>> \in Entries(nodes)[ref]
        <3>1. CASE k = <<>>
            <4>1. <<<<>>, u>> \in NodeEntries(Entries(nodes), n) <=> u = n.value /\ u # NoValue
                BY <2>1, <2>5, BranchEntries
            <4> QED BY <1>2, <2>1, <3>1, <4>1 DEF NoEmptyValue
        <3>2. CASE k # <<>>
            <4>1. <<k, u>> \in NodeEntries(Entries(nodes), n) <=>
                     <<Tail(k), u>> \in Entries(nodes)[n.branches[Head(k)]]
                BY <2>1, <2>5, <3>2, BranchEntries
            <4>2. <<k, u>> \in NodeEntries(Entries(nodes), b) <=>
                     <<Tail(k), u>> \in Entries(nodes)[b.branches[Head(k)]]
                BY <1>1, <2>5, <3>2, BranchEntries
            <4> QED BY <1>1, <2>1, <3>2, <4>1, <4>2
        <3> QED BY <3>1, <3>2
    <2>7. NodeEntries(Entries(nodes), n) = Updated(Entries(nodes)[ref], path, call.value)
        <3>1. PICK v \in Values : v = call.value
            BY <1>2
        <3>2. PICK D \in EntrySets : D = Entries(nodes)[ref]
            BY <2>4
        <3>3. path \in Seq(Nibble)
            BY <1>1
        <3>4. /\ Updated(D, path, v) \in EntrySets
              /\ \A j, u : <<j, u>> \in Updated(D, path, v) <=>
                    IF j = path THEN u = v ELSE <<j, u>> \in D
            BY <3>3, UpdatedHas
        <3>5. ASSUME NEW k \in Seq(Nibble), NEW u \in Values
              PROVE  <<k, u>> \in NodeEntries(Entries(nodes), n) <=>
                        <<k, u>> \in Updated(D, path, v)
            BY <1>3, <2>6, <3>1, <3>2, <3>4
        <3>6. NodeEntries(Entries(nodes), n) = Updated(D, path, v)
            BY <2>4, <3>4, <3>5, SameEntries
        <3> QED BY <3>1, <3>2, <3>6
    <2> QED BY <1>1, <1>3, <2>2, <2>3, <2>7, SetNodeKeepsCallInv
<1>4. CASE /\ path # <<>>
           /\ Recurse([node |-> b, idx |-> Head(path)], b.branches[Head(path)], Tail(path))
    <2> DEFINE f == [node |-> b, idx |-> Head(path)]
               p == Tail(path)
    <2>1. Head(path) \in Nibble /\ p \in Seq(Nibble) /\ path = <<Head(path)>> \o p
        BY <1>1, <1>4, FirstAndRest
    <2>2. /\ f \in Frames(nodes) /\ StepPath(f) = <<Head(path)>>
          /\ ChildRef(f) = b.branches[Head(path)]
        BY <1>1, <1>2, <2>1 DEF Frames, StepPath, ChildRef
    <2>3. Fetch(ref) = f.node /\ Visit(ChildRef(f), p) /\ stack' = Append(stack, f)
        BY <1>4, <2>2 DEF Recurse
    <2> HIDE DEF f, p
    <2> QED BY <1>1, <2>1, <2>2, <2>3, DescentKeepsCallInv
<1> QED BY <1>3, <1>4 DEF SetBranchNode

\* The node above gets the new reference.
LEMMA SetAboveKeepsCallInv ==
    ASSUME NoCollisions, IInv, CallInv, pc = "return", call.op = "set",
           stack # <<>>, stack' = Front(stack),
           NEW n \in Nodes(nodes), Inhabited(n), ReturnNode(nodes, "updated", <<>>, n),
           \A k \in Seq(Nibble) :
              Entries(nodes)[ret.ref]
                 = Updated(Entries(nodes)[ChildRef(Last(stack))], k, call.value)
              => NodeEntries(Entries(nodes), n)
                    = Updated(NodeEntries(Entries(nodes), Last(stack).node),
                              StepPath(Last(stack)) \o k, call.value)
    PROVE  CallInv'
<1> DEFINE store == Put(nodes, n)
<1>1. /\ nodes' = store /\ ret'.ref = RefTo(n)
      /\ root' = root /\ call' = call /\ pc' = "return"
    BY DEF ReturnNode, Return, Result
<1>2. Sound(nodes)
    BY DEF CallInv
<1> HIDE DEF store
<1>3. /\ Sound(store) /\ Within(nodes, store)
      /\ Entries(store)[RefTo(n)] = NodeEntries(Entries(nodes), n)
    BY <1>2, PutSound DEF store
<1>4. ASSUME NEW k \in Seq(Nibble),
             Answers(call.op, call.value, Clean, nodes, ret,
                     Entries(nodes)[ChildRef(Last(stack))], k)
      PROVE  Answers(call.op, call.value, Clean, nodes', ret',
                     NodeEntries(Entries(nodes), Last(stack).node),
                     StepPath(Last(stack)) \o k)
    <2>1. Entries(nodes)[ret.ref]
             = Updated(Entries(nodes)[ChildRef(Last(stack))], k, call.value)
        BY <1>4 DEF Answers
    <2>2. NodeEntries(Entries(nodes), n)
             = Updated(NodeEntries(Entries(nodes), Last(stack).node),
                       StepPath(Last(stack)) \o k, call.value)
        BY <2>1
    <2> QED BY <1>1, <1>3, <2>2 DEF Answers
<1> QED BY <1>1, <1>3, <1>4, AnswerAboveKeepsCallInv

\* What a handler waited for has come back.
LEMMA ResumedType ==
    ASSUME IInv, CallInv, NEW op, NEW kind, Resuming(op, kind)
    PROVE  /\ pc = "return" /\ call.op = op /\ stack # <<>> /\ stack' = Front(stack)
           /\ Last(stack) \in Frames(nodes) /\ Last(stack).node.kind = kind
           /\ Last(stack).node \in Nodes(nodes)
           /\ Sound(nodes) /\ Entries(nodes) \in [Refs(nodes) -> EntrySets]
           /\ op = "set" => ret \in Updates(nodes) /\ call.value \in Values
           /\ op = "remove" => ret \in Updates(nodes) \cup {Deleted}
           /\ ret \in Updates(nodes) => ret.ref \in NodeRefs(nodes) /\ ret.ref \in Refs(nodes)
<1>1. /\ pc = "return" /\ call.op = op /\ stack # <<>> /\ stack' = Front(stack)
      /\ Last(stack).node.kind = kind /\ Sound(nodes)
    BY DEF Resuming, CallInv
<1>2. stack \in Seq(Frames(nodes))
    BY DEF IInv, TypeOK
<1>3. Last(stack) \in Frames(nodes)
    BY <1>1, <1>2, FrontProperties
<1>4. Last(stack).node \in Nodes(nodes)
    BY <1>3, FrameType
<1>5. /\ op = "set" => ret \in Updates(nodes) /\ call.value \in Values
      /\ op = "remove" => ret \in Updates(nodes) \cup {Deleted}
    BY <1>1 DEF IInv, TypeOK
<1>6. ret \in Updates(nodes) => ret.ref \in NodeRefs(nodes) /\ ret.ref \in Refs(nodes)
    BY DEF Updates, Refs
<1> QED BY <1>1, <1>3, <1>4, <1>5, <1>6, EntriesType

\* The extension goes on with the changed node.
LEMMA SetExtensionReturnKeepsCallInv ==
    ASSUME NoCollisions, IInv, CallInv, SetExtensionReturn
    PROVE  CallInv'
<1> DEFINE f == Last(stack)
           n == Extension(f.node.path, ret.ref)
<1>1. /\ pc = "return" /\ call.op = "set" /\ stack # <<>> /\ stack' = Front(stack)
      /\ f \in Frames(nodes) /\ f.node.kind = "extension" /\ f.node \in Nodes(nodes)
      /\ Entries(nodes) \in [Refs(nodes) -> EntrySets]
      /\ call.value \in Values /\ ret.ref \in NodeRefs(nodes) /\ ret.ref \in Refs(nodes)
    BY ResumedType DEF SetExtensionReturn
<1>2. ReturnNode(nodes, "updated", <<>>, n)
    BY DEF SetExtensionReturn
<1>3. f.node.path \in Seq(Nibble) /\ f.node.next \in Refs(nodes)
    BY <1>1, NodeKinds DEF Extensions, Refs
<1>4. /\ n \in Nodes(nodes) /\ Inhabited(n)
      /\ n.kind = "extension" /\ n.path = f.node.path /\ n.next = ret.ref
    <2> HIDE DEF f
    <2> QED BY <1>1, <1>3 DEF Extension, Extensions, Nodes, Inhabited
<1>5. StepPath(f) = f.node.path /\ ChildRef(f) = f.node.next
    BY <1>1 DEF StepPath, ChildRef
<1> HIDE DEF n
<1>6. ASSUME NEW k \in Seq(Nibble),
             Entries(nodes)[ret.ref] = Updated(Entries(nodes)[ChildRef(f)], k, call.value)
      PROVE  NodeEntries(Entries(nodes), n)
                = Updated(NodeEntries(Entries(nodes), f.node), StepPath(f) \o k, call.value)
    <2>1. NodeEntries(Entries(nodes), n) = Prefixed(f.node.path, Entries(nodes)[ret.ref])
        BY <1>4 DEF NodeEntries
    <2>2. NodeEntries(Entries(nodes), f.node)
             = Prefixed(f.node.path, Entries(nodes)[f.node.next])
        BY <1>1 DEF NodeEntries
    <2> HIDE DEF f
    <2>3. PICK D \in EntrySets : D = Entries(nodes)[f.node.next]
        BY <1>1, <1>3
    <2>4. PICK p \in Seq(Nibble) : p = f.node.path
        BY <1>3
    <2>5. PICK v \in Values : v = call.value
        BY <1>1
    <2>6. Prefixed(p, Updated(D, k, v)) = Updated(Prefixed(p, D), p \o k, v)
        BY ExtensionUpdated
    <2> QED BY <1>5, <1>6, <2>1, <2>2, <2>3, <2>4, <2>5, <2>6
<1> QED BY <1>1, <1>2, <1>4, <1>6, SetAboveKeepsCallInv

\* The branch goes on with the changed child, which may be its first.
LEMMA SetBranchReturnKeepsCallInv ==
    ASSUME NoCollisions, NoEmptyValue, IInv, CallInv, SetBranchReturn
    PROVE  CallInv'
<1> DEFINE f == Last(stack)
           n == SetBranch(f.node, f.idx, ret.ref)
<1>1. /\ pc = "return" /\ call.op = "set" /\ stack # <<>> /\ stack' = Front(stack)
      /\ f \in Frames(nodes) /\ f.node.kind = "branch" /\ f.node \in Nodes(nodes)
      /\ Entries(nodes) \in [Refs(nodes) -> EntrySets]
      /\ call.value \in Values /\ ret.ref \in NodeRefs(nodes) /\ ret.ref \in Refs(nodes)
      /\ ret.ref # EmptyRef
    BY ResumedType, RefCases DEF SetBranchReturn
<1>2. ReturnNode(nodes, "updated", <<>>, n)
    BY DEF SetBranchReturn
<1>3. f.node \in Branches(nodes) /\ f.idx \in Nibble
    BY <1>1, FrameKinds
<1>4. StepPath(f) = <<f.idx>> /\ ChildRef(f) = f.node.branches[f.idx]
    BY <1>1 DEF StepPath, ChildRef
<1> HIDE DEF f
<1>5. /\ n.kind = "branch" /\ n.branches[f.idx] = ret.ref
      /\ n \in Nodes(nodes)
    <2>1. NoValue \in StoredValues
        BY DEF StoredValues
    <2>2. PICK b \in Branches(nodes) : b = f.node
        BY <1>3
    <2>3. PICK i \in Nibble : i = f.idx
        BY <1>3
    <2>4. PICK r \in Refs(nodes) : r = ret.ref
        BY <1>1
    <2>5. SetBranch(b, i, r).kind = "branch" /\ SetBranch(b, i, r).branches[i] = r
        BY ChildReplaced
    <2>6. SetBranch(b, i, r) \in Nodes(nodes)
        BY <2>1, BranchUpdateType
    <2> QED BY <2>2, <2>3, <2>4, <2>5, <2>6
<1>6. Inhabited(n)
    BY <1>1, <1>3, <1>5 DEF Inhabited, Children
<1>7. ASSUME NEW k \in Seq(Nibble),
             Entries(nodes)[ret.ref] = Updated(Entries(nodes)[ChildRef(f)], k, call.value)
      PROVE  NodeEntries(Entries(nodes), n)
                = Updated(NodeEntries(Entries(nodes), f.node), StepPath(f) \o k, call.value)
    <2>1. PICK b \in Branches(nodes) : b = f.node
        BY <1>3
    <2>2. PICK i \in Nibble : i = f.idx
        BY <1>3
    <2>3. PICK r \in Refs(nodes) : r = ret.ref
        BY <1>1
    <2>4. PICK g : g = Entries(nodes)
        OBVIOUS
    <2>5. PICK v \in Values : v = call.value
        BY <1>1
    <2>6. \A j \in Nibble : g[b.branches[j]] \in EntrySets
        BY <1>1, <2>4 DEF Branches
    <2>7. NodeEntries(g, b) \in EntrySets /\ NodeEntries(g, SetBranch(b, i, r)) \in EntrySets
        BY <1>1, <1>5, <2>1, <2>2, <2>3, <2>4, NodeEntriesType
    <2>8. g[r] = Updated(g[b.branches[i]], k, v)
        BY <1>4, <1>7, <2>1, <2>2, <2>3, <2>4, <2>5
    <2>9. NodeEntries(g, SetBranch(b, i, r)) = Updated(NodeEntries(g, b), <<i>> \o k, v)
        BY <2>6, <2>7, <2>8, BranchUpdated DEF NoEmptyValue
    <2> QED BY <1>4, <2>1, <2>2, <2>3, <2>4, <2>5, <2>9
<1> HIDE DEF n
<1> QED BY <1>1, <1>2, <1>5, <1>6, <1>7, SetAboveKeepsCallInv DEF f

\* At the end of a call the last result is about the root and the whole key.
LEMMA LastResult ==
    ASSUME IInv, CallInv, pc = "return", stack = <<>>
    PROVE  /\ Answers(call.op, call.value, Clean, nodes, ret, Contents, call.key)
           /\ call.op = "remove" => root # EmptyRef
           /\ call.key \in Keys /\ call.key \in Seq(Nibble)
           /\ Contents \in EntrySets /\ Sound(nodes)
<1>1. Len(stack) + 1 = 1
    BY EmptySeq
<1>2. Here = root
    BY <1>1 DEF Here, Slot
<1>3. PICK rest : /\ Trail(nodes, root, stack, call.key, rest)
                  /\ Answers(call.op, call.value, Clean, nodes, ret,
                             Entries(nodes)[Here], rest[Len(stack) + 1])
    BY DEF CallInv, Returns
<1>4. rest[Len(stack) + 1] = call.key
    BY <1>1, <1>3 DEF Trail
<1>5. Answers(call.op, call.value, Clean, nodes, ret, Contents, call.key)
    BY <1>2, <1>3, <1>4 DEF Contents
<1>6. Contents \in EntrySets
    BY EntriesType DEF CallInv, IInv, TypeOK, Contents
<1>7. /\ call.op = "remove" => root # EmptyRef
      /\ call.key \in Keys /\ call.key \in Seq(Nibble) /\ Sound(nodes)
    BY <1>2 DEF CallInv, Returns, KeysInUse, IInv, TypeOK
<1> QED BY <1>5, <1>6, <1>7

\* When set returns, the new root has the entries of the old one, but the new
\* value for the key.
LEMMA SetDoneContents ==
    ASSUME IInv, CallInv, SetDone
    PROVE  Contents' = Updated(Contents, call.key, call.value)
<1>1. /\ pc = "return" /\ call.op = "set" /\ stack = <<>>
      /\ root' = ret.ref /\ nodes' = nodes
    BY DEF SetDone, Finish
<1>2. Entries(nodes)[ret.ref] = Updated(Contents, call.key, call.value)
    BY <1>1, LastResult DEF Answers
<1> QED BY <1>1, <1>2 DEF Contents

\* The root that set ends with denotes the contents the call was to leave.
LEMMA SetDoneKeepsCallInv ==
    ASSUME IInv, CallInv, SetDone
    PROVE  CallInv'
<1>1. /\ pc = "return" /\ call.op = "set" /\ stack = <<>>
      /\ root' = ret.ref /\ nodes' = nodes /\ call' = call
      /\ Finish(ret.ref, Returned)
    BY DEF SetDone, Finish
<1>2. Entries(nodes)[ret.ref] = Updated(Contents, call.key, call.value)
    BY <1>1, LastResult DEF Answers
<1>3. call.key \in Keys /\ \A e \in Contents : e[1] \in Keys
    BY <1>1 DEF CallInv, KeysInUse
<1>4. \A e \in Entries(nodes)[ret.ref] : e[1] \in Keys
    BY <1>2, <1>3 DEF Updated, Without
<1>5. GetReadsContents'
    BY <1>1 DEF GetReadsContents
<1> QED BY <1>1, <1>4, <1>5, FinishKeepsCallInv

\* The handlers of set, and its end.
LEMMA SettingKeepsCallInv ==
    ASSUME NoCollisions, NoEmptyValue, IInv, CallInv, Setting
    PROVE  CallInv'
BY SetEmptyKeepsCallInv, SetLeafKeepsCallInv, SetExtensionKeepsCallInv,
   SetBranchNodeKeepsCallInv, SetExtensionReturnKeepsCallInv,
   SetBranchReturnKeepsCallInv, SetDoneKeepsCallInv DEF Setting

--------------------------------------------------------------------------------
(* The handlers of remove.                                                     *)

\* Two prefixes are one.
LEMMA PrefixedTwice ==
    ASSUME NEW p \in Seq(Nibble), NEW q \in Seq(Nibble), NEW E \in EntrySets
    PROVE  Prefixed(p \o q, E) = Prefixed(p, Prefixed(q, E))
<1>1. p \o q \in Seq(Nibble) /\ Prefixed(q, E) \in EntrySets
    BY Joined, PrefixedType
<1>2. Prefixed(p \o q, E) \in EntrySets /\ Prefixed(p, Prefixed(q, E)) \in EntrySets
    BY <1>1, PrefixedType
<1>3. ASSUME NEW k \in Seq(Nibble), NEW v \in Values
      PROVE  <<k, v>> \in Prefixed(p \o q, E) <=> <<k, v>> \in Prefixed(p, Prefixed(q, E))
    <2>1. ASSUME <<k, v>> \in Prefixed(p \o q, E)
          PROVE  <<k, v>> \in Prefixed(p, Prefixed(q, E))
        <3>1. PICK s \in Seq(Nibble) : k = (p \o q) \o s /\ <<s, v>> \in E
            BY <1>1, <2>1, PrefixedSplit
        <3>2. k = p \o (q \o s) /\ q \o s \in Seq(Nibble)
            BY <3>1, Associated, Joined
        <3>3. <<q \o s, v>> \in Prefixed(q, E)
            BY <3>1, PrefixedHas
        <3> QED BY <1>1, <3>2, <3>3, PrefixedHas
    <2>2. ASSUME <<k, v>> \in Prefixed(p, Prefixed(q, E))
          PROVE  <<k, v>> \in Prefixed(p \o q, E)
        <3>1. PICK t \in Seq(Nibble) : k = p \o t /\ <<t, v>> \in Prefixed(q, E)
            BY <1>1, <2>2, PrefixedSplit
        <3>2. PICK s \in Seq(Nibble) : t = q \o s /\ <<s, v>> \in E
            BY <3>1, PrefixedSplit
        <3>3. k = (p \o q) \o s
            <4>1. (p \o q) \o s = p \o (q \o s)
                BY Associated
            <4> QED BY <3>1, <3>2, <4>1
        <3> QED BY <1>1, <3>2, <3>3, PrefixedHas
    <2> QED BY <2>1, <2>2
<1> QED BY <1>2, <1>3, SameEntries

\* A node that takes over the nibbles before it.
LEMMA MergedEntries ==
    ASSUME NEW store, NEW child \in Nodes(store), NEW p \in Seq(Nibble),
           NEW g \in [Refs(store) -> EntrySets]
    PROVE  /\ child.kind = "leaf" =>
                NodeEntries(g, Leaf(p \o child.path, child.value))
                   = Prefixed(p, NodeEntries(g, child))
           /\ child.kind = "extension" =>
                NodeEntries(g, Extension(p \o child.path, child.next))
                   = Prefixed(p, NodeEntries(g, child))
<1>1. ASSUME child.kind = "leaf"
      PROVE  NodeEntries(g, Leaf(p \o child.path, child.value))
                   = Prefixed(p, NodeEntries(g, child))
    <2> DEFINE e == <<child.path, child.value>>
    <2>1. NodeEntries(g, child) = {e}
        BY <1>1 DEF NodeEntries
    <2>2. e[1] = child.path /\ e[2] = child.value
        OBVIOUS
    <2> HIDE DEF e
    <2>3. Prefixed(p, {e}) = {<<p \o e[1], e[2]>>}
        BY DEF Prefixed
    <2>4. NodeEntries(g, Leaf(p \o child.path, child.value)) = {<<p \o child.path, child.value>>}
        BY DEF NodeEntries, Leaf
    <2> QED BY <2>1, <2>2, <2>3, <2>4
<1>2. ASSUME child.kind = "extension"
      PROVE  NodeEntries(g, Extension(p \o child.path, child.next))
                   = Prefixed(p, NodeEntries(g, child))
    <2>1. child.path \in Seq(Nibble) /\ g[child.next] \in EntrySets
        BY <1>2, NodeKinds DEF Extensions, Refs
    <2>2. NodeEntries(g, child) = Prefixed(child.path, g[child.next])
        BY <1>2 DEF NodeEntries
    <2>3. NodeEntries(g, Extension(p \o child.path, child.next))
             = Prefixed(p \o child.path, g[child.next])
        BY DEF NodeEntries, Extension
    <2> QED BY <2>1, <2>2, <2>3, PrefixedTwice
<1> QED BY <1>1, <1>2

\* What is deleted of the entries below a path is deleted of those with the path.
LEMMA PrefixedRemoved ==
    ASSUME NEW p \in Seq(Nibble), NEW D \in EntrySets, NEW E \in EntrySets,
           NEW k \in Seq(Nibble), NEW clean, E \subseteq D, clean => Without(D, k) \subseteq E
    PROVE  /\ Prefixed(p, E) \subseteq Prefixed(p, D)
           /\ clean => Without(Prefixed(p, D), p \o k) \subseteq Prefixed(p, E)
<1>1. Prefixed(p, E) \subseteq Prefixed(p, D)
    BY DEF Prefixed
<1>2. ASSUME clean, NEW x \in Without(Prefixed(p, D), p \o k)
      PROVE  x \in Prefixed(p, E)
    <2>1. PICK d \in D : x = <<p \o d[1], d[2]>>
        BY <1>2 DEF Without, Prefixed
    <2>2. x[1] # p \o k /\ x[1] = p \o d[1]
        BY <1>2, <2>1 DEF Without
    <2>3. d \in E
        BY <1>2, <2>2 DEF Without
    <2> QED BY <2>1, <2>3 DEF Prefixed
<1> QED BY <1>1, <1>2

\* When a key is all there is below a path, it is with the path in front.
LEMMA PrefixedOnly ==
    ASSUME NEW p, NEW D, NEW k, \A e \in D : e[1] = k
    PROVE  \A e \in Prefixed(p, D) : e[1] = p \o k
BY DEF Prefixed

\* What is deleted below a branch is deleted of the entries of the branch.
LEMMA BranchRemoved ==
    ASSUME NEW store, NEW b \in Branches(store), NEW i \in Nibble, NEW r, NEW g,
           \A j \in Nibble : g[b.branches[j]] \in EntrySets, g[r] \in EntrySets,
           NEW k \in Seq(Nibble), NEW clean,
           g[r] \subseteq g[b.branches[i]], clean => Without(g[b.branches[i]], k) \subseteq g[r]
    PROVE  /\ NodeEntries(g, SetBranch(b, i, r)) \subseteq NodeEntries(g, b)
           /\ clean => Without(NodeEntries(g, b), <<i>> \o k)
                          \subseteq NodeEntries(g, SetBranch(b, i, r))
<1> DEFINE n == SetBranch(b, i, r)
<1>1. /\ n.kind = "branch" /\ n.value = b.value
      /\ \A j \in Nibble : n.branches[j] = IF j = i THEN r ELSE b.branches[j]
    BY ChildReplaced
<1>2. b.kind = "branch"
    BY DEF Branches
<1> HIDE DEF n
<1>3. NodeEntries(g, n) \subseteq NodeEntries(g, b)
    <2>1. NodeEntries(g, n) = (UNION {Prefixed(<<j>>, g[n.branches[j]]) : j \in Nibble})
                                 \cup {<<<<>>, v>> : v \in {n.value} \ {NoValue}}
        BY <1>1 DEF NodeEntries
    <2>2. NodeEntries(g, b) = (UNION {Prefixed(<<j>>, g[b.branches[j]]) : j \in Nibble})
                                 \cup {<<<<>>, v>> : v \in {b.value} \ {NoValue}}
        BY <1>2 DEF NodeEntries
    <2>3. ASSUME NEW j \in Nibble
          PROVE  Prefixed(<<j>>, g[n.branches[j]]) \subseteq Prefixed(<<j>>, g[b.branches[j]])
        <3>1. g[n.branches[j]] \subseteq g[b.branches[j]]
            BY <1>1
        <3> QED BY <3>1 DEF Prefixed
    <2>4. (UNION {Prefixed(<<j>>, g[n.branches[j]]) : j \in Nibble})
             \subseteq (UNION {Prefixed(<<j>>, g[b.branches[j]]) : j \in Nibble})
        BY <2>3
    <2> QED BY <1>1, <2>1, <2>2, <2>4
<1>4. ASSUME clean
      PROVE  Without(NodeEntries(g, b), <<i>> \o k) \subseteq NodeEntries(g, n)
    <2>1. NodeEntries(g, n) = (UNION {Prefixed(<<j>>, g[n.branches[j]]) : j \in Nibble})
                                 \cup {<<<<>>, v>> : v \in {n.value} \ {NoValue}}
        BY <1>1 DEF NodeEntries
    <2>2. NodeEntries(g, b) = (UNION {Prefixed(<<j>>, g[b.branches[j]]) : j \in Nibble})
                                 \cup {<<<<>>, v>> : v \in {b.value} \ {NoValue}}
        BY <1>2 DEF NodeEntries
    <2>3. ASSUME NEW j \in Nibble, NEW x \in Without(Prefixed(<<j>>, g[b.branches[j]]), <<i>> \o k)
          PROVE  x \in Prefixed(<<j>>, g[n.branches[j]])
        <3>1. CASE j # i
            <4>1. n.branches[j] = b.branches[j]
                BY <1>1, <3>1
            <4> QED BY <2>3, <4>1 DEF Without
        <3>2. CASE j = i
            <4>1. <<i>> \in Seq(Nibble) /\ g[b.branches[i]] \in EntrySets
                OBVIOUS
            <4>2. Without(Prefixed(<<i>>, g[b.branches[i]]), <<i>> \o k) \subseteq Prefixed(<<i>>, g[r])
                BY <1>4, <4>1, PrefixedRemoved
            <4>3. n.branches[i] = r
                BY <1>1
            <4> QED BY <2>3, <3>2, <4>2, <4>3
        <3> QED BY <3>1, <3>2
    <2>4. ASSUME NEW x \in Without(NodeEntries(g, b), <<i>> \o k)
          PROVE  x \in NodeEntries(g, n)
        <3>1. x \in NodeEntries(g, b) /\ x[1] # <<i>> \o k
            BY <2>4 DEF Without
        <3>2. CASE x \in {<<<<>>, v>> : v \in {b.value} \ {NoValue}}
            BY <1>1, <2>1, <3>2
        <3>3. CASE \E j \in Nibble : x \in Prefixed(<<j>>, g[b.branches[j]])
            <4>1. PICK j \in Nibble : x \in Prefixed(<<j>>, g[b.branches[j]])
                BY <3>3
            <4>2. x \in Prefixed(<<j>>, g[n.branches[j]])
                BY <2>3, <3>1, <4>1 DEF Without
            <4> QED BY <2>1, <4>2
        <3> QED BY <2>2, <3>1, <3>2, <3>3
    <2> QED BY <2>4
<1> QED BY <1>3, <1>4 DEF n

\* What a handler of remove that was applied to the entries D, with k of the key,
\* leaves when it returns.
Removal(D, k) ==
    /\ Sound(nodes') /\ Within(nodes, nodes')
    /\ root' = root /\ call' = call /\ pc' = "return"
    /\ Answers("remove", call.value, Clean, nodes', ret', D, k)

\* It has deleted the node, and the key was all there was.
LEMMA DeletedRemoval ==
    ASSUME Sound(nodes), Return(nodes, Deleted), NEW D, NEW k, \A e \in D : e[1] = k
    PROVE  Removal(D, k)
BY DEF Return, Deleted, Removal, Answers, Within

\* It has put another node in its place.
LEMMA NodeRemoval ==
    ASSUME NoCollisions, Sound(nodes), NEW action \in {"updated", "useless"}, NEW p,
           NEW n \in Nodes(nodes), Inhabited(n), ReturnNode(nodes, action, p, n),
           action = "useless" => n.kind # "branch",
           NEW D, NEW k, NodeEntries(Entries(nodes), n) \subseteq D,
           Clean => Without(D, k) \subseteq NodeEntries(Entries(nodes), n)
    PROVE  Removal(D, k)
<1> DEFINE store == Put(nodes, n)
<1>1. /\ nodes' = store /\ ret'.ref = RefTo(n) /\ ret'.action = action
      /\ root' = root /\ call' = call /\ pc' = "return"
    BY DEF ReturnNode, Return, Result
<1> HIDE DEF store
<1>2. /\ Sound(store) /\ Within(nodes, store)
      /\ NodeAt(store, RefTo(n)) = n
      /\ Entries(store)[RefTo(n)] = NodeEntries(Entries(nodes), n)
    BY PutSound DEF store
<1> QED BY <1>1, <1>2 DEF Removal, Answers

\* The handler of the node that is visited returns.
LEMMA RemovalKeepsCallInv ==
    ASSUME IInv, CallInv, pc = "node", call.op = "remove", ref # EmptyRef, stack' = stack,
           Removal(Entries(nodes)[ref], path)
    PROVE  CallInv'
BY AnswerKeepsCallInv DEF Removal

\* What the handler at the top of the stack gets is about the node it went on
\* with.
LEMMA ChildAnswer ==
    ASSUME IInv, CallInv, pc = "return", stack # <<>>
    PROVE  \E k \in Seq(Nibble) :
              /\ call.op = "remove" => ChildRef(Last(stack)) # EmptyRef
              /\ Answers(call.op, call.value, Clean, nodes, ret,
                         Entries(nodes)[ChildRef(Last(stack))], k)
<1>1. PICK rest : /\ Trail(nodes, root, stack, call.key, rest)
                  /\ Answers(call.op, call.value, Clean, nodes, ret,
                             Entries(nodes)[Here], rest[Len(stack) + 1])
    BY DEF CallInv, Returns
<1>2. stack \in Seq(Frames(nodes))
    BY DEF IInv, TypeOK
<1>3. Len(stack) \in Nat \ {0} /\ Last(stack) = stack[Len(stack)]
    BY <1>2, FrontProperties
<1>4. Len(stack) + 1 # 1 /\ Len(stack) + 1 - 1 = Len(stack) /\ Len(stack) + 1 \in 1..Len(stack) + 1
    BY <1>3
<1>5. Here = ChildRef(Last(stack))
    BY <1>3, <1>4 DEF Here, Slot
<1>6. rest[Len(stack) + 1] \in Seq(Nibble)
    BY <1>1, <1>4 DEF Trail
<1>7. call.op = "remove" => ChildRef(Last(stack)) # EmptyRef
    BY <1>5 DEF CallInv, Returns
<1> QED BY <1>1, <1>5, <1>6, <1>7

\* The handler at the top of the stack returns.
LEMMA RemovalAboveKeepsCallInv ==
    ASSUME IInv, CallInv, pc = "return", call.op = "remove",
           stack # <<>>, stack' = Front(stack),
           \A k \in Seq(Nibble) :
              /\ ChildRef(Last(stack)) # EmptyRef
              /\ Answers("remove", call.value, Clean, nodes, ret,
                         Entries(nodes)[ChildRef(Last(stack))], k)
              => Removal(NodeEntries(Entries(nodes), Last(stack).node),
                         StepPath(Last(stack)) \o k)
    PROVE  CallInv'
<1>1. PICK k \in Seq(Nibble) :
              /\ ChildRef(Last(stack)) # EmptyRef
              /\ Answers(call.op, call.value, Clean, nodes, ret,
                         Entries(nodes)[ChildRef(Last(stack))], k)
    BY ChildAnswer
<1>2. Removal(NodeEntries(Entries(nodes), Last(stack).node), StepPath(Last(stack)) \o k)
    BY <1>1
<1> QED BY <1>2, AnswerAboveKeepsCallInv DEF Removal

\* Only the children of a branch, and its value, have entries.
LEMMA LiveEntries ==
    ASSUME NEW b, b.kind = "branch", NEW g, g[EmptyRef] = {}
    PROVE  NodeEntries(g, b) = (UNION {Prefixed(<<i>>, g[b.branches[i]]) : i \in Children(b)})
                                  \cup {<<<<>>, v>> : v \in {b.value} \ {NoValue}}
<1>1. NodeEntries(g, b) = (UNION {Prefixed(<<i>>, g[b.branches[i]]) : i \in Nibble})
                             \cup {<<<<>>, v>> : v \in {b.value} \ {NoValue}}
    BY DEF NodeEntries
<1>2. \A i \in Nibble : i \notin Children(b) => Prefixed(<<i>>, g[b.branches[i]]) = {}
    BY DEF Children, Prefixed
<1>3. Children(b) \subseteq Nibble
    BY DEF Children
<1>4. (UNION {Prefixed(<<i>>, g[b.branches[i]]) : i \in Nibble})
         = (UNION {Prefixed(<<i>>, g[b.branches[i]]) : i \in Children(b)})
    BY <1>2, <1>3
<1> QED BY <1>1, <1>4

\* The last child of a branch without a value is all it has, and the node that
\* takes its place has it too.
LEMMA LastChildEntries ==
    ASSUME Sound(nodes), NEW b \in Branches(nodes), b.value = NoValue,
           NEW i, Children(b) = {i}
    PROVE  /\ NodeEntries(Entries(nodes), LastBranchNode(b, i)) = NodeEntries(Entries(nodes), b)
           /\ LastBranchNode(b, i).kind # "branch"
<1> DEFINE g == Entries(nodes)
           r == b.branches[i]
           child == Fetch(r)
<1>1. i \in Nibble /\ r # EmptyRef /\ r \in Refs(nodes) /\ b.kind = "branch"
    BY DEF Children, Branches
<1>2. <<i>> \in Seq(Nibble) /\ <<i>> \o <<>> = <<i>>
    BY <1>1
<1>3. g \in [Refs(nodes) -> EntrySets] /\ g[EmptyRef] = {} /\ g[r] = NodeEntries(g, child)
    BY <1>1, EntriesType DEF Fetch
<1>4. child \in Nodes(nodes)
    BY <1>1, NodeAtType DEF Fetch, Sound
<1>5. NodeEntries(g, b) = Prefixed(<<i>>, g[r])
    <2>1. NodeEntries(g, b) = (UNION {Prefixed(<<j>>, g[b.branches[j]]) : j \in Children(b)})
                                 \cup {<<<<>>, v>> : v \in {b.value} \ {NoValue}}
        BY <1>1, <1>3, LiveEntries
    <2>2. {<<<<>>, v>> : v \in {b.value} \ {NoValue}} = {}
        OBVIOUS
    <2>3. (UNION {Prefixed(<<j>>, g[b.branches[j]]) : j \in {i}}) = Prefixed(<<i>>, g[b.branches[i]])
        OBVIOUS
    <2> QED BY <2>1, <2>2, <2>3
<1> HIDE DEF child, g, r
<1>9. /\ child.kind = "leaf" =>
           NodeEntries(g, Leaf(<<i>> \o child.path, child.value)) = Prefixed(<<i>>, NodeEntries(g, child))
      /\ child.kind = "extension" =>
           NodeEntries(g, Extension(<<i>> \o child.path, child.next)) = Prefixed(<<i>>, NodeEntries(g, child))
    <2>1. PICK h \in [Refs(nodes) -> EntrySets] : h = g
        BY <1>3
    <2>2. PICK p \in Seq(Nibble) : p = <<i>>
        BY <1>2
    <2>3. PICK c \in Nodes(nodes) : c = child
        BY <1>4
    <2>4. /\ c.kind = "leaf" =>
                NodeEntries(h, Leaf(p \o c.path, c.value)) = Prefixed(p, NodeEntries(h, c))
          /\ c.kind = "extension" =>
                NodeEntries(h, Extension(p \o c.path, c.next)) = Prefixed(p, NodeEntries(h, c))
        BY MergedEntries
    <2> QED BY <2>1, <2>2, <2>3, <2>4
<1>6. CASE child.kind = "leaf"
    <2>1. LastBranchNode(b, i) = Leaf(<<i>> \o child.path, child.value)
        BY <1>6 DEF LastBranchNode, child, r
    <2>2. NodeEntries(g, Leaf(<<i>> \o child.path, child.value)) = Prefixed(<<i>>, NodeEntries(g, child))
        BY <1>6, <1>9
    <2>3. LastBranchNode(b, i).kind # "branch"
        BY <2>1 DEF Leaf
    <2> QED BY <1>3, <1>5, <2>1, <2>2, <2>3 DEF g
<1>7. CASE child.kind = "extension"
    <2>1. LastBranchNode(b, i) = Extension(<<i>> \o child.path, child.next)
        BY <1>7 DEF LastBranchNode, child, r
    <2>2. NodeEntries(g, Extension(<<i>> \o child.path, child.next)) = Prefixed(<<i>>, NodeEntries(g, child))
        BY <1>7, <1>9
    <2>3. LastBranchNode(b, i).kind # "branch"
        BY <2>1 DEF Extension
    <2> QED BY <1>3, <1>5, <2>1, <2>2, <2>3 DEF g
<1>8. CASE child.kind = "branch"
    <2>1. LastBranchNode(b, i) = Extension(<<i>>, r)
        BY <1>8 DEF LastBranchNode, child, r
    <2>2. NodeEntries(g, Extension(<<i>>, r)) = Prefixed(<<i>>, g[r])
        BY DEF NodeEntries, Extension
    <2>3. LastBranchNode(b, i).kind # "branch"
        BY <2>1 DEF Extension
    <2> QED BY <1>5, <2>1, <2>2, <2>3 DEF g
<1> QED BY <1>4, <1>6, <1>7, <1>8, NodeKinds

\* A branch that is cleared of one of several children, or of one next to its
\* value, is not left without either.
LEMMA ClearedInhabited ==
    ASSUME NEW b \in Branches(nodes), NEW idx \in Nibble, Children(b) # {},
           ~(Cardinality(Children(b)) = 1 /\ b.value = NoValue)
    PROVE  Inhabited(ClearBranch(b, idx))
<1>1. /\ ClearBranch(b, idx).value = b.value
      /\ \A j \in Nibble : j # idx => ClearBranch(b, idx).branches[j] = b.branches[j]
    BY ChildReplaced DEF ClearBranch
<1>2. CASE b.value # NoValue
    BY <1>1, <1>2 DEF Inhabited
<1>3. CASE b.value = NoValue
    <2>1. Children(b) # {idx}
        <3>1. Cardinality({idx}) = 1
            BY FS_Singleton
        <3> QED BY <1>3, <3>1
    <2>2. PICK j \in Children(b) : j # idx
        BY <2>1
    <2>3. j \in Nibble /\ b.branches[j] # EmptyRef
        BY DEF Children
    <2> QED BY <1>1, <2>2, <2>3 DEF Inhabited, Children
<1> QED BY <1>2, <1>3

\* A branch cleared of a child keeps what the others have; it keeps all but k
\* where k is the only key the child can have had.
LEMMA ClearedRemoval ==
    ASSUME NoCollisions, Sound(nodes), NEW b \in Branches(nodes), NEW idx \in Nibble,
           ReturnNode(nodes, "updated", <<>>, ClearBranch(b, idx)),
           Inhabited(ClearBranch(b, idx)),
           NEW D \in EntrySets, NEW k \in Seq(Nibble),
           NodeEntries(Entries(nodes), b) \subseteq D,
           Without(D, k) \subseteq NodeEntries(Entries(nodes), b),
           Clean => \A e \in Entries(nodes)[b.branches[idx]] : <<idx>> \o e[1] = k
    PROVE  Removal(D, k)
<1> DEFINE n == ClearBranch(b, idx)
           g == Entries(nodes)
<1>1. /\ g \in [Refs(nodes) -> EntrySets] /\ g[EmptyRef] = {}
      /\ EmptyRef \in Refs(nodes) /\ b.kind = "branch"
    BY EntriesType DEF Refs, Branches
<1>2. /\ n.kind = "branch" /\ n.value = b.value
      /\ \A j \in Nibble : n.branches[j] = IF j = idx THEN EmptyRef ELSE b.branches[j]
    BY ChildReplaced DEF ClearBranch
<1>3. n \in Nodes(nodes)
    <2>1. NoValue \in StoredValues
        BY DEF StoredValues
    <2> QED BY <1>1, <2>1, BranchUpdateType DEF ClearBranch
<1> HIDE DEF n, g
<1>4. NodeEntries(g, n) = (UNION {Prefixed(<<j>>, g[n.branches[j]]) : j \in Nibble})
                             \cup {<<<<>>, v>> : v \in {n.value} \ {NoValue}}
    BY <1>2 DEF NodeEntries
<1>5. NodeEntries(g, b) = (UNION {Prefixed(<<j>>, g[b.branches[j]]) : j \in Nibble})
                             \cup {<<<<>>, v>> : v \in {b.value} \ {NoValue}}
    BY <1>1 DEF NodeEntries
<1>6. \A j \in Nibble : Prefixed(<<j>>, g[n.branches[j]])
                           = IF j = idx THEN {} ELSE Prefixed(<<j>>, g[b.branches[j]])
    BY <1>1, <1>2 DEF Prefixed
<1>7. NodeEntries(g, n) \subseteq NodeEntries(g, b)
    <2>1. (UNION {Prefixed(<<j>>, g[n.branches[j]]) : j \in Nibble})
             \subseteq (UNION {Prefixed(<<j>>, g[b.branches[j]]) : j \in Nibble})
        BY <1>6
    <2> QED BY <1>2, <1>4, <1>5, <2>1
<1>8. ASSUME Clean, NEW x \in Without(D, k)
      PROVE  x \in NodeEntries(g, n)
    <2>1. x \in NodeEntries(g, b) /\ x[1] # k
        BY <1>8 DEF Without, g
    <2>2. CASE x \in {<<<<>>, v>> : v \in {b.value} \ {NoValue}}
        BY <1>2, <1>4, <2>2
    <2>3. CASE \E j \in Nibble : x \in Prefixed(<<j>>, g[b.branches[j]])
        <3>1. PICK j \in Nibble : x \in Prefixed(<<j>>, g[b.branches[j]])
            BY <2>3
        <3>2. j # idx
            <4>1. ASSUME j = idx PROVE FALSE
                <5>1. PICK e \in g[b.branches[idx]] : x = <<<<idx>> \o e[1], e[2]>>
                    BY <3>1, <4>1 DEF Prefixed
                <5>2. <<idx>> \o e[1] = k
                    BY <1>8, <5>1 DEF g
                <5> QED BY <2>1, <5>1, <5>2
            <4> QED BY <4>1
        <3>3. x \in Prefixed(<<j>>, g[n.branches[j]])
            BY <1>6, <3>1, <3>2
        <3> QED BY <1>4, <3>3
    <2> QED BY <1>5, <2>1, <2>2, <2>3
<1>9. ReturnNode(nodes, "updated", <<>>, n) /\ Inhabited(n)
    BY DEF n
<1>10. NodeEntries(Entries(nodes), n) \subseteq D
    BY <1>7 DEF g
<1>11. Clean => Without(D, k) \subseteq NodeEntries(Entries(nodes), n)
    BY <1>8 DEF g
<1> QED BY <1>3, <1>9, <1>10, <1>11, NodeRemoval

\* HandleBranchDeletion: a branch without anything is gone, one with its value
\* only becomes a leaf, the last child of another takes its place, and a branch
\* that stays is cleared of a child.
LEMMA BranchDeletionRemoval ==
    ASSUME NoCollisions, IInv, Sound(nodes), NEW b \in Branches(nodes), NEW idx \in Nibble,
           BranchDeletion(b, idx),
           NEW D \in EntrySets, NEW k \in Seq(Nibble),
           NodeEntries(Entries(nodes), b) \subseteq D,
           Without(D, k) \subseteq NodeEntries(Entries(nodes), b),
           Clean /\ Children(b) # {} /\ ~(Cardinality(Children(b)) = 1 /\ b.value = NoValue)
              => \A e \in Entries(nodes)[b.branches[idx]] : <<idx>> \o e[1] = k
    PROVE  Removal(D, k)
<1> DEFINE g == Entries(nodes)
           live == Children(b)
<1>1. /\ g[EmptyRef] = {} /\ b.kind = "branch" /\ b.value \in StoredValues
    BY EntriesType DEF Branches
<1>2. NodeEntries(g, b) = (UNION {Prefixed(<<i>>, g[b.branches[i]]) : i \in live})
                             \cup {<<<<>>, v>> : v \in {b.value} \ {NoValue}}
    BY <1>1, LiveEntries
<1> HIDE DEF g
<1>3. CASE live = {} /\ b.value = NoValue
    <2>1. Return(nodes, Deleted)
        <3>1. Cardinality(live) # 1
            BY <1>3, FS_EmptySet
        <3> QED BY <1>3, <3>1 DEF BranchDeletion
    <2>2. NodeEntries(g, b) = {}
        BY <1>2, <1>3
    <2>3. \A e \in D : e[1] = k
        BY <2>2 DEF g, Without
    <2> QED BY <2>1, <2>3, DeletedRemoval
<1>4. CASE live = {} /\ b.value # NoValue
    <2> DEFINE n == Leaf(<<>>, b.value)
    <2>1. ReturnNode(nodes, "useless", <<>>, n)
        BY <1>4 DEF BranchDeletion
    <2>2. NodeEntries(g, b) = {<<<<>>, b.value>>}
        BY <1>2, <1>4
    <2>3. NodeEntries(g, n) = {<<<<>>, b.value>>}
        BY DEF NodeEntries, Leaf
    <2>4. n \in Nodes(nodes) /\ Inhabited(n) /\ n.kind # "branch"
        <3>1. <<>> \in Seq(Nibble) /\ b.value \in Values
            BY <1>1, <1>4, EmptySeq DEF StoredValues
        <3> QED BY <3>1 DEF Leaf, Leaves, Nodes, Inhabited
    <2> HIDE DEF n
    <2>5. NodeEntries(Entries(nodes), n) \subseteq D
          /\ Without(D, k) \subseteq NodeEntries(Entries(nodes), n)
        BY <2>2, <2>3 DEF g
    <2> QED BY <2>1, <2>4, <2>5, NodeRemoval
<1>5. CASE Cardinality(live) = 1 /\ b.value = NoValue
    <2>1. IsFiniteSet(live)
        BY ConstantsAssumption, FS_Subset DEF Children
    <2>2. PICK i : live = {i}
        BY <1>5, <2>1, FS_Singleton
    <2>3. (CHOOSE j \in live : TRUE) = i
        BY <2>2
    <2> DEFINE n == LastBranchNode(b, i)
    <2>4. ReturnNode(nodes, "useless", n.path, n)
        <3>1. live # {}
            BY <2>2
        <3> QED BY <1>5, <2>3, <3>1 DEF BranchDeletion
    <2>5. n \in Nodes(nodes)
        <3>1. i \in Children(b)
            BY <2>2
        <3> QED BY <3>1, LastBranchNodeType
    <2>6. NodeEntries(Entries(nodes), n) = NodeEntries(Entries(nodes), b) /\ n.kind # "branch"
        BY <1>5, <2>2, LastChildEntries
    <2> HIDE DEF n
    <2>7. Inhabited(n)
        BY <2>6 DEF Inhabited
    <2>8. NodeEntries(Entries(nodes), n) \subseteq D
          /\ Without(D, k) \subseteq NodeEntries(Entries(nodes), n)
        BY <2>6
    <2> QED BY <2>4, <2>5, <2>6, <2>7, <2>8, NodeRemoval
<1>6. CASE live # {} /\ ~(Cardinality(live) = 1 /\ b.value = NoValue)
    <2>1. ReturnNode(nodes, "updated", <<>>, ClearBranch(b, idx))
        BY <1>6 DEF BranchDeletion
    <2>2. Inhabited(ClearBranch(b, idx))
        BY <1>6, ClearedInhabited
    <2>3. Clean => \A e \in Entries(nodes)[b.branches[idx]] : <<idx>> \o e[1] = k
        BY <1>6
    <2> QED BY <2>1, <2>2, <2>3, ClearedRemoval
<1> QED BY <1>3, <1>4, <1>5, <1>6

\* The path that goes on with i behind q has q as a strict prefix, and i next.
LEMMA NextNibble ==
    ASSUME NEW q \in Seq(Nibble), NEW i \in Nibble, NEW s \in Seq(Nibble)
    PROVE  /\ IsStrictPrefix(q, q \o (<<i>> \o s))
           /\ (q \o (<<i>> \o s))[Len(q) + 1] = i
<1> DEFINE r == <<i>> \o s
           p == q \o r
<1>1. r \in Seq(Nibble) /\ r # <<>> /\ r[1] = i /\ Len(r) \in Nat \ {0}
    <2>1. r \in Seq(Nibble) /\ r # <<>> /\ Head(r) = i
        BY Prepended
    <2> HIDE DEF r
    <2> QED BY <2>1, HeadTailProperties, EmptySeq, LenProperties
<1> HIDE DEF r
<1>2. /\ p \in Seq(Nibble) /\ Len(p) = Len(q) + Len(r) /\ Len(q) \in Nat
      /\ p[Len(q) + 1] = r[1]
    BY <1>1, ConcatProperties, LenProperties
<1>3. IsPrefix(q, p)
    BY <1>1, Joined DEF StartsWith
<1>4. q # p
    BY <1>1, <1>2
<1> QED BY <1>1, <1>2, <1>3, <1>4 DEF IsStrictPrefix, r

\* Two children of a branch that ends the key and has a value: stored keys part
\* right behind it.
LEMMA IndeterminateKey ==
    ASSUME IInv, CallInv, Visiting("remove", "branch"), path = <<>>,
           Fetch(ref).value # NoValue,
           NEW i \in Children(Fetch(ref)), NEW j \in Children(Fetch(ref)), i # j
    PROVE  ReadsIndeterminate(call.key)
<1> DEFINE b == Fetch(ref)
           g == Entries(nodes)
<1>1. /\ b.kind = "branch" /\ b \in Nodes(nodes) /\ Sound(nodes)
      /\ pc = "node" /\ Contents \in EntrySets
      /\ g[ref] = NodeEntries(g, b) /\ g \in [Refs(nodes) -> EntrySets]
    BY VisitedEntries
<1>2. b \in Branches(nodes) /\ b.branches \in [Nibble -> Refs(nodes)] /\ b.value \in Values
    BY <1>1, NodeKinds DEF Branches, StoredValues
<1>3. PICK q : Leads(Contents, g[ref], call.key, q, path)
    BY <1>1 DEF CallInv, Visits
<1>4. q \in Seq(Nibble) /\ call.key = q
    <2>1. q \in Seq(Nibble) /\ call.key = q \o <<>>
        BY <1>3 DEF Leads
    <2> QED BY <2>1, ConcatEmptySeq
<1>5. \A m \in Nibble : g[b.branches[m]] \in EntrySets
    BY <1>1, <1>2
<1> HIDE DEF b, g
<1>6. Present(call.key)
    <2>1. <<<<>>, b.value>> \in NodeEntries(g, b)
        BY <1>1, <1>5, BranchEntries DEF b
    <2> QED BY <1>1, <1>2, <2>1, PresentBelow DEF g
<1>7. ASSUME NEW m \in Children(b)
      PROVE  \E d \in Contents : IsStrictPrefix(call.key, d[1]) /\ d[1][Len(call.key) + 1] = m
    <2>1. m \in Nibble /\ b.branches[m] # EmptyRef
        BY DEF Children
    <2>2. b.branches[m] \in Refs(nodes)
        BY <1>2, <2>1
    <2>3. g[b.branches[m]] # {}
        BY <1>1, <2>1, <2>2, HasEntries DEF g
    <2>4. PICK e \in g[b.branches[m]] : e \in Seq(Nibble) \X Values
        BY <1>5, <2>1, <2>3 DEF EntrySets
    <2>5. e[1] \in Seq(Nibble) /\ e[2] \in Values /\ <<e[1], e[2]>> \in g[b.branches[m]]
        BY <2>4
    <2>6. <<<<m>> \o e[1], e[2]>> \in NodeEntries(g, b)
        BY <1>1, <1>5, <2>1, <2>5, BranchEntries
    <2>7. <<m>> \o e[1] \in Seq(Nibble)
        BY <2>1, <2>5, Prepended
    <2>8. <<q \o (<<m>> \o e[1]), e[2]>> \in Contents
        BY <1>1, <1>3, <2>5, <2>6, <2>7 DEF Leads
    <2>9. /\ IsStrictPrefix(q, q \o (<<m>> \o e[1]))
          /\ (q \o (<<m>> \o e[1]))[Len(q) + 1] = m
        BY <1>4, <2>1, <2>5, NextNibble
    <2> DEFINE d == <<q \o (<<m>> \o e[1]), e[2]>>
    <2>10. d \in Contents /\ d[1] = q \o (<<m>> \o e[1])
        BY <2>8
    <2> HIDE DEF d
    <2> QED BY <1>4, <2>9, <2>10
<1>8. PICK d \in Contents : IsStrictPrefix(call.key, d[1]) /\ d[1][Len(call.key) + 1] = i
    BY <1>7 DEF b
<1>9. PICK e \in Contents : IsStrictPrefix(call.key, e[1]) /\ e[1][Len(call.key) + 1] = j
    BY <1>7 DEF b
<1> QED BY <1>6, <1>8, <1>9 DEF ReadsIndeterminate

\* The value of a branch is deleted.
LEMMA DeleteBranchValueKeepsCallInv ==
    ASSUME NoCollisions, IInv, CallInv, DeleteBranchValue
    PROVE  CallInv'
<1> DEFINE b0 == Fetch(ref)
           b == [b0 EXCEPT !.value = NoValue]
           g == Entries(nodes)
           D == g[ref]
<1>1. /\ b0.kind = "branch" /\ b0 \in Nodes(nodes) /\ Sound(nodes) /\ path \in Seq(Nibble)
      /\ pc = "node" /\ call.op = "remove" /\ ref # EmptyRef
      /\ D = NodeEntries(g, b0) /\ g \in [Refs(nodes) -> EntrySets] /\ ref \in Refs(nodes)
      /\ path = <<>> /\ b0.value # NoValue /\ Visiting("remove", "branch")
    BY VisitedEntries DEF DeleteBranchValue
<1>2. b0 \in Branches(nodes)
    BY <1>1, NodeKinds
<1>3. /\ b \in Branches(nodes) /\ b.kind = "branch" /\ b.value = NoValue
      /\ b.branches = b0.branches
    <2> HIDE DEF b0
    <2> QED BY <1>2 DEF Branches, StoredValues
<1>4. Children(b) = Children(b0)
    BY <1>3 DEF Children
<1>5. CASE /\ \E idx \in Nibble : BranchDeletion(b, idx)
           /\ UNCHANGED stack
    <2>1. PICK idx \in Nibble : BranchDeletion(b, idx)
        BY <1>5
    <2>2. NodeEntries(g, b0) = (UNION {Prefixed(<<i>>, g[b0.branches[i]]) : i \in Nibble})
                                  \cup {<<<<>>, v>> : v \in {b0.value} \ {NoValue}}
        BY <1>1 DEF NodeEntries
    <2>3. NodeEntries(g, b) = (UNION {Prefixed(<<i>>, g[b.branches[i]]) : i \in Nibble})
                                  \cup {<<<<>>, v>> : v \in {b.value} \ {NoValue}}
        BY <1>3 DEF NodeEntries
    <2> HIDE DEF b0, b, g
    <2>4. {<<<<>>, v>> : v \in {b.value} \ {NoValue}} = {}
        BY <1>3
    <2>5. NodeEntries(g, b) \subseteq D
        BY <1>1, <1>3, <2>2, <2>3, <2>4
    <2>6. \A x \in {<<<<>>, v>> : v \in {b0.value} \ {NoValue}} : x[1] = <<>>
        OBVIOUS
    <2>7. Without(D, <<>>) \subseteq NodeEntries(g, b)
        BY <1>1, <1>3, <2>2, <2>3, <2>6 DEF Without
    <2>8. ASSUME Clean, Children(b) # {}, Cardinality(Children(b)) # 1
          PROVE  FALSE
        <3>1. PICK i : i \in Children(b0)
            BY <1>4, <2>8
        <3>2. Children(b0) # {i}
            BY <1>4, <2>8, FS_Singleton
        <3>3. PICK j \in Children(b0) : j # i
            BY <3>1, <3>2
        <3>4. ReadsIndeterminate(call.key)
            BY <1>1, <3>1, <3>3, IndeterminateKey DEF b0
        <3> QED BY <2>8, <3>4 DEF Clean
    <2>9. D \in EntrySets
        BY <1>1
    <2>10. Removal(D, <<>>)
        <3>1. <<>> \in Seq(Nibble)
            BY <1>1
        <3>2. PICK c \in Branches(nodes) : c = b
            BY <1>3
        <3>3. PICK E \in EntrySets : E = D
            BY <2>9
        <3>4. /\ BranchDeletion(c, idx)
              /\ NodeEntries(Entries(nodes), c) \subseteq E
              /\ Without(E, <<>>) \subseteq NodeEntries(Entries(nodes), c)
            BY <2>1, <2>5, <2>7, <3>2, <3>3 DEF g
        <3>5. ~(Clean /\ Children(c) # {} /\ ~(Cardinality(Children(c)) = 1 /\ c.value = NoValue))
            BY <1>3, <2>8, <3>2
        <3>6. Removal(E, <<>>)
            BY <1>1, <3>1, <3>4, <3>5, BranchDeletionRemoval
        <3> QED BY <3>3, <3>6
    <2> QED BY <1>1, <1>5, <2>10, RemovalKeepsCallInv DEF g
<1>6. CASE Undefined
    <2>1. /\ pc' = "undefined" /\ nodes' = nodes /\ root' = root
        BY <1>6 DEF Undefined
    <2> QED BY <2>1 DEF CallInv, KeysInUse, Visits, Returns, GetReadsContents, Contents
<1> QED BY <1>5, <1>6 DEF DeleteBranchValue

\* "Key not found" is said of a key that is absent.
LEMMA DeletionMissing ==
    ASSUME IInv, CallInv, DeleteLeaf \/ DeleteExtension \/ DeleteBranch, pc' = "done"
    PROVE  Missing /\ ~Present(call.key)
<1>1. CASE DeleteLeaf
    <2>1. path # Fetch(ref).path /\ Missing /\ Visiting("remove", "leaf")
        BY <1>1 DEF DeleteLeaf, Return
    <2> QED BY <2>1, AbsentAtLeaf
<1>2. CASE DeleteExtension
    <2>1. ~StartsWith(path, Fetch(ref).path) /\ Missing /\ Visiting("remove", "extension")
        BY <1>2 DEF DeleteExtension, Recurse, Visit
    <2> QED BY <2>1, AbsentAtExtension
<1>3. CASE DeleteBranch
    <2>1. /\ Missing /\ Visiting("remove", "branch")
          /\ \/ path = <<>> /\ Fetch(ref).value = NoValue
             \/ path # <<>> /\ Head(path) \notin Children(Fetch(ref))
        BY <1>3 DEF DeleteBranch, Recurse, Visit
    <2> QED BY <2>1, AbsentAtBranch, AbsentValue
<1> QED BY <1>1, <1>2, <1>3

\* The handlers of remove on their way down.
LEMMA DeletingKeepsCallInv ==
    ASSUME IInv, CallInv, RemoveEmpty \/ DeleteLeaf \/ DeleteExtension \/ DeleteBranch
    PROVE  CallInv'
<1>1. CASE RemoveEmpty
    <2>1. /\ Finish(root, Returned) /\ UNCHANGED nodes /\ call.op = "remove" /\ call' = call
        BY <1>1 DEF RemoveEmpty, Finish
    <2>2. \A e \in Entries(nodes)[root] : e[1] \in Keys
        BY DEF CallInv, KeysInUse, Contents
    <2>3. GetReadsContents'
        BY <2>1 DEF GetReadsContents
    <2> QED BY <2>1, <2>2, <2>3, FinishKeepsCallInv
<1>2. CASE DeleteLeaf
    <2> DEFINE leaf == Fetch(ref)
    <2>1. /\ leaf.kind = "leaf" /\ pc = "node" /\ call.op = "remove" /\ ref # EmptyRef
          /\ Sound(nodes) /\ Entries(nodes)[ref] = NodeEntries(Entries(nodes), leaf)
        BY <1>2, VisitedEntries DEF DeleteLeaf
    <2>2. CASE path = leaf.path /\ Return(nodes, Deleted) /\ UNCHANGED stack
        <3>1. Entries(nodes)[ref] = {<<leaf.path, leaf.value>>}
            BY <2>1 DEF NodeEntries
        <3>2. \A e \in Entries(nodes)[ref] : e[1] = path
            BY <2>2, <3>1
        <3>3. Removal(Entries(nodes)[ref], path)
            BY <2>1, <2>2, <3>2, DeletedRemoval
        <3> QED BY <2>1, <2>2, <3>3, RemovalKeepsCallInv
    <2>3. CASE Missing
        BY <2>1, <2>3, MissingKeepsCallInv DEF Missing
    <2> QED BY <1>2, <2>2, <2>3 DEF DeleteLeaf
<1>3. CASE DeleteExtension
    <2> DEFINE ext == Fetch(ref)
    <2>1. /\ ext.kind = "extension" /\ ext \in Nodes(nodes) /\ path \in Seq(Nibble)
          /\ pc = "node" /\ call.op = "remove" /\ ref # EmptyRef
        BY <1>3, VisitedEntries DEF DeleteExtension
    <2>2. ext \in Extensions(nodes) /\ ext.path \in Seq(Nibble) /\ ext.next \in Refs(nodes)
        BY <2>1, NodeKinds DEF Extensions, Refs
    <2>3. CASE /\ StartsWith(path, ext.path)
               /\ Recurse([node |-> ext], ext.next, Consume(path, Len(ext.path)))
        <3> DEFINE f == [node |-> ext]
                   p == Consume(path, Len(ext.path))
        <3>1. f \in Frames(nodes) /\ StepPath(f) = ext.path /\ ChildRef(f) = ext.next
            BY <2>1, <2>2 DEF Frames, StepPath, ChildRef
        <3>2. p \in Seq(Nibble) /\ path = ext.path \o p
            BY <2>1, <2>2, <2>3, Rejoined
        <3>3. Fetch(ref) = f.node /\ Visit(ChildRef(f), p) /\ stack' = Append(stack, f)
            BY <2>3, <3>1 DEF Recurse
        <3> HIDE DEF f, p
        <3> QED BY <2>1, <3>1, <3>2, <3>3, DescentKeepsCallInv
    <2>4. CASE Missing
        BY <2>1, <2>4, MissingKeepsCallInv DEF Missing
    <2> QED BY <1>3, <2>3, <2>4 DEF DeleteExtension
<1>4. CASE DeleteBranch
    <2> DEFINE b == Fetch(ref)
    <2>1. /\ b.kind = "branch" /\ b \in Nodes(nodes) /\ path \in Seq(Nibble)
          /\ pc = "node" /\ call.op = "remove" /\ ref # EmptyRef
        BY <1>4, VisitedEntries DEF DeleteBranch
    <2>2. b \in Branches(nodes)
        BY <2>1, NodeKinds
    <2>3. CASE /\ path # <<>>
               /\ Recurse([node |-> b, idx |-> Head(path)],
                          b.branches[Head(path)], Tail(path))
        <3> DEFINE f == [node |-> b, idx |-> Head(path)]
                   p == Tail(path)
        <3>1. Head(path) \in Nibble /\ p \in Seq(Nibble) /\ path = <<Head(path)>> \o p
            BY <2>1, <2>3, FirstAndRest
        <3>2. /\ f \in Frames(nodes) /\ StepPath(f) = <<Head(path)>>
              /\ ChildRef(f) = b.branches[Head(path)]
            BY <2>1, <2>2, <3>1 DEF Frames, StepPath, ChildRef
        <3>3. Fetch(ref) = f.node /\ Visit(ChildRef(f), p) /\ stack' = Append(stack, f)
            BY <2>3, <3>2 DEF Recurse
        <3> HIDE DEF f, p
        <3> QED BY <2>1, <3>1, <3>2, <3>3, DescentKeepsCallInv
    <2>4. CASE Missing
        BY <2>1, <2>4, MissingKeepsCallInv DEF Missing
    <2> QED BY <1>4, <2>3, <2>4 DEF DeleteBranch
<1> QED BY <1>1, <1>2, <1>3, <1>4

\* What an extension does with the answer of the node it leads to.
LEMMA DeleteExtensionReturnKeepsCallInv ==
    ASSUME NoCollisions, IInv, CallInv, DeleteExtensionReturn
    PROVE  CallInv'
<1> DEFINE f == Last(stack)
           ext == f.node
           g == Entries(nodes)
<1>1. /\ pc = "return" /\ call.op = "remove" /\ stack # <<>> /\ stack' = Front(stack)
      /\ f \in Frames(nodes) /\ ext.kind = "extension" /\ ext \in Nodes(nodes)
      /\ Sound(nodes) /\ g \in [Refs(nodes) -> EntrySets]
      /\ ret \in Updates(nodes) \cup {Deleted}
      /\ ret \in Updates(nodes) => ret.ref \in NodeRefs(nodes) /\ ret.ref \in Refs(nodes)
    BY ResumedType DEF DeleteExtensionReturn
<1>2. /\ ext \in Extensions(nodes) /\ ext.path \in Seq(Nibble)
      /\ ext.next \in Refs(nodes) /\ g[ext.next] \in EntrySets
    BY <1>1, NodeKinds DEF Extensions, Refs
<1>3. StepPath(f) = ext.path /\ ChildRef(f) = ext.next
    BY <1>1 DEF StepPath, ChildRef
<1>4. NodeEntries(g, ext) = Prefixed(ext.path, g[ext.next])
    BY <1>1 DEF NodeEntries
<1>5. ret.action # "deleted" => ret \in Updates(nodes)
    BY <1>1 DEF Deleted
<1> HIDE DEF ext, g, f
<1>6. ASSUME NEW k \in Seq(Nibble),
             Answers("remove", call.value, Clean, nodes, ret, g[ext.next], k)
      PROVE  Removal(NodeEntries(g, ext), ext.path \o k)
    <2>1. CASE ret.action = "deleted" /\ Return(nodes, Deleted)
        <3>1. \A e \in g[ext.next] : e[1] = k
            BY <1>6, <2>1 DEF Answers
        <3>2. \A e \in Prefixed(ext.path, g[ext.next]) : e[1] = ext.path \o k
            BY <3>1, PrefixedOnly
        <3> QED BY <1>1, <1>4, <2>1, <3>2, DeletedRemoval
    <2>2. ASSUME ret.action # "deleted",
                 NEW n \in Nodes(nodes), n.kind # "branch", ReturnNode(nodes, "updated", <<>>, n),
                 NodeEntries(g, n) = Prefixed(ext.path, g[ret.ref])
          PROVE  Removal(NodeEntries(g, ext), ext.path \o k)
        <3>1. /\ g[ret.ref] \subseteq g[ext.next]
              /\ Clean => Without(g[ext.next], k) \subseteq g[ret.ref]
            BY <1>6, <2>2 DEF Answers, g
        <3>2. PICK D \in EntrySets : D = g[ext.next]
            BY <1>2
        <3>3. PICK E \in EntrySets : E = g[ret.ref]
            BY <1>1, <1>5, <2>2
        <3>4. PICK p \in Seq(Nibble) : p = ext.path
            BY <1>2
        <3>5. /\ Prefixed(p, E) \subseteq Prefixed(p, D)
              /\ Clean => Without(Prefixed(p, D), p \o k) \subseteq Prefixed(p, E)
            BY <3>1, <3>2, <3>3, PrefixedRemoved
        <3>6. /\ NodeEntries(Entries(nodes), n) \subseteq NodeEntries(g, ext)
              /\ Clean => Without(NodeEntries(g, ext), ext.path \o k)
                             \subseteq NodeEntries(Entries(nodes), n)
            BY <1>4, <2>2, <3>2, <3>3, <3>4, <3>5 DEF g
        <3>7. Inhabited(n)
            BY <2>2 DEF Inhabited
        <3> QED BY <1>1, <2>2, <3>6, <3>7, NodeRemoval
    <2>3. CASE /\ ret.action = "updated"
               /\ ReturnNode(nodes, "updated", <<>>, Extension(ext.path, ret.ref))
        <3> DEFINE n == Extension(ext.path, ret.ref)
        <3>1. n \in Nodes(nodes) /\ n.kind # "branch"
            BY <1>1, <1>2, <1>5, <2>3 DEF Extension, Extensions, Nodes
        <3>2. NodeEntries(g, n) = Prefixed(ext.path, g[ret.ref])
            BY DEF NodeEntries, Extension
        <3> HIDE DEF n
        <3> QED BY <2>2, <2>3, <3>1, <3>2 DEF n
    <2>4. CASE /\ ret.action = "useless"
               /\ ReturnNode(nodes, "updated", <<>>, MergedExtension(ext))
        <3> DEFINE child == Fetch(ret.ref)
                   n == MergedExtension(ext)
        <3>1. ret.ref \in Refs(nodes) /\ ret.ref # EmptyRef /\ ret.ref \in NodeRefs(nodes)
            BY <1>1, <1>5, <2>4, RefCases
        <3>2. child \in Nodes(nodes) /\ g[ret.ref] = NodeEntries(g, child)
            BY <1>1, <3>1, NodeAtType, EntriesType DEF Sound, Fetch, g
        <3>3. child.kind # "branch"
            BY <1>6, <2>4 DEF Answers, Fetch
        <3>4. PICK c \in Nodes(nodes) : c = child
            BY <3>2
        <3>5. PICK p \in Seq(Nibble) : p = ext.path
            BY <1>2
        <3>6. PICK h \in [Refs(nodes) -> EntrySets] : h = g
            BY <1>1
        <3>7. /\ c.kind = "leaf" => NodeEntries(h, Leaf(p \o c.path, c.value))
                                       = Prefixed(p, NodeEntries(h, c))
              /\ c.kind = "extension" => NodeEntries(h, Extension(p \o c.path, c.next))
                                            = Prefixed(p, NodeEntries(h, c))
            BY MergedEntries
        <3>8. /\ c.kind = "leaf" => Leaf(p \o c.path, c.value) \in Nodes(nodes)
              /\ c.kind = "extension" => Extension(p \o c.path, c.next) \in Nodes(nodes)
            BY MergedType
        <3>9. CASE c.kind = "leaf"
            <4>1. n = Leaf(p \o c.path, c.value)
                BY <3>4, <3>5, <3>9 DEF MergedExtension
            <4> HIDE DEF n
            <4>2. n \in Nodes(nodes) /\ n.kind # "branch"
                BY <3>8, <3>9, <4>1 DEF Leaf
            <4>3. NodeEntries(g, n) = Prefixed(ext.path, g[ret.ref])
                BY <3>2, <3>4, <3>5, <3>6, <3>7, <3>9, <4>1
            <4> QED BY <2>2, <2>4, <4>2, <4>3 DEF n
        <3>10. CASE c.kind = "extension"
            <4>1. n = Extension(p \o c.path, c.next)
                BY <3>4, <3>5, <3>10 DEF MergedExtension
            <4> HIDE DEF n
            <4>2. n \in Nodes(nodes) /\ n.kind # "branch"
                BY <3>8, <3>10, <4>1 DEF Extension
            <4>3. NodeEntries(g, n) = Prefixed(ext.path, g[ret.ref])
                BY <3>2, <3>4, <3>5, <3>6, <3>7, <3>10, <4>1
            <4> QED BY <2>2, <2>4, <4>2, <4>3 DEF n
        <3> QED BY <3>3, <3>4, <3>9, <3>10, NodeKinds
    <2> QED BY <2>1, <2>3, <2>4 DEF DeleteExtensionReturn, ext, f
<1> QED BY <1>1, <1>3, <1>6, RemovalAboveKeepsCallInv DEF ext, g, f

\* What a branch does with the answer of its child.
LEMMA DeleteBranchReturnKeepsCallInv ==
    ASSUME NoCollisions, IInv, CallInv, DeleteBranchReturn
    PROVE  CallInv'
<1> DEFINE f == Last(stack)
           g == Entries(nodes)
<1>1. /\ pc = "return" /\ call.op = "remove" /\ stack # <<>> /\ stack' = Front(stack)
      /\ f \in Frames(nodes) /\ f.node.kind = "branch"
      /\ Sound(nodes) /\ g \in [Refs(nodes) -> EntrySets]
      /\ ret \in Updates(nodes) \cup {Deleted}
      /\ ret \in Updates(nodes) => ret.ref \in NodeRefs(nodes) /\ ret.ref \in Refs(nodes)
    BY ResumedType DEF DeleteBranchReturn
<1>2. PICK b \in Branches(nodes) : b = f.node
    BY <1>1, FrameKinds
<1>3. PICK i \in Nibble : i = f.idx
    BY <1>1, FrameKinds
<1>4. StepPath(f) = <<i>> /\ ChildRef(f) = b.branches[i]
    BY <1>1, <1>2, <1>3 DEF StepPath, ChildRef
<1>5. ret.action # "deleted" => ret \in Updates(nodes)
    BY <1>1 DEF Deleted
<1>6. \A j \in Nibble : g[b.branches[j]] \in EntrySets
    BY <1>1 DEF Branches
<1>7. PICK D \in EntrySets : D = NodeEntries(g, b)
    <2>1. b \in Nodes(nodes)
        BY DEF Nodes
    <2> QED BY <1>1, <2>1, NodeEntriesType
<1>8. /\ ret.action = "deleted" => BranchDeletion(b, i)
      /\ ret.action # "deleted" =>
            ReturnNode(nodes, "updated", <<>>, SetBranch(b, i, ret.ref))
    BY <1>2, <1>3 DEF DeleteBranchReturn
<1> HIDE DEF f
<1>9. ASSUME NEW k \in Seq(Nibble),
             Answers("remove", call.value, Clean, nodes, ret, g[b.branches[i]], k)
      PROVE  Removal(D, <<i>> \o k)
    <2>1. <<i>> \o k \in Seq(Nibble)
        BY Prepended
    <2>2. CASE ret.action = "deleted"
        <3>1. \A e \in Entries(nodes)[b.branches[i]] : <<i>> \o e[1] = <<i>> \o k
            BY <1>9, <2>2 DEF Answers
        <3>2. PICK p \in Seq(Nibble) : p = <<i>> \o k
            BY <2>1
        <3>3. Without(D, p) \subseteq NodeEntries(Entries(nodes), b)
            BY <1>7 DEF Without
        <3>4. Removal(D, p)
            BY <1>1, <1>7, <1>8, <2>2, <3>1, <3>2, <3>3, BranchDeletionRemoval
        <3> QED BY <3>2, <3>4
    <2>3. CASE ret.action # "deleted"
        <3>1. PICK r \in Refs(nodes) : r = ret.ref
            BY <1>1, <1>5, <2>3
        <3> DEFINE n == SetBranch(b, i, r)
        <3>2. n \in Nodes(nodes) /\ Inhabited(n)
            <4>1. NoValue \in StoredValues
                BY DEF StoredValues
            <4>2. n \in Nodes(nodes)
                BY <4>1, BranchUpdateType
            <4>3. n.branches[i] = r /\ r # EmptyRef
                BY <1>1, <1>5, <2>3, <3>1, ChildReplaced, RefCases
            <4> HIDE DEF n
            <4> QED BY <4>2, <4>3 DEF Inhabited, Children
        <3>3. /\ g[r] \in EntrySets /\ g[r] \subseteq g[b.branches[i]]
              /\ Clean => Without(g[b.branches[i]], k) \subseteq g[r]
            BY <1>1, <1>9, <2>3, <3>1 DEF Answers
        <3> HIDE DEF g
        <3>4. /\ NodeEntries(g, SetBranch(b, i, r)) \subseteq NodeEntries(g, b)
              /\ Clean => Without(NodeEntries(g, b), <<i>> \o k)
                             \subseteq NodeEntries(g, SetBranch(b, i, r))
            BY <1>6, <3>3, BranchRemoved
        <3> HIDE DEF n
        <3>5. /\ NodeEntries(Entries(nodes), n) \subseteq D
              /\ Clean => Without(D, <<i>> \o k) \subseteq NodeEntries(Entries(nodes), n)
            BY <1>7, <3>4 DEF g, n
        <3>6. ReturnNode(nodes, "updated", <<>>, n)
            BY <1>8, <2>3, <3>1 DEF n
        <3> QED BY <1>1, <3>2, <3>5, <3>6, NodeRemoval
    <2> QED BY <2>2, <2>3
<1>10. ASSUME NEW k \in Seq(Nibble),
              ChildRef(Last(stack)) # EmptyRef,
              Answers("remove", call.value, Clean, nodes, ret,
                      Entries(nodes)[ChildRef(Last(stack))], k)
       PROVE  Removal(NodeEntries(Entries(nodes), Last(stack).node),
                      StepPath(Last(stack)) \o k)
    BY <1>2, <1>4, <1>7, <1>9, <1>10 DEF f
<1> QED BY <1>1, <1>10, RemovalAboveKeepsCallInv

\* What remove leaves when it ends.
LEMMA RemoveDoneContents ==
    ASSUME IInv, CallInv, RemoveDone
    PROVE  /\ Contents' \subseteq Contents
           /\ Clean => Without(Contents, call.key) \subseteq Contents'
           /\ root' # root => outcome' = Returned
           /\ outcome' \in {Returned, Throw("remove error")}
<1>1. /\ pc = "return" /\ call.op = "remove" /\ stack = <<>> /\ nodes' = nodes
      /\ \/ ret.action = "updated" /\ root' = ret.ref /\ outcome' = Returned
         \/ ret.action = "useless" /\ root' = root /\ outcome' = Throw("remove error")
         \/ ret.action = "deleted" /\ root' = EmptyRef /\ outcome' = Returned
    BY DEF RemoveDone, Finish
<1>2. /\ Answers("remove", call.value, Clean, nodes, ret, Contents, call.key)
      /\ Sound(nodes)
    BY <1>1, LastResult
<1>3. Contents' = Entries(nodes)[root']
    BY <1>1 DEF Contents
<1> DEFINE Left == /\ Contents' \subseteq Contents
                   /\ Clean => Without(Contents, call.key) \subseteq Contents'
<1>4. ASSUME ret.action = "updated", root' = ret.ref PROVE Left
    BY <1>2, <1>3, <1>4 DEF Answers
<1>5. ASSUME ret.action = "useless", root' = root PROVE Left
    BY <1>3, <1>5 DEF Contents, Without
<1>6. ASSUME ret.action = "deleted", root' = EmptyRef PROVE Left
    <2>1. Contents' = {}
        BY <1>2, <1>3, <1>6, EntriesType
    <2>2. Without(Contents, call.key) = {}
        BY <1>2, <1>6 DEF Answers, Without
    <2> QED BY <2>1, <2>2
<1>7. Left
    BY <1>1, <1>4, <1>5, <1>6
<1> QED BY <1>1, <1>7

\* The root that remove ends with, and the missing break after case Deleted.
LEMMA RemoveDoneKeepsCallInv ==
    ASSUME IInv, CallInv, RemoveDone \/ RemoveFallThrough
    PROVE  CallInv'
<1>1. CASE RemoveFallThrough
    <2>1. /\ pc' = "undefined" /\ nodes' = nodes /\ root' = root
        BY <1>1 DEF RemoveFallThrough, Undefined
    <2> QED BY <2>1 DEF CallInv, KeysInUse, Visits, Returns, GetReadsContents, Contents
<1>2. CASE RemoveDone
    <2>1. Contents' \subseteq Contents
        BY <1>2, RemoveDoneContents
    <2>2. \A e \in Contents' : e[1] \in Keys
        BY <2>1 DEF CallInv, KeysInUse
    <2>3. /\ nodes' = nodes /\ call' = call /\ call.op = "remove"
          /\ pc' = "done" /\ stack' = <<>>
        BY <1>2 DEF RemoveDone, Finish
    <2> QED BY <2>2, <2>3 DEF CallInv, KeysInUse, Visits, Returns, GetReadsContents
<1> QED BY <1>1, <1>2

\* The handlers of remove, and its end.
LEMMA RemovingKeepsCallInv ==
    ASSUME NoCollisions, IInv, CallInv, Removing
    PROVE  CallInv'
BY DeletingKeepsCallInv, DeleteBranchValueKeepsCallInv, DeleteExtensionReturnKeepsCallInv,
   DeleteBranchReturnKeepsCallInv, RemoveDoneKeepsCallInv DEF Removing

--------------------------------------------------------------------------------
(* Theorems about the entries.                                                 *)

\* A new trie has no entries.
LEMMA InitCallInv == Init => CallInv
<1> SUFFICES ASSUME Init PROVE CallInv
    OBVIOUS
<1>1. /\ root = EmptyRef /\ nodes = <<>> /\ pc = "idle" /\ stack = <<>>
    BY DEF Init
<1>2. DOMAIN nodes = {}
    BY <1>1
<1>3. Ranked(nodes)
    <2> DEFINE rank == [h \in DOMAIN nodes |-> 0]
    <2>1. RankedBy(nodes, 0, rank)
        BY <1>2 DEF RankedBy
    <2> HIDE DEF rank
    <2> QED BY <2>1 DEF Ranked
<1>4. Sound(nodes)
    BY <1>2, <1>3 DEF Sound, Closed, ContentAddressed
<1>5. Contents = {}
    BY <1>1, <1>4, EntriesType DEF Contents
<1> QED BY <1>1, <1>4, <1>5 DEF CallInv, KeysInUse, Visits, Returns, GetReadsContents

\* The invariant is inductive.
LEMMA NextCallInv ==
    ASSUME NoCollisions, NoEmptyValue
    PROVE  IInv /\ CallInv /\ [Next]_vars => CallInv'
<1> SUFFICES ASSUME IInv, CallInv, [Next]_vars PROVE CallInv'
    OBVIOUS
<1>1. CASE CallGet \/ CallSet \/ CallRemove
    BY <1>1, CallKeepsCallInv DEF CallGet, CallSet, CallRemove
<1>2. CASE Getting
    BY <1>2, GettingKeepsCallInv
<1>3. CASE Setting
    BY <1>3, SettingKeepsCallInv
<1>4. CASE Removing
    BY <1>4, RemovingKeepsCallInv
<1>5. CASE Reply
    <2>1. /\ pc' = "idle" /\ nodes' = nodes /\ root' = root /\ stack' = stack /\ pc = "done"
        BY <1>5 DEF Reply
    <2> QED BY <2>1 DEF CallInv, KeysInUse, Visits, Returns, GetReadsContents, Contents
<1>6. CASE UNCHANGED vars
    <2>1. /\ root' = root /\ nodes' = nodes /\ pc' = pc /\ call' = call /\ ref' = ref
          /\ path' = path /\ stack' = stack /\ ret' = ret /\ outcome' = outcome
        BY <1>6 DEF vars
    <2>2. Contents' = Contents
        BY <2>1 DEF Contents
    <2>3. Here' = Here /\ Clean' = Clean
        BY <2>1, <2>2 DEF Here, Clean, ReadsIndeterminate, Present
    <2>4. Visits' /\ Returns' /\ KeysInUse'
        BY <2>1, <2>2, <2>3 DEF CallInv, Visits, Returns, KeysInUse
    <2>5. GetReadsContents'
        BY <2>1, <2>2 DEF CallInv, GetReadsContents, Present
    <2> QED BY <2>1, <2>4, <2>5 DEF CallInv
<1> QED BY <1>1, <1>2, <1>3, <1>4, <1>5, <1>6 DEF Next, Step, Stopped

\* Both invariants hold in every behaviour.
LEMMA Invariants ==
    ASSUME NoCollisions, NoEmptyValue
    PROVE  Spec => [](IInv /\ CallInv)
<1>1. Init => IInv /\ CallInv
    BY InitIInv, InitCallInv
<1>2. IInv /\ CallInv /\ [Next]_vars => IInv' /\ CallInv'
    BY NextIInv, NextCallInv
<1> QED BY <1>1, <1>2, PTL DEF Spec

\* After any sequence of calls a get gives the value stored under its key, and
\* an exception, or the empty value of a branch, only for a key that is absent.
THEOREM GetsReadContents ==
    ASSUME NoCollisions, NoEmptyValue
    PROVE  Spec => []GetReadsContents
<1>1. IInv /\ CallInv => GetReadsContents
    BY DEF CallInv
<1> QED BY <1>1, Invariants, PTL

\* Nothing is ever stored under a key no client has set: splits, merges and
\* collapsed branches put the nibbles of the keys together again.
THEOREM KeysAreKept ==
    ASSUME NoCollisions, NoEmptyValue
    PROVE  Spec => []NoPhantomKeys
<1>1. IInv /\ CallInv => NoPhantomKeys
    BY DEF CallInv, KeysInUse, NoPhantomKeys
<1> QED BY <1>1, Invariants, PTL

\* The handler a public method ends with.
LEMMA LastHandler ==
    ASSUME Next, NEW op, Completes(op)
    PROVE  /\ op = "set" => SetDone
           /\ op = "remove" => \/ RemoveEmpty \/ RemoveDone
                               \/ DeleteLeaf \/ DeleteExtension \/ DeleteBranch
<1>1. pc # "done" /\ pc' = "done" /\ call.op = op
    BY DEF Completes
<1>2. ~CallGet /\ ~CallSet /\ ~CallRemove /\ ~Reply /\ ~Stopped
    BY <1>1 DEF CallGet, CallSet, CallRemove, Call, Reply, Stopped, vars
<1>3. Getting => op = "get"
    BY <1>1 DEF Getting, GetEmpty, GetLeaf, GetExtension, GetBranch, Visiting
<1>4. Setting => op = "set" /\ SetDone
    <2>1. CASE SetEmpty
        BY <1>1, <2>1 DEF SetEmpty, ReturnNode, Return
    <2>2. CASE SetLeaf
        BY <1>1, <2>2 DEF SetLeaf, ReturnBranch, ReturnNode, Return
    <2>3. CASE SetExtension
        BY <1>1, <2>3 DEF SetExtension, Recurse, Visit, ReturnBranch, ReturnNode, Return
    <2>4. CASE SetBranchNode
        BY <1>1, <2>4 DEF SetBranchNode, Recurse, Visit, ReturnNode, Return
    <2>5. CASE SetExtensionReturn \/ SetBranchReturn
        BY <1>1, <2>5 DEF SetExtensionReturn, SetBranchReturn, ReturnNode, Return
    <2>6. CASE SetDone
        BY <1>1, <2>6 DEF SetDone
    <2> QED BY <2>1, <2>2, <2>3, <2>4, <2>5, <2>6 DEF Setting
<1>5. Removing => /\ op = "remove"
                  /\ \/ RemoveEmpty \/ RemoveDone
                     \/ DeleteLeaf \/ DeleteExtension \/ DeleteBranch
    <2>1. CASE DeleteBranchValue
        BY <1>1, <2>1 DEF DeleteBranchValue, BranchDeletion, ReturnNode, Return, Undefined
    <2>2. CASE DeleteExtensionReturn
        BY <1>1, <2>2 DEF DeleteExtensionReturn, ReturnNode, Return
    <2>3. CASE DeleteBranchReturn
        BY <1>1, <2>3 DEF DeleteBranchReturn, BranchDeletion, ReturnNode, Return
    <2>4. CASE RemoveFallThrough
        BY <1>1, <2>4 DEF RemoveFallThrough, Undefined
    <2>5. CASE RemoveEmpty \/ RemoveDone \/ DeleteLeaf \/ DeleteExtension \/ DeleteBranch
        BY <1>1, <2>5 DEF RemoveEmpty, RemoveDone, DeleteLeaf, DeleteExtension, DeleteBranch, Visiting
    <2> QED BY <2>1, <2>2, <2>3, <2>4, <2>5 DEF Removing
<1> QED BY <1>2, <1>3, <1>4, <1>5 DEF Next, Step

\* In whatever shape earlier calls have left the trie, a set changes the value
\* of its key and nothing else: leaves and extensions are split without loss.
THEOREM SetsAreExact ==
    ASSUME NoCollisions, NoEmptyValue
    PROVE  Spec => SetIsExact
<1>1. IInv /\ CallInv /\ [Next]_vars =>
         [Completes("set") =>
            /\ outcome' = Returned
            /\ Contents' = Others(call.key) \cup {<<call.key, call.value>>}]_vars
    <2> SUFFICES ASSUME IInv, CallInv, Next, Completes("set")
                 PROVE  /\ outcome' = Returned
                        /\ Contents' = Others(call.key) \cup {<<call.key, call.value>>}
        OBVIOUS
    <2>1. SetDone
        BY LastHandler
    <2>2. Contents' = Updated(Contents, call.key, call.value)
        BY <2>1, SetDoneContents
    <2>3. outcome' = Returned
        BY <2>1 DEF SetDone, Finish
    <2> QED BY <2>2, <2>3 DEF Updated, Without, Others
<1> QED BY <1>1, Invariants, PTL DEF Spec, SetIsExact

\* A remove that does not work with an uninitialised index loses no other key,
\* when it returns and when it throws.
THEOREM RemovesSpareOthers ==
    ASSUME NoCollisions, NoEmptyValue
    PROVE  Spec => RemoveSparesOthers
<1>1. IInv /\ CallInv /\ [Next]_vars =>
         [Completes("remove") /\ ~ReadsIndeterminate(call.key) =>
            (Others(call.key))' = Others(call.key)]_vars
    <2> SUFFICES ASSUME IInv, CallInv, Next, Completes("remove"), ~ReadsIndeterminate(call.key)
                 PROVE  (Others(call.key))' = Others(call.key)
        OBVIOUS
    <2>1. CASE RemoveDone
        <3>1. /\ Contents' \subseteq Contents
              /\ Without(Contents, call.key) \subseteq Contents'
            BY <2>1, RemoveDoneContents DEF Clean
        <3>2. call' = call
            BY <2>1 DEF RemoveDone, Finish
        <3> QED BY <3>1, <3>2 DEF Others, Without
    <2>2. CASE RemoveEmpty
        <3>1. call' = call /\ root' = root /\ nodes' = nodes
            BY <2>2 DEF RemoveEmpty, Finish
        <3> QED BY <3>1 DEF Others, Contents
    <2>3. CASE DeleteLeaf \/ DeleteExtension \/ DeleteBranch
        <3>1. call' = call /\ root' = root /\ nodes' = nodes
            BY <2>3, DeletionMissing DEF Completes, Missing, Abandon, Finish
        <3> QED BY <3>1 DEF Others, Contents
    <2> QED BY <2>1, <2>2, <2>3, LastHandler
<1> QED BY <1>1, Invariants, PTL DEF Spec, RemoveSparesOthers

\* A remove that throws has changed nothing, also where it has already stored
\* nodes that nothing refers to; "Key not found" is the truth.
THEOREM RemovesThrowCleanly ==
    ASSUME NoCollisions, NoEmptyValue
    PROVE  Spec => RemoveThrowsCleanly
<1>1. IInv /\ CallInv /\ [Next]_vars =>
         [Completes("remove") /\ outcome'.status = "throw" =>
            /\ root' = root
            /\ outcome'.what = "Key not found" => ~Present(call.key)]_vars
    <2> SUFFICES ASSUME IInv, CallInv, Next, Completes("remove"), outcome'.status = "throw"
                 PROVE  /\ root' = root
                        /\ outcome'.what = "Key not found" => ~Present(call.key)
        OBVIOUS
    <2>1. CASE RemoveDone
        <3>1. outcome' # Returned
            BY DEF Returned
        <3>2. root' = root /\ outcome' = Throw("remove error")
            BY <2>1, <3>1, RemoveDoneContents
        <3> QED BY <3>2 DEF Throw
    <2>2. CASE RemoveEmpty
        BY <2>2 DEF RemoveEmpty, Finish, Returned
    <2>3. CASE DeleteLeaf \/ DeleteExtension \/ DeleteBranch
        BY <2>3, DeletionMissing DEF Completes, Missing, Abandon, Finish
    <2> QED BY <2>1, <2>2, <2>3, LastHandler
<1> QED BY <1>1, Invariants, PTL DEF Spec, RemoveThrowsCleanly

--------------------------------------------------------------------------------
(* The compressed trie of a set of entries.                                    *)

\* A path starts with another that it agrees with, nibble by nibble.
LEMMA StartsWithNibbles ==
    ASSUME NEW s \in Seq(Nibble), NEW q \in Seq(Nibble)
    PROVE  /\ StartsWith(s, q) <=> Len(q) <= Len(s) /\ \A i \in 1..Len(q) : s[i] = q[i]
           /\ StartsWith(s, q) => q = SubSeq(s, 1, Len(q))
<1>1. Len(q) \in Nat /\ Len(s) \in Nat
    BY LenProperties
<1>2. SubSeq(q, 1, Len(q)) = q
    <2>1. /\ SubSeq(q, 1, Len(q)) \in Seq(Nibble) /\ Len(SubSeq(q, 1, Len(q))) = Len(q)
          /\ \A i \in 1..Len(q) : SubSeq(q, 1, Len(q))[i] = q[i]
        BY <1>1, FirstNibbles
    <2> QED BY <2>1, SeqEqual
<1>3. IsPrefix(SubSeq(q, 1, Len(q)), s) <=> Len(q) <= Len(s) /\ \A i \in 1..Len(q) : q[i] = s[i]
    BY <1>1, PrefixAgrees
<1>4. StartsWith(s, q) <=> Len(q) <= Len(s) /\ \A i \in 1..Len(q) : q[i] = s[i]
    BY <1>2, <1>3 DEF StartsWith
<1>5. StartsWith(s, q) => q = SubSeq(s, 1, Len(q))
    BY <1>2 DEF StartsWith, IsPrefix
<1> QED BY <1>4, <1>5

\* The longest common prefix is one, and the longest.
LEMMA CommonOfAll ==
    ASSUME NEW S, S \subseteq Seq(Nibble), S # {}
    PROVE  LET q == LongestCommonPrefix(S)
           IN  /\ q \in Seq(Nibble)
               /\ \A s \in S : StartsWith(s, q)
               /\ \A p \in Seq(Nibble) : (\A s \in S : StartsWith(s, p)) => Len(p) <= Len(q)
<1> DEFINE C == CommonPrefixes(S)
           lengths == {Len(c) : c \in C}
<1>1. ASSUME NEW c \in C PROVE c \in Seq(Nibble) /\ \A s \in S : StartsWith(s, c)
    <2>1. PICK s \in S : c \in Prefixes(s)
        BY DEF CommonPrefixes
    <2>2. PICK l \in 0..Len(s) : c = SubSeq(s, 1, l)
        BY <2>1 DEF Prefixes
    <2>3. l \in Nat /\ l <= Len(s)
        BY LenProperties
    <2>4. c \in Seq(Nibble)
        BY <2>2, <2>3, FirstNibbles
    <2> QED BY <2>4 DEF CommonPrefixes, StartsWith
<1>2. ASSUME NEW p \in Seq(Nibble), \A s \in S : StartsWith(s, p) PROVE p \in C
    <2>1. PICK s \in S : TRUE
        OBVIOUS
    <2>2. Len(p) \in 0..Len(s) /\ p = SubSeq(s, 1, Len(p))
        BY <1>2, <2>1, StartsWithNibbles, LenProperties
    <2>3. p \in Prefixes(s)
        BY <2>2 DEF Prefixes
    <2> QED BY <1>2, <2>1, <2>3 DEF CommonPrefixes, StartsWith
<1> HIDE DEF C
<1>3. <<>> \in C
    <2>1. <<>> \in Seq(Nibble) /\ Len(<<>>) = 0
        BY EmptySeq
    <2>2. ASSUME NEW s \in S PROVE StartsWith(s, <<>>)
        <3>1. s \in Seq(Nibble) /\ Len(s) \in Nat
            BY LenProperties
        <3>2. 0 <= Len(s) /\ \A i \in 1..0 : s[i] = <<>>[i]
            BY <3>1
        <3> QED BY <2>1, <3>1, <3>2, StartsWithNibbles
    <2> QED BY <1>2, <2>1, <2>2
<1>4. PICK s \in S : TRUE
    OBVIOUS
<1>5. \A c \in C : Len(c) \in Nat /\ Len(c) <= Len(s)
    BY <1>1, <1>4, StartsWithNibbles, LenProperties
<1>6. lengths \subseteq Nat /\ lengths # {} /\ Len(s) \in Nat /\ \A y \in lengths : y <= Len(s)
    <2>1. s \in Seq(Nibble) /\ Len(s) \in Nat
        BY <1>4, LenProperties
    <2>2. Len(<<>>) \in lengths
        BY <1>3
    <2> QED BY <1>5, <2>1, <2>2
<1>7. PICK m \in lengths : \A y \in lengths : y <= m
    <2> HIDE DEF lengths
    <2> QED BY <1>6, GreatestExists
<1>8. PICK c \in C : m = Len(c)
    OBVIOUS
<1>9. \A other \in C : Len(other) <= Len(c)
    BY <1>7, <1>8
<1>10. /\ LongestCommonPrefix(S) \in C
       /\ \A other \in C : Len(other) <= Len(LongestCommonPrefix(S))
    BY <1>9 DEF LongestCommonPrefix, C
<1> QED BY <1>1, <1>2, <1>10

\* No path but the empty one is a prefix of all of these.
Apart(R) ==
    \/ <<>> \in R
    \/ \E s, t \in R : s # <<>> /\ t # <<>> /\ Head(s) # Head(t)

\* The longest common prefix of paths that part behind p is p.
LEMMA CommonIs ==
    ASSUME NEW p \in Seq(Nibble), NEW R \in SUBSET Seq(Nibble), Apart(R)
    PROVE  LongestCommonPrefix({p \o t : t \in R}) = p
<1> DEFINE S == {p \o t : t \in R}
           q == LongestCommonPrefix(S)
<1>1. \A t \in R : p \o t \in Seq(Nibble) /\ StartsWith(p \o t, p)
    BY Joined
<1>2. S \subseteq Seq(Nibble) /\ S # {}
    BY <1>1 DEF Apart
<1>3. \A s \in S : StartsWith(s, p)
    BY <1>1
<1>4. /\ q \in Seq(Nibble)
      /\ \A s \in S : StartsWith(s, q)
      /\ Len(p) <= Len(q)
    <2> HIDE DEF S
    <2> QED BY <1>2, <1>3, CommonOfAll
<1>5. \A t \in R : StartsWith(p \o t, q)
    BY <1>4
<1> HIDE DEF q, S
<1>6. Len(p) \in Nat /\ Len(q) \in Nat
    BY <1>4, LenProperties
<1>7. ASSUME NEW t \in R
      PROVE  /\ Len(t) \in Nat /\ Len(p \o t) = Len(p) + Len(t)
             /\ \A i \in 1..Len(p) : (p \o t)[i] = p[i]
             /\ t # <<>> => (p \o t)[Len(p) + 1] = Head(t)
             /\ Len(q) <= Len(p) + Len(t)
             /\ \A i \in 1..Len(q) : (p \o t)[i] = q[i]
    <2>1. /\ Len(p \o t) = Len(p) + Len(t) /\ Len(t) \in Nat
          /\ \A i \in 1..Len(p) + Len(t) :
                (p \o t)[i] = IF i <= Len(p) THEN p[i] ELSE t[i - Len(p)]
        BY ConcatProperties, LenProperties
    <2>2. ASSUME t # <<>> PROVE (p \o t)[Len(p) + 1] = Head(t)
        <3>1. Len(t) # 0
            BY <2>2, EmptySeq
        <3>2. Len(p) + 1 \in 1..Len(p) + Len(t) /\ ~(Len(p) + 1 <= Len(p)) /\ Len(p) + 1 - Len(p) = 1
            BY <1>6, <2>1, <3>1
        <3>3. (p \o t)[Len(p) + 1] = t[1]
            BY <2>1, <3>2
        <3> QED BY <2>2, <3>3, HeadTailProperties
    <2>3. Len(q) <= Len(p \o t) /\ \A i \in 1..Len(q) : (p \o t)[i] = q[i]
        BY <1>1, <1>4, <1>5, StartsWithNibbles
    <2> QED BY <1>6, <2>1, <2>2, <2>3
<1>8. Len(q) = Len(p)
    <2>1. CASE <<>> \in R
        <3>1. Len(<<>>) = 0
            BY EmptySeq
        <3> QED BY <1>4, <1>6, <1>7, <2>1, <3>1
    <2>2. ASSUME NEW s \in R, NEW t \in R, s # <<>>, t # <<>>, Head(s) # Head(t), Len(p) < Len(q)
          PROVE  FALSE
        <3>1. Len(p) + 1 \in 1..Len(q)
            BY <1>6, <2>2
        <3>2. q[Len(p) + 1] = Head(s) /\ q[Len(p) + 1] = Head(t)
            BY <1>7, <2>2, <3>1
        <3> QED BY <2>2, <3>2
    <2> QED BY <1>4, <1>6, <2>1, <2>2 DEF Apart
<1>9. PICK t \in R : TRUE
    BY DEF Apart
<1>10. \A i \in 1..Len(p) : q[i] = p[i]
    BY <1>7, <1>8, <1>9
<1>11. q = p
    BY <1>4, <1>8, <1>10, SeqEqual
<1> QED BY <1>11 DEF q, S

\* What is left of the entries behind p.
LEMMA BelowHas ==
    ASSUME NEW E \in EntrySets, NEW p \in Seq(Nibble)
    PROVE  /\ Below(E, p) \in EntrySets
           /\ \A s \in Seq(Nibble), v \in Values : <<s, v>> \in Below(E, p) <=> <<p \o s, v>> \in E
<1>1. ASSUME NEW d \in Below(E, p)
      PROVE  \E e \in E : /\ StartsWith(e[1], p) /\ e = <<e[1], e[2]>>
                          /\ d = <<Consume(e[1], Len(p)), e[2]>>
                          /\ Consume(e[1], Len(p)) \in Seq(Nibble) /\ e[2] \in Values
                          /\ e[1] = p \o Consume(e[1], Len(p))
    <2>1. PICK e \in E : StartsWith(e[1], p) /\ d = <<Consume(e[1], Len(p)), e[2]>>
        BY DEF Below
    <2>2. e[1] \in Seq(Nibble) /\ e[2] \in Values /\ e = <<e[1], e[2]>>
        BY DEF EntrySets
    <2> QED BY <2>1, <2>2, Rejoined
<1>2. ASSUME NEW d \in Below(E, p) PROVE d \in Seq(Nibble) \X Values
    BY <1>1
<1>3. ASSUME NEW s \in Seq(Nibble), NEW v \in Values, <<s, v>> \in Below(E, p)
      PROVE  <<p \o s, v>> \in E
    BY <1>1, <1>3
<1>4. ASSUME NEW s \in Seq(Nibble), NEW v \in Values, <<p \o s, v>> \in E
      PROVE  <<s, v>> \in Below(E, p)
    <2>1. StartsWith(p \o s, p) /\ Consume(p \o s, Len(p)) = s
        BY Joined
    <2>2. <<p \o s, v>> \in {d \in E : StartsWith(d[1], p)}
        BY <1>4, <2>1
    <2>3. <<Consume(<<p \o s, v>>[1], Len(p)), <<p \o s, v>>[2]>> \in Below(E, p)
        BY <2>2 DEF Below
    <2> QED BY <2>1, <2>3
<1> QED BY <1>2, <1>3, <1>4 DEF EntrySets

\* The paths of entries that are left behind a path are shorter by it.
LEMMA BelowShorter ==
    ASSUME NEW E \in EntrySets, NEW p \in Seq(Nibble), NEW d \in Below(E, p)
    PROVE  \E e \in E : /\ Len(d[1]) \in Nat /\ Len(e[1]) \in Nat /\ Len(p) \in Nat
                        /\ Len(e[1]) = Len(p) + Len(d[1])
<1>1. Below(E, p) \in EntrySets
    BY BelowHas
<1>2. d[1] \in Seq(Nibble) /\ d[2] \in Values /\ d = <<d[1], d[2]>>
    BY <1>1 DEF EntrySets
<1>3. <<p \o d[1], d[2]>> \in E
    BY <1>2, BelowHas
<1>4. /\ Len(p \o d[1]) = Len(p) + Len(d[1])
      /\ Len(d[1]) \in Nat /\ Len(p) \in Nat
    BY <1>2, ConcatProperties, LenProperties
<1>5. PICK e \in E : e = <<p \o d[1], d[2]>>
    BY <1>3
<1>6. e[1] = p \o d[1]
    BY <1>5
<1>7. Len(e[1]) = Len(p) + Len(d[1]) /\ Len(e[1]) \in Nat
    BY <1>4, <1>6
<1> QED BY <1>4, <1>7, Zenon

\* They stay below the same bound.
LEMMA BelowNoLonger ==
    ASSUME NEW E \in EntrySets, NEW D \in NoLongerThan(E), NEW p \in Seq(Nibble)
    PROVE  D \in EntrySets /\ Below(D, p) \in NoLongerThan(E)
<1>1. D \in EntrySets /\ \A d \in D : \E e \in E : Len(d[1]) <= Len(e[1])
    BY DEF NoLongerThan, EntrySets
<1>2. Below(D, p) \in EntrySets
    BY <1>1, BelowHas
<1>3. ASSUME NEW d \in Below(D, p) PROVE \E e \in E : Len(d[1]) <= Len(e[1])
    <2>1. PICK c \in D : /\ Len(d[1]) \in Nat /\ Len(c[1]) \in Nat /\ Len(p) \in Nat
                         /\ Len(c[1]) = Len(p) + Len(d[1])
        BY <1>1, BelowShorter
    <2>2. PICK e \in E : Len(c[1]) <= Len(e[1])
        BY <1>1, <2>1
    <2>3. e[1] \in Seq(Nibble)
        BY DEF EntrySets
    <2>4. Len(e[1]) \in Nat
        BY <2>3, LenProperties
    <2> QED BY <2>1, <2>2, <2>4
<1> QED BY <1>1, <1>2, <1>3 DEF NoLongerThan, EntrySets

\* The root of a compressed trie depends on the tries below it only.
LEMMA CompressedLocal ==
    ASSUME NEW E \in EntrySets, NEW g, NEW h,
           \A p \in Seq(Nibble) : p # <<>> => g[Below(E, p)] = h[Below(E, p)]
    PROVE  CompressedRoot(g, E) = CompressedRoot(h, E)
<1> DEFINE paths == {e[1] : e \in E}
           common == LongestCommonPrefix(paths)
           v == IF <<>> \in paths THEN CHOOSE v \in Values : <<<<>>, v>> \in E ELSE NoValue
           bg == [i \in Nibble |-> g[Below(E, <<i>>)]]
           bh == [i \in Nibble |-> h[Below(E, <<i>>)]]
<1>1. \A i \in Nibble : <<i>> \in Seq(Nibble) /\ <<i>> # <<>>
    OBVIOUS
<1>2. bg = bh
    BY <1>1
<1>3. E # {} => common \in Seq(Nibble)
    <2>1. paths \subseteq Seq(Nibble) /\ (E # {} => paths # {})
        BY DEF EntrySets
    <2> HIDE DEF paths
    <2> QED BY <2>1, CommonOfAll
<1>4. E = {} => Cardinality(E) = 0
    BY FS_EmptySet
<1>5. Cardinality(E) > 1 /\ common # <<>> => g[Below(E, common)] = h[Below(E, common)]
    BY <1>3, <1>4
<1>6. CompressedRoot(g, E) =
         CASE E = {} -> EmptyRef
           [] Cardinality(E) = 1 ->
                RefTo(Leaf((CHOOSE e \in E : TRUE)[1], (CHOOSE e \in E : TRUE)[2]))
           [] Cardinality(E) > 1 /\ common # <<>> -> RefTo(Extension(common, g[Below(E, common)]))
           [] OTHER -> RefTo(Branch(bg, v))
    BY Zenon DEF CompressedRoot
<1>7. CompressedRoot(h, E) =
         CASE E = {} -> EmptyRef
           [] Cardinality(E) = 1 ->
                RefTo(Leaf((CHOOSE e \in E : TRUE)[1], (CHOOSE e \in E : TRUE)[2]))
           [] Cardinality(E) > 1 /\ common # <<>> -> RefTo(Extension(common, h[Below(E, common)]))
           [] OTHER -> RefTo(Branch(bh, v))
    BY Zenon DEF CompressedRoot
<1> HIDE DEF common, bg, bh, v
<1> QED BY <1>2, <1>5, <1>6, <1>7

\* T has the root of the compressed trie of each set of entries of D.
Roots(T, D) == T = [E \in D |-> T[E]] /\ \A E \in D : T[E] = CompressedRoot(T, E)

\* The recursion that defines the compressed trie ends.
LEMMA TrieUnfolds ==
    ASSUME NEW E \in EntrySets, NEW N \in Nat, \A e \in E : Len(e[1]) <= N
    PROVE  \E T : TrieOf(E) = T[E] /\ Roots(T, NoLongerThan(E))
<1> DEFINE D == NoLongerThan(E)
           short(n) == {X \in D : \A x \in X : Len(x[1]) < n}
           S == {n \in 0..(N + 1) : \E T : T = [X \in D |-> T[X]] /\
                     \A X \in short(n) : T[X] = CompressedRoot(T, X)}
<1>1. ASSUME NEW n \in Nat, NEW X \in D, \A x \in X : Len(x[1]) < n + 1,
             NEW p \in Seq(Nibble), p # <<>>
      PROVE  Below(X, p) \in short(n)
    <2>1. X \in EntrySets /\ Below(X, p) \in D
        BY <1>1, BelowNoLonger
    <2>2. ASSUME NEW d \in Below(X, p) PROVE Len(d[1]) < n
        <3>1. PICK c \in X : /\ Len(d[1]) \in Nat /\ Len(c[1]) \in Nat /\ Len(p) \in Nat
                             /\ Len(c[1]) = Len(p) + Len(d[1])
            BY <2>1, BelowShorter
        <3>2. Len(p) # 0
            BY <1>1, EmptySeq
        <3> QED BY <1>1, <3>1, <3>2
    <2> QED BY <2>1, <2>2
<1>2. 0 \in S
    <2> DEFINE T == [X \in D |-> EmptyRef]
    <2>1. ASSUME NEW X \in short(0) PROVE X = {}
        <3>1. ASSUME NEW x \in X PROVE FALSE
            <4>1. x[1] \in Seq(Nibble) /\ Len(x[1]) < 0
                BY DEF NoLongerThan
            <4> QED BY <4>1, LenProperties
        <3> QED BY <3>1
    <2>2. CompressedRoot(T, {}) = EmptyRef
        <3>1. Cardinality({}) = 0
            BY FS_EmptySet
        <3> QED BY <3>1 DEF CompressedRoot
    <2>3. ASSUME NEW X \in short(0) PROVE T[X] = CompressedRoot(T, X)
        <3>1. X \in D /\ X = {}
            BY <2>1
        <3>2. T[X] = EmptyRef
            BY <3>1
        <3> QED BY <2>2, <3>1, <3>2
    <2>4. T = [X \in D |-> T[X]]
        OBVIOUS
    <2>5. 0 \in 0..(N + 1)
        OBVIOUS
    <2> HIDE DEF T, D
    <2> QED BY <2>3, <2>4, <2>5
<1>3. ASSUME NEW n \in 0..N, n \in S PROVE n + 1 \in S
    <2>1. PICK T : /\ T = [X \in D |-> T[X]]
                   /\ \A X \in short(n) : T[X] = CompressedRoot(T, X)
        BY <1>3
    <2> DEFINE U == [X \in D |-> IF X \in short(n) THEN T[X] ELSE CompressedRoot(T, X)]
    <2>2. \A X \in short(n) : U[X] = T[X]
        OBVIOUS
    <2>3. \A X \in D : U[X] = CompressedRoot(T, X)
        BY <2>1
    <2>4. U = [X \in D |-> U[X]]
        OBVIOUS
    <2> HIDE DEF U
    <2>5. ASSUME NEW X \in short(n + 1) PROVE U[X] = CompressedRoot(U, X)
        <3>1. X \in D /\ X \in EntrySets /\ \A x \in X : Len(x[1]) < n + 1
            BY BelowNoLonger, EmptySeq
        <3>2. \A p \in Seq(Nibble) : p # <<>> => Below(X, p) \in short(n)
            BY <1>1, <3>1
        <3>3. \A p \in Seq(Nibble) : p # <<>> => T[Below(X, p)] = U[Below(X, p)]
            BY <2>2, <3>2
        <3>4. CompressedRoot(T, X) = CompressedRoot(U, X)
            BY <3>1, <3>3, CompressedLocal
        <3> QED BY <2>3, <3>1, <3>4
    <2>6. n + 1 \in 0..(N + 1)
        OBVIOUS
    <2> HIDE DEF D, short
    <2> QED BY <2>4, <2>5, <2>6
<1>4. N + 1 \in S
    <2> HIDE DEF S
    <2>1. N + 1 \in Nat /\ (N + 1) - 1 = N
        OBVIOUS
    <2>2. \A n \in 0..(N + 1) : n \in S
        BY <1>2, <1>3, <2>1, InductionUpTo
    <2> QED BY <2>1, <2>2
<1>5. PICK T : /\ T = [X \in D |-> T[X]]
               /\ \A X \in short(N + 1) : T[X] = CompressedRoot(T, X)
    BY <1>4
<1>6. ASSUME NEW X \in D PROVE X \in short(N + 1)
    <2>1. ASSUME NEW x \in X PROVE Len(x[1]) < N + 1
        <3>1. x[1] \in Seq(Nibble) /\ \E e \in E : Len(x[1]) <= Len(e[1])
            BY DEF NoLongerThan
        <3>2. PICK e \in E : Len(x[1]) <= Len(e[1])
            BY <3>1
        <3>3. e[1] \in Seq(Nibble) /\ Len(e[1]) <= N
            BY DEF EntrySets
        <3>4. Len(x[1]) \in Nat /\ Len(e[1]) \in Nat
            BY <3>1, <3>3, LenProperties
        <3> QED BY <3>2, <3>3, <3>4
    <2> QED BY <2>1
<1>7. \A X \in D : T[X] = CompressedRoot(T, X)
    BY <1>5, <1>6
<1> HIDE DEF D, short, S
<1> DEFINE trie == CHOOSE t : t = [X \in D |-> CompressedRoot(t, X)]
<1>8. T = [X \in D |-> CompressedRoot(T, X)]
    BY <1>5, <1>7
<1>9. trie = [X \in D |-> CompressedRoot(trie, X)]
    BY <1>8
<1>10. TrieOf(E) = trie[E]
    BY Zenon DEF TrieOf, D
<1> HIDE DEF trie
<1>11. Roots(trie, D)
    BY <1>9 DEF Roots
<1> QED BY <1>10, <1>11 DEF D

--------------------------------------------------------------------------------
(* A storage in which no nodes could be merged.                                *)

\* The values of a function on a finite set are finitely many.
LEMMA ImageFinite ==
    ASSUME NEW S, IsFiniteSet(S), NEW f
    PROVE  IsFiniteSet({f[x] : x \in S})
<1> DEFINE T == {f[x] : x \in S}
           h == [x \in S |-> f[x]]
<1>1. h \in Surjection(S, T)
    BY DEF Surjection
<1> HIDE DEF h, T
<1>2. IsFiniteSet(T)
    BY <1>1, FS_Surjection
<1> QED BY <1>2 DEF T

\* The keys of finitely many entries have a bound.
LEMMA LengthsBounded ==
    ASSUME NEW E \in EntrySets, IsFiniteSet(E)
    PROVE  \E N \in Nat : \A e \in E : Len(e[1]) <= N
<1>1. PICK n \in Nat : ExistsSurjection(1..n, E)
    BY FS_NatSurjection
<1>2. PICK f \in Surjection(1..n, E) : TRUE
    BY <1>1 DEF ExistsSurjection
<1>3. f \in [1..n -> E] /\ \A e \in E : \E i \in 1..n : f[i] = e
    BY <1>2 DEF Surjection
<1>4. ASSUME NEW i \in 1..n PROVE Len(f[i][1]) \in Nat
    <2>1. f[i] \in E
        BY <1>3
    <2>2. f[i][1] \in Seq(Nibble)
        BY <2>1 DEF EntrySets
    <2> QED BY <2>2, LenProperties
<1> DEFINE S == {k \in 0..n : \E N \in Nat : \A i \in 1..k : Len(f[i][1]) <= N}
<1>5. 0 \in S
    <2>1. 0 \in Nat /\ 0 \in 0..n /\ \A i \in 1..0 : Len(f[i][1]) <= 0
        OBVIOUS
    <2> QED BY <2>1
<1>6. ASSUME NEW k \in 0..(n - 1), k \in S PROVE k + 1 \in S
    <2>1. PICK N \in Nat : \A i \in 1..k : Len(f[i][1]) <= N
        BY <1>6
    <2>2. k + 1 \in 1..n /\ Len(f[k + 1][1]) \in Nat
        BY <1>4
    <2> DEFINE M == N + Len(f[k + 1][1])
    <2>3. M \in Nat /\ \A i \in 1..(k + 1) : Len(f[i][1]) <= M
        <3>1. \A i \in 1..k : Len(f[i][1]) \in Nat
            BY <1>4
        <3>2. \A i \in 1..(k + 1) : i \in 1..k \/ i = k + 1
            OBVIOUS
        <3> QED BY <2>1, <2>2, <3>1, <3>2
    <2>4. k + 1 \in 0..n
        OBVIOUS
    <2> HIDE DEF M
    <2> QED BY <2>3, <2>4
<1>7. n \in S
    <2> HIDE DEF S
    <2>1. \A k \in 0..n : k \in S
        BY <1>5, <1>6, InductionUpTo
    <2> QED BY <2>1
<1>8. PICK N \in Nat : \A i \in 1..n : Len(f[i][1]) <= N
    BY <1>7
<1> QED BY <1>3, <1>8

\* A reference to a storage has finitely many entries.
LEMMA EntriesFinite ==
    ASSUME NEW store, Sound(store)
    PROVE  \A r \in Refs(store) : IsFiniteSet(Entries(store)[r])
<1> DEFINE E == Entries(store)
           S == {r \in Refs(store) : IsFiniteSet(E[r])}
<1>1. Closed(store) /\ Ranked(store)
    BY DEF Sound
<1>2. EmptyRef \in S
    BY EntriesType, FS_EmptySet DEF Refs
<1>3. ASSUME NEW p, NEW X, IsFiniteSet(X) PROVE IsFiniteSet(Prefixed(p, X))
    <2> DEFINE f == [e \in X |-> <<p \o e[1], e[2]>>]
    <2>1. Prefixed(p, X) = {f[e] : e \in X}
        BY DEF Prefixed
    <2> HIDE DEF f
    <2> QED BY <1>3, <2>1, ImageFinite
<1>4. ASSUME NEW r \in Refs(store), r # EmptyRef, RefsOf(NodeAt(store, r)) \subseteq S
      PROVE  r \in S
    <2>1. PICK n \in Nodes(store) : n = NodeAt(store, r)
        BY <1>1, <1>4, NodeAtType
    <2>2. E[r] = NodeEntries(E, n)
        BY <1>4, <2>1, EntriesType
    <2> HIDE DEF E
    <2>3. CASE n.kind = "leaf"
        <3>1. E[r] = {<<n.path, n.value>>}
            BY <2>2, <2>3 DEF NodeEntries
        <3>2. IsFiniteSet(E[r])
            BY <3>1, FS_Singleton
        <3> QED BY <3>2
    <2>4. CASE n.kind = "extension"
        <3>1. IsFiniteSet(E[n.next])
            BY <1>4, <2>1, <2>4 DEF RefsOf
        <3>2. E[r] = Prefixed(n.path, E[n.next])
            BY <2>2, <2>4 DEF NodeEntries
        <3>3. IsFiniteSet(E[r])
            BY <1>3, <3>1, <3>2
        <3> QED BY <3>3
    <2>5. CASE n.kind = "branch"
        <3> DEFINE parts == [i \in Nibble |-> Prefixed(<<i>>, E[n.branches[i]])]
                   own == {<<<<>>, v>> : v \in {n.value} \ {NoValue}}
        <3>1. \A i \in Nibble : IsFiniteSet(E[n.branches[i]])
            BY <1>4, <2>1, <2>5 DEF RefsOf
        <3>2. \A i \in Nibble : IsFiniteSet(parts[i])
            BY <1>3, <3>1
        <3>3. IsFiniteSet(Nibble)
            BY ConstantsAssumption
        <3> HIDE DEF parts
        <3>4. IsFiniteSet({parts[i] : i \in Nibble})
            BY <3>3, ImageFinite
        <3>5. IsFiniteSet(UNION {parts[i] : i \in Nibble})
            <4>1. PICK P : P = {parts[i] : i \in Nibble}
                OBVIOUS
            <4>2. \A X \in P : IsFiniteSet(X)
                BY <3>2, <4>1
            <4> QED BY <3>4, <4>1, <4>2, FS_UNION
        <3>6. IsFiniteSet(own)
            <4>1. own \subseteq {<<<<>>, n.value>>}
                OBVIOUS
            <4> HIDE DEF own
            <4> QED BY <4>1, FS_Singleton, FS_Subset
        <3>7. E[r] = (UNION {parts[i] : i \in Nibble}) \cup own
            BY <2>2, <2>5 DEF NodeEntries, parts
        <3> HIDE DEF own
        <3>8. IsFiniteSet(E[r])
            BY <3>5, <3>6, <3>7, FS_Union
        <3> QED BY <3>8
    <2> QED BY <2>3, <2>4, <2>5, NodeKinds
<1>5. Refs(store) \subseteq S
    <2> HIDE DEF S
    <2> QED BY <1>1, <1>2, <1>4, RefInduction
<1> QED BY <1>5

\* A branch cannot be merged with its only child, or be replaced by a leaf.
Forks(n) ==
    \/ n.value # NoValue /\ Children(n) # {}
    \/ \E i, j \in Children(n) : i # j

\* A reference that PutToStorage makes for the node it leads to.
Genuine(store, r) == r # EmptyRef => r = RefTo(NodeAt(store, r))

\* The node could not be merged with one it refers to.
Unmergeable(store, n) ==
    /\ n.kind = "extension" => n.path # <<>> /\ NodeAt(store, n.next).kind = "branch"
    /\ n.kind = "branch" => Forks(n)
    /\ \A c \in RefsOf(n) : Genuine(store, c)

Compressed(store) == \A h \in DOMAIN store : Unmergeable(store, store[h])

Paths(E) == {e[1] : e \in E}

\* Entries with different keys are more than one.
LEMMA SeveralEntries ==
    ASSUME NEW E, IsFiniteSet(E), NEW x \in E, NEW y \in E, x # y
    PROVE  E # {} /\ Cardinality(E) # 1 /\ Cardinality(E) > 1
<1>1. Cardinality(E) \in Nat
    BY FS_CardinalityType
<1>2. Cardinality(E) # 0
    BY FS_EmptySet
<1>3. Cardinality(E) # 1
    BY FS_Singleton
<1> QED BY <1>1, <1>2, <1>3

\* The root of the compressed trie of one entry.
LEMMA CompressedLeaf ==
    ASSUME NEW T, NEW p, NEW v
    PROVE  CompressedRoot(T, {<<p, v>>}) = RefTo(Leaf(p, v))
<1> DEFINE E == {<<p, v>>}
<1>1. E # {} /\ Cardinality(E) = 1
    BY FS_Singleton
<1>2. (CHOOSE e \in E : TRUE) = <<p, v>>
    OBVIOUS
<1> HIDE DEF E
<1>3. CompressedRoot(T, E) = RefTo(Leaf((CHOOSE e \in E : TRUE)[1], (CHOOSE e \in E : TRUE)[2]))
    BY <1>1 DEF CompressedRoot
<1> QED BY <1>2, <1>3 DEF E

\* The root of the compressed trie of entries behind a common path.
LEMMA CompressedExtension ==
    ASSUME NEW T, NEW p \in Seq(Nibble), p # <<>>, NEW X \in EntrySets,
           Apart(Paths(X)), NEW x \in X, NEW y \in X, x # y,
           IsFiniteSet(Prefixed(p, X))
    PROVE  CompressedRoot(T, Prefixed(p, X)) = RefTo(Extension(p, T[X]))
<1> DEFINE E == Prefixed(p, X)
<1>1. E \in EntrySets
    BY PrefixedType
<1>2. \A e \in X : e[1] \in Seq(Nibble) /\ e[2] \in Values /\ e = <<e[1], e[2]>>
    BY DEF EntrySets
<1>3. <<p \o x[1], x[2]>> \in E /\ <<p \o y[1], y[2]>> \in E
    BY DEF Prefixed
<1>4. <<p \o x[1], x[2]>> # <<p \o y[1], y[2]>>
    <2>1. x[1] \in Seq(Nibble) /\ y[1] \in Seq(Nibble) /\ (x[1] # y[1] \/ x[2] # y[2])
        BY <1>2
    <2>2. p \o x[1] = p \o y[1] => x[1] = y[1]
        BY <2>1, Cancel
    <2> QED BY <2>1, <2>2
<1>5. E # {} /\ Cardinality(E) # 1 /\ Cardinality(E) > 1
    BY <1>3, <1>4, SeveralEntries
<1>6. LongestCommonPrefix(Paths(E)) = p
    <2>1. Paths(E) = {p \o t : t \in Paths(X)}
        <3>1. ASSUME NEW k \in Paths(E) PROVE \E t \in Paths(X) : k = p \o t
            <4>1. PICK d \in E : k = d[1]
                BY DEF Paths
            <4>2. PICK e \in X : d = <<p \o e[1], e[2]>>
                BY DEF Prefixed
            <4>3. k = p \o e[1] /\ e[1] \in Paths(X)
                BY <4>1, <4>2 DEF Paths
            <4> QED BY <4>3
        <3>2. ASSUME NEW t \in Paths(X) PROVE p \o t \in Paths(E)
            <4>1. PICK e \in X : t = e[1]
                BY DEF Paths
            <4>2. <<p \o e[1], e[2]>> \in E
                BY DEF Prefixed
            <4>3. PICK d \in E : d = <<p \o e[1], e[2]>>
                BY <4>2
            <4>4. d[1] = p \o t
                BY <4>1, <4>3
            <4> QED BY <4>4 DEF Paths
        <3> QED BY <3>1, <3>2
    <2>2. Paths(X) \in SUBSET Seq(Nibble)
        BY <1>2 DEF Paths
    <2> HIDE DEF E
    <2> QED BY <2>1, <2>2, CommonIs
<1>7. Below(E, p) = X
    <2>1. Below(E, p) \in EntrySets
        BY <1>1, BelowHas
    <2>2. \A s \in Seq(Nibble), v \in Values : <<s, v>> \in Below(E, p) <=> <<s, v>> \in X
        BY <1>1, BelowHas, PrefixedHas
    <2> HIDE DEF E
    <2> QED BY <2>1, <2>2, SameEntries
<1> HIDE DEF E
<1>8. CompressedRoot(T, E) = RefTo(Extension(LongestCommonPrefix(Paths(E)),
                                             T[Below(E, LongestCommonPrefix(Paths(E)))]))
    BY <1>5, <1>6 DEF CompressedRoot, Paths
<1> QED BY <1>6, <1>7, <1>8 DEF E

\* The paths of a branch part at once, and it has several entries.
LEMMA BranchParts ==
    ASSUME NEW store, Sound(store), NEW n \in Branches(store), Forks(n)
    PROVE  /\ Apart(Paths(NodeEntries(Entries(store), n)))
           /\ \E x, y \in NodeEntries(Entries(store), n) : x # y
<1> DEFINE g == Entries(store)
           E == NodeEntries(g, n)
<1>1. /\ n.kind = "branch" /\ n.branches \in [Nibble -> Refs(store)]
      /\ n.value \in StoredValues
    BY DEF Branches
<1>2. \A i \in Nibble : g[n.branches[i]] \in EntrySets
    BY <1>1, EntriesType
<1>3. ASSUME NEW i \in Children(n)
      PROVE  \E s \in Seq(Nibble), v \in Values : <<<<i>> \o s, v>> \in E
    <2>1. i \in Nibble /\ n.branches[i] # EmptyRef
        BY DEF Children
    <2>2. g[n.branches[i]] # {}
        BY <1>1, <2>1, HasEntries
    <2>3. PICK e \in g[n.branches[i]] : TRUE
        BY <2>2
    <2>4. e[1] \in Seq(Nibble) /\ e[2] \in Values /\ e = <<e[1], e[2]>>
        BY <1>2, <2>1 DEF EntrySets
    <2> HIDE DEF g
    <2>5. <<<<i>> \o e[1], e[2]>> \in E
        BY <1>1, <1>2, <2>1, <2>3, <2>4, BranchEntries
    <2> QED BY <2>4, <2>5
<1>4. \A v : <<<<>>, v>> \in E <=> v = n.value /\ v # NoValue
    <2> HIDE DEF g
    <2> QED BY <1>1, <1>2, BranchEntries
<1> HIDE DEF E
<1>5. ASSUME NEW k, NEW v, <<k, v>> \in E PROVE k \in Paths(E)
    <2>1. PICK e \in E : e = <<k, v>>
        BY <1>5
    <2>2. e[1] = k
        BY <2>1
    <2> QED BY <2>2 DEF Paths
<1>6. CASE n.value # NoValue /\ Children(n) # {}
    <2>1. PICK i \in Children(n) : TRUE
        BY <1>6
    <2>2. PICK s \in Seq(Nibble), v \in Values : <<<<i>> \o s, v>> \in E
        BY <1>3
    <2>3. <<<<>>, n.value>> \in E
        BY <1>4, <1>6
    <2>4. <<i>> \o s # <<>>
        BY <2>1, <2>2, Prepended DEF Children
    <2>5. <<<<i>> \o s, v>> # <<<<>>, n.value>>
        BY <2>4
    <2>6. Apart(Paths(E))
        BY <1>5, <2>3 DEF Apart
    <2> QED BY <2>2, <2>3, <2>5, <2>6 DEF E
<1>7. ASSUME NEW i \in Children(n), NEW j \in Children(n), i # j
      PROVE  Apart(Paths(E)) /\ \E x, y \in E : x # y
    <2>1. PICK s \in Seq(Nibble), v \in Values : <<<<i>> \o s, v>> \in E
        BY <1>3
    <2>2. PICK t \in Seq(Nibble), w \in Values : <<<<j>> \o t, w>> \in E
        BY <1>3
    <2>3. /\ <<i>> \o s # <<>> /\ Head(<<i>> \o s) = i
          /\ <<j>> \o t # <<>> /\ Head(<<j>> \o t) = j
        BY Prepended DEF Children
    <2>4. <<i>> \o s \in Paths(E) /\ <<j>> \o t \in Paths(E)
        BY <1>5, <2>1, <2>2
    <2>5. Apart(Paths(E))
        BY <1>7, <2>3, <2>4 DEF Apart
    <2>6. <<<<i>> \o s, v>> # <<<<j>> \o t, w>>
        BY <1>7, <2>3
    <2> QED BY <2>1, <2>2, <2>5, <2>6
<1> QED BY <1>6, <1>7 DEF Forks, E

\* The root of the compressed trie of the entries of a branch.
LEMMA CompressedBranch ==
    ASSUME NoEmptyValue, NEW T, NEW store, Sound(store), NEW n \in Branches(store), Forks(n),
           NEW E, E = NodeEntries(Entries(store), n), IsFiniteSet(E), E \in EntrySets
    PROVE  CompressedRoot(T, E)
             = RefTo(Branch([i \in Nibble |-> T[Entries(store)[n.branches[i]]]], n.value))
<1> DEFINE g == Entries(store)
           v == IF <<>> \in Paths(E) THEN CHOOSE v \in Values : <<<<>>, v>> \in E ELSE NoValue
<1>1. /\ n.kind = "branch" /\ n.branches \in [Nibble -> Refs(store)]
      /\ n.value \in StoredValues
    BY DEF Branches
<1>2. \A i \in Nibble : g[n.branches[i]] \in EntrySets
    BY <1>1, EntriesType
<1>3. Apart(Paths(E)) /\ \E x, y \in E : x # y
    BY BranchParts
<1>4. E # {} /\ Cardinality(E) # 1 /\ Cardinality(E) > 1
    BY <1>3, SeveralEntries
<1>5. \A e \in E : e[1] \in Seq(Nibble) /\ e[2] \in Values /\ e = <<e[1], e[2]>>
    BY DEF EntrySets
<1> HIDE DEF g
<1>6. /\ \A w : <<<<>>, w>> \in E <=> w = n.value /\ w # NoValue
      /\ \A i \in Nibble, s \in Seq(Nibble), w \in Values :
            <<<<i>> \o s, w>> \in E <=> <<s, w>> \in g[n.branches[i]]
    BY <1>1, <1>2, BranchEntries DEF g
<1>7. LongestCommonPrefix(Paths(E)) = <<>>
    <2>1. Paths(E) \in SUBSET Seq(Nibble)
        BY <1>5 DEF Paths
    <2>2. {<<>> \o t : t \in Paths(E)} = Paths(E)
        <3>1. \A t \in Paths(E) : <<>> \o t = t
            BY <2>1, ConcatEmptySeq
        <3> QED BY <3>1
    <2>3. <<>> \in Seq(Nibble)
        BY EmptySeq
    <2> QED BY <1>3, <2>1, <2>2, <2>3, CommonIs
<1>8. ASSUME NEW i \in Nibble PROVE Below(E, <<i>>) = g[n.branches[i]]
    <2>1. <<i>> \in Seq(Nibble)
        OBVIOUS
    <2>2. Below(E, <<i>>) \in EntrySets
        BY <2>1, BelowHas
    <2>3. \A s \in Seq(Nibble), w \in Values :
             <<s, w>> \in Below(E, <<i>>) <=> <<s, w>> \in g[n.branches[i]]
        BY <1>6, <2>1, BelowHas
    <2>4. g[n.branches[i]] \in EntrySets
        BY <1>2
    <2>5. \A s \in Seq(Nibble) : \A w \in Values :
             <<s, w>> \in Below(E, <<i>>) <=> <<s, w>> \in g[n.branches[i]]
        BY <2>3
    <2> QED BY <2>2, <2>4, <2>5, SameEntries
<1>9. v = n.value
    <2>1. ASSUME <<>> \in Paths(E) PROVE <<<<>>, n.value>> \in E /\ n.value \in Values
        <3>1. PICK e \in E : e[1] = <<>>
            BY <2>1 DEF Paths
        <3> QED BY <1>5, <1>6, <3>1
    <2>2. ASSUME <<>> \notin Paths(E) PROVE n.value = NoValue
        <3>1. ASSUME n.value # NoValue PROVE FALSE
            <4>1. PICK e \in E : e = <<<<>>, n.value>>
                BY <1>6, <3>1
            <4>2. e[1] = <<>>
                BY <4>1
            <4> QED BY <2>2, <4>2 DEF Paths
        <3> QED BY <3>1
    <2>3. CASE <<>> \in Paths(E)
        <3>1. (CHOOSE w \in Values : <<<<>>, w>> \in E) = n.value
            BY <1>6, <2>1, <2>3
        <3> QED BY <2>3, <3>1
    <2> QED BY <2>2, <2>3
<1> DEFINE below == [i \in Nibble |-> T[Below(E, <<i>>)]]
<1>10. below = [i \in Nibble |-> T[g[n.branches[i]]]]
    BY <1>8
<1>11. CompressedRoot(T, E) = RefTo(Branch(below, v))
    <2> USE <1>4, <1>7 DEF CompressedRoot, Paths
    <2> QED OBVIOUS
<1> HIDE DEF below, v
<1> QED BY <1>9, <1>10, <1>11 DEF g

\* Entries of which all are in E behind p are no longer than those of E.
LEMMA BehindNoLonger ==
    ASSUME NEW F \in EntrySets, NEW E \in NoLongerThan(F), NEW p \in Seq(Nibble),
           NEW X \in EntrySets,
           \A s \in Seq(Nibble), v \in Values : <<s, v>> \in X => <<p \o s, v>> \in E
    PROVE  X \in NoLongerThan(F)
<1>1. E \in EntrySets
    BY BelowNoLonger, EmptySeq
<1>2. Below(E, p) \in NoLongerThan(F)
    BY BelowNoLonger
<1>3. \A s \in Seq(Nibble), v \in Values : <<s, v>> \in X => <<s, v>> \in Below(E, p)
    BY <1>1, BelowHas
<1>4. \A d \in X : d[1] \in Seq(Nibble) /\ d[2] \in Values /\ d = <<d[1], d[2]>>
    BY DEF EntrySets
<1>5. X \subseteq Below(E, p)
    BY <1>3, <1>4
<1> QED BY <1>2, <1>5 DEF NoLongerThan

\* In a storage where no nodes could be merged each reference is the root of the
\* compressed trie of its entries.
LEMMA CompressedIsTrie ==
    ASSUME NoEmptyValue, NEW store, Sound(store), Compressed(store),
           NEW r \in Refs(store), Genuine(store, r)
    PROVE  r = TrieOf(Entries(store)[r])
<1> DEFINE g == Entries(store)
           F == g[r]
<1>1. Closed(store) /\ Ranked(store)
    BY DEF Sound
<1>2. /\ g[EmptyRef] = {}
      /\ \A c \in Refs(store) : g[c] \in EntrySets /\ IsFiniteSet(g[c])
      /\ \A c \in Refs(store) : c # EmptyRef => g[c] = NodeEntries(g, NodeAt(store, c))
    BY EntriesType, EntriesFinite
<1>3. PICK N \in Nat : \A e \in F : Len(e[1]) <= N
    BY <1>2, LengthsBounded
<1>4. PICK T : TrieOf(F) = T[F] /\ Roots(T, NoLongerThan(F))
    <2> HIDE DEF F
    <2>1. F \in EntrySets
        BY <1>2 DEF F
    <2> QED BY <1>3, <2>1, TrieUnfolds
<1>5. F \in EntrySets /\ F \in NoLongerThan(F)
    <2>1. F \in EntrySets
        BY <1>2
    <2>2. \A d \in F : Len(d[1]) \in Nat
        <3> HIDE DEF F
        <3>1. \A d \in F : d[1] \in Seq(Nibble)
            BY <2>1 DEF EntrySets
        <3> QED BY <3>1, LenProperties
    <2>3. \A d \in F : Len(d[1]) <= Len(d[1])
        BY <2>2
    <2> HIDE DEF F
    <2> QED BY <2>1, <2>3 DEF NoLongerThan, EntrySets
<1>6. \A E \in NoLongerThan(F) : T[E] = CompressedRoot(T, E)
    BY <1>4 DEF Roots
<1> DEFINE S == {c \in Refs(store) :
                    Genuine(store, c) /\ g[c] \in NoLongerThan(F) => c = T[g[c]]}
<1>7. EmptyRef \in S
    <2>1. CompressedRoot(T, {}) = EmptyRef
        <3>1. Cardinality({}) = 0
            BY FS_EmptySet
        <3> QED BY <3>1 DEF CompressedRoot
    <2>2. EmptyRef \in Refs(store)
        BY DEF Refs
    <2> HIDE DEF F, g
    <2> QED BY <1>2, <1>6, <2>1, <2>2
<1>8. ASSUME NEW c \in Refs(store), c # EmptyRef, RefsOf(NodeAt(store, c)) \subseteq S
      PROVE  c \in S
    <2> SUFFICES ASSUME Genuine(store, c), g[c] \in NoLongerThan(F) PROVE c = T[g[c]]
        OBVIOUS
    <2>1. PICK n \in Nodes(store) : n = NodeAt(store, c)
        BY <1>1, <1>8, NodeAtType
    <2>2. c = RefTo(n)
        BY <1>8, <2>1 DEF Genuine
    <2> DEFINE E == g[c]
    <2>3. E = NodeEntries(g, n) /\ E \in EntrySets /\ IsFiniteSet(E)
        BY <1>2, <1>8, <2>1
    <2>4. T[E] = CompressedRoot(T, E)
        BY <1>6
    <2>5. n.kind # "leaf" => Unmergeable(store, n)
        BY <1>1, <1>8, <2>1, NodeAtType DEF Compressed
    <2> HIDE DEF F
    <2>6. E \in NoLongerThan(F)
        OBVIOUS
    <2>7. \A d \in RefsOf(n) : d \in Refs(store) /\ (Genuine(store, d) /\ g[d] \in NoLongerThan(F)
                                                      => d = T[g[d]])
        BY <1>8, <2>1
    <2> HIDE DEF g, E
    <2>8. CASE n.kind = "leaf"
        <3>1. E = {<<n.path, n.value>>}
            BY <2>3, <2>8 DEF NodeEntries
        <3>2. n = Leaf(n.path, n.value)
            BY <2>8, NodeKinds DEF Leaves, Leaf
        <3>3. CompressedRoot(T, E) = RefTo(n)
            BY <3>1, <3>2, CompressedLeaf
        <3> QED BY <2>2, <2>4, <3>3 DEF E
    <2>9. CASE n.kind = "extension"
        <3>1. /\ n \in Extensions(store) /\ n.path \in Seq(Nibble) /\ n.path # <<>>
              /\ n = Extension(n.path, n.next)
              /\ n.next \in NodeRefs(store) /\ n.next \in RefsOf(n)
              /\ NodeAt(store, n.next).kind = "branch" /\ Genuine(store, n.next)
            BY <2>5, <2>9, NodeKinds DEF Extensions, Extension, RefsOf, Unmergeable
        <3>2. n.next \in Refs(store) /\ n.next # EmptyRef
            BY <3>1, RefCases DEF Refs
        <3>3. PICK m \in Nodes(store) : m = NodeAt(store, n.next)
            BY <1>1, <3>2, NodeAtType
        <3>4. m \in Branches(store)
            BY <3>1, <3>3, NodeKinds
        <3>5. Forks(m)
            <4>1. m.kind = "branch"
                BY <3>1, <3>3
            <4>2. n.next.tag = "hash" => m = store[n.next.key] /\ n.next.key \in DOMAIN store
                BY <1>1, <3>2, <3>3, NodeAtType
            <4>3. n.next.tag # "inline"
                BY <1>1, <3>2, <3>3, <4>1, NodeAtType
            <4>4. n.next.tag = "hash"
                BY <1>1, <3>2, <4>3, NodeAtType
            <4> QED BY <4>1, <4>2, <4>4 DEF Compressed, Unmergeable
        <3> DEFINE X == g[n.next]
        <3>6. X = NodeEntries(g, m) /\ X \in EntrySets
            BY <1>2, <3>2, <3>3
        <3>7. Apart(Paths(X)) /\ \E x, y \in X : x # y
            BY <3>4, <3>5, <3>6, BranchParts DEF g
        <3>8. E = Prefixed(n.path, X)
            BY <2>3, <2>9 DEF NodeEntries
        <3> HIDE DEF X
        <3>9. X \in NoLongerThan(F)
            <4>1. \A s \in Seq(Nibble), v \in Values : <<s, v>> \in X => <<n.path \o s, v>> \in E
                BY <3>1, <3>6, <3>8, PrefixedHas
            <4> QED BY <1>5, <2>6, <3>1, <3>6, <4>1, BehindNoLonger
        <3>10. n.next = T[X]
            BY <2>7, <3>1, <3>9 DEF X
        <3>11. CompressedRoot(T, E) = RefTo(Extension(n.path, T[X]))
            <4>1. IsFiniteSet(Prefixed(n.path, X))
                BY <2>3, <3>8
            <4>2. PICK x \in X, y \in X : x # y
                BY <3>7
            <4> QED BY <3>1, <3>6, <3>7, <3>8, <4>1, <4>2, CompressedExtension
        <3> QED BY <2>2, <2>4, <3>1, <3>10, <3>11 DEF E
    <2>10. CASE n.kind = "branch"
        <3>1. /\ n \in Branches(store) /\ n.branches \in [Nibble -> Refs(store)]
              /\ n = Branch(n.branches, n.value)
            BY <2>10, NodeKinds DEF Branches, Branch
        <3>2. Forks(n) /\ \A d \in RefsOf(n) : Genuine(store, d)
            BY <2>5, <2>10 DEF Unmergeable
        <3>3. ASSUME NEW i \in Nibble PROVE T[g[n.branches[i]]] = n.branches[i]
            <4> DEFINE d == n.branches[i]
            <4>1. d \in Refs(store) /\ d \in RefsOf(n) /\ Genuine(store, d)
                BY <2>10, <3>1, <3>2 DEF RefsOf
            <4>2. g[d] \in EntrySets /\ <<i>> \in Seq(Nibble)
                BY <1>2, <4>1
            <4>3. \A j \in Nibble : g[n.branches[j]] \in EntrySets
                BY <1>2, <3>1
            <4>4. \A s \in Seq(Nibble), v \in Values : <<s, v>> \in g[d] => <<<<i>> \o s, v>> \in E
                BY <2>3, <2>10, <4>3, BranchEntries
            <4>5. g[d] \in NoLongerThan(F)
                <5> HIDE DEF d
                <5> QED BY <1>5, <2>6, <4>2, <4>4, BehindNoLonger
            <4> QED BY <2>7, <4>1, <4>5
        <3>4. CompressedRoot(T, E)
                = RefTo(Branch([i \in Nibble |-> T[g[n.branches[i]]]], n.value))
            BY <2>3, <3>1, <3>2, CompressedBranch DEF g
        <3>5. [i \in Nibble |-> T[g[n.branches[i]]]] = n.branches
            BY <3>1, <3>3
        <3> QED BY <2>2, <2>4, <3>1, <3>4, <3>5 DEF E
    <2> QED BY <2>8, <2>9, <2>10, NodeKinds
<1>9. Refs(store) \subseteq S
    <2> HIDE DEF S
    <2> QED BY <1>1, <1>7, <1>8, RefInduction
<1>10. r = T[F]
    BY <1>5, <1>9
<1> QED BY <1>4, <1>10

--------------------------------------------------------------------------------
(* What a set stores could not be merged.                                      *)

\* More in the storage does not change what a reference leads to.
LEMMA GenuineGrows ==
    ASSUME NEW s, NEW t, Within(s, t), Closed(s), NEW r \in Refs(s), Genuine(s, r)
    PROVE  Genuine(t, r)
BY WithinRefs DEF Genuine

\* So a node stays as unmergeable as it was.
LEMMA UnmergeableGrows ==
    ASSUME NEW s, NEW t, Within(s, t), Closed(s), NEW n \in Nodes(s), Unmergeable(s, n)
    PROVE  Unmergeable(t, n)
<1>1. RefsOf(n) \subseteq Refs(s)
    BY RefsOfType
<1>2. \A c \in RefsOf(n) : Genuine(t, c)
    BY <1>1, GenuineGrows DEF Unmergeable
<1>3. ASSUME n.kind = "extension" PROVE NodeAt(t, n.next) = NodeAt(s, n.next)
    <2>1. n.next \in NodeRefs(s)
        BY <1>3, NodeKinds DEF Extensions
    <2>2. n.next \in Refs(s) /\ n.next # EmptyRef
        BY <2>1, RefCases DEF Refs
    <2> QED BY <2>2, WithinRefs
<1> QED BY <1>2, <1>3 DEF Unmergeable

\* PutToStorage of such a node.
LEMMA PutCompressed ==
    ASSUME NoCollisions, NEW store, Sound(store), Compressed(store),
           NEW n \in Nodes(store), Inhabited(n), Unmergeable(store, n)
    PROVE  Compressed(Put(store, n)) /\ Genuine(Put(store, n), RefTo(n))
<1> DEFINE t == Put(store, n)
<1>1. Within(store, t) /\ NodeAt(t, RefTo(n)) = n
    BY PutSound
<1>2. Closed(store)
    BY DEF Sound
<1>3. CASE Inlined(n)
    <2>1. t = store
        BY <1>3 DEF Put
    <2> QED BY <1>1, <2>1 DEF Genuine
<1>4. CASE ~Inlined(n)
    <2>1. t = [h \in DOMAIN store \cup {Hash(n)} |-> IF h = Hash(n) THEN n ELSE store[h]]
        BY <1>4 DEF Put
    <2> HIDE DEF t
    <2>2. ASSUME NEW h \in DOMAIN t PROVE Unmergeable(t, t[h])
        <3>1. PICK m \in Nodes(store) : m = t[h] /\ Unmergeable(store, m)
            BY <1>2, <2>1 DEF Compressed, Closed
        <3> QED BY <1>1, <1>2, <3>1, UnmergeableGrows
    <2>3. Compressed(t) /\ Genuine(t, RefTo(n))
        BY <1>1, <2>2 DEF Compressed, Genuine
    <2> QED BY <2>3 DEF t
<1> QED BY <1>3, <1>4

\* A branch under construction that could not be merged but for what it lacks.
Tight(b) == Compressed(b.store) /\ \A i \in Nibble : Genuine(b.store, b.refs[i])

\* It gets another child.
LEMMA AddNodeTight ==
    ASSUME NoCollisions, NEW b, Growing(b), Tight(b), NEW i \in Nibble,
           NEW n \in Nodes(b.store), Inhabited(n), Unmergeable(b.store, n),
           NEW c, c = [store |-> Put(b.store, n), refs |-> [b.refs EXCEPT ![i] = RefTo(n)]]
    PROVE  Tight(c)
<1>1. /\ c.store = Put(b.store, n) /\ c.refs = [b.refs EXCEPT ![i] = RefTo(n)]
      /\ b.refs \in [Nibble -> Refs(b.store)] /\ Sound(b.store) /\ Closed(b.store)
    BY DEF Growing, Sound
<1>2. Compressed(c.store) /\ Genuine(c.store, RefTo(n))
    BY <1>1, PutCompressed DEF Tight
<1>3. Within(b.store, c.store)
    BY <1>1, PutSound
<1>4. ASSUME NEW j \in Nibble, j # i PROVE Genuine(c.store, c.refs[j])
    <2>1. c.refs[j] = b.refs[j] /\ b.refs[j] \in Refs(b.store) /\ Genuine(b.store, b.refs[j])
        BY <1>1, <1>4 DEF Tight
    <2> QED BY <1>1, <1>3, <2>1, GenuineGrows
<1>5. c.refs[i] = RefTo(n)
    BY <1>1
<1> QED BY <1>2, <1>4, <1>5 DEF Tight

\* CreateBranchLeaf.
LEMMA AddLeafTight ==
    ASSUME NoCollisions, NEW b, Growing(b), Tight(b), NEW p \in Seq(Nibble), NEW v \in Values,
           NEW c, c = AddLeaf(b, p, v)
    PROVE  Tight(c)
<1>1. CASE p = <<>>
    BY <1>1 DEF AddLeaf
<1>2. CASE p # <<>>
    <2> DEFINE n == Leaf(Tail(p), v)
    <2>1. Head(p) \in Nibble /\ Tail(p) \in Seq(Nibble)
        BY <1>2, FirstAndRest
    <2>2. n \in Nodes(b.store) /\ Inhabited(n) /\ Unmergeable(b.store, n)
        BY <2>1 DEF Nodes, Leaves, Leaf, Inhabited, Unmergeable, RefsOf
    <2>3. c = [store |-> Put(b.store, n), refs |-> [b.refs EXCEPT ![Head(p)] = RefTo(n)]]
        BY <1>2 DEF AddLeaf
    <2> HIDE DEF n
    <2> QED BY <2>1, <2>2, <2>3, AddNodeTight
<1> QED BY <1>1, <1>2

\* CreateBranchExtension: what is left of an extension still leads to its branch.
LEMMA AddExtensionTight ==
    ASSUME NoCollisions, Sound(nodes), NEW b, Growing(b), Tight(b),
           NEW p \in Seq(Nibble), p # <<>>,
           NEW next \in NodeRefs(nodes), Genuine(nodes, next),
           NodeAt(nodes, next).kind = "branch",
           NEW c, c = AddExtension(b, p, next)
    PROVE  Tight(c)
<1>1. /\ Head(p) \in Nibble /\ Tail(p) \in Seq(Nibble)
      /\ Sound(b.store) /\ Within(nodes, b.store) /\ Closed(nodes)
      /\ b.refs \in [Nibble -> Refs(b.store)]
    BY FirstAndRest DEF Growing, Sound
<1>2. next \in Refs(nodes) /\ next # EmptyRef
    BY RefCases DEF Refs
<1>3. /\ next \in Refs(b.store) /\ next \in NodeRefs(b.store)
      /\ NodeAt(b.store, next).kind = "branch" /\ Genuine(b.store, next)
    BY <1>1, <1>2, WithinRefs, RefCases, GenuineGrows
<1>4. CASE Len(p) = 1
    <2>1. c = [b EXCEPT !.refs[Head(p)] = next]
        BY <1>4 DEF AddExtension
    <2>2. c.store = b.store /\ c.refs = [b.refs EXCEPT ![Head(p)] = next]
        BY <2>1
    <2> QED BY <1>1, <1>3, <2>2 DEF Tight
<1>5. CASE Len(p) # 1
    <2> DEFINE n == Extension(Tail(p), next)
    <2>1. Tail(p) # <<>>
        <3>1. Len(Tail(p)) = Len(p) - 1
            BY HeadTailProperties
        <3>2. Len(p) \in Nat
            BY LenProperties
        <3>3. Len(Tail(p)) # 0
            BY <1>5, <3>1, <3>2
        <3> QED BY <1>1, <3>3, EmptySeq
    <2>2. n \in Nodes(b.store) /\ Inhabited(n)
        BY <1>1, <1>3 DEF Nodes, Extensions, Extension, Inhabited
    <2>3. Unmergeable(b.store, n)
        BY <1>3, <2>1 DEF Unmergeable, Extension, RefsOf
    <2>4. c = [store |-> Put(b.store, n), refs |-> [b.refs EXCEPT ![Head(p)] = RefTo(n)]]
        BY <1>5 DEF AddExtension
    <2> HIDE DEF n
    <2> QED BY <1>1, <2>2, <2>3, <2>4, AddNodeTight
<1> QED BY <1>4, <1>5

\* No call to remove has left a branch with a single child.
SetsOnly == "remove" \notin Ops

\* What is stored could not be merged, nor will it be when the handlers below
\* the running one return: what has become of a branch is one.
Shape ==
    /\ Compressed(nodes)
    /\ Genuine(nodes, root)
    /\ pc = "return" /\ call.op = "set" =>
          /\ Genuine(nodes, ret.ref)
          /\ Here # EmptyRef /\ NodeAt(nodes, Here).kind = "branch" =>
                NodeAt(nodes, ret.ref).kind = "branch"

\* A handler returns the reference to a node it stores.
LEMMA NodeShape ==
    ASSUME NoCollisions, Sound(nodes), Compressed(nodes),
           NEW n \in Nodes(nodes), Inhabited(n), Unmergeable(nodes, n),
           ReturnNode(nodes, "updated", <<>>, n)
    PROVE  /\ Compressed(nodes') /\ Genuine(nodes', ret'.ref)
           /\ NodeAt(nodes', ret'.ref) = n
           /\ Within(nodes, nodes') /\ root' = root /\ call' = call /\ pc' = "return"
<1> DEFINE t == Put(nodes, n)
<1>1. /\ nodes' = t /\ ret'.ref = RefTo(n)
      /\ root' = root /\ call' = call /\ pc' = "return"
    BY DEF ReturnNode, Return, Result
<1> HIDE DEF t
<1>2. /\ Compressed(t) /\ Genuine(t, RefTo(n))
      /\ NodeAt(t, RefTo(n)) = n /\ Within(nodes, t)
    BY PutCompressed, PutSound DEF t
<1> QED BY <1>1, <1>2

\* A handler returns a new branch, with or without an extension before it.
LEMMA BranchShape ==
    ASSUME NoCollisions, NEW b, Growing(b), Tight(b), NEW w \in StoredValues,
           Forks(Branch(b.refs, w)), NEW common \in Seq(Nibble), ReturnBranch(b, w, common)
    PROVE  /\ Compressed(nodes') /\ Genuine(nodes', ret'.ref)
           /\ Within(nodes, nodes') /\ root' = root /\ call' = call /\ pc' = "return"
           /\ stack' = stack
<1> DEFINE n == Branch(b.refs, w)
           store == Put(b.store, n)
<1>1. /\ Sound(b.store) /\ Within(nodes, b.store) /\ b.refs \in [Nibble -> Refs(b.store)]
      /\ Compressed(b.store) /\ \A i \in Nibble : Genuine(b.store, b.refs[i])
    BY DEF Growing, Tight
<1>2. n \in Nodes(b.store) /\ n.kind = "branch" /\ n.branches = b.refs /\ n.value = w
    BY <1>1 DEF Nodes, Branches, Branch
<1>3. Forks(n)
    OBVIOUS
<1> HIDE DEF n
<1>4. Inhabited(n)
    BY <1>3 DEF Forks, Inhabited
<1>5. Unmergeable(b.store, n)
    BY <1>1, <1>2, <1>3 DEF Unmergeable, RefsOf
<1>6. /\ Sound(store) /\ Within(b.store, store) /\ RefTo(n) \in NodeRefs(store)
      /\ Compressed(store) /\ Genuine(store, RefTo(n)) /\ NodeAt(store, RefTo(n)) = n
    BY <1>1, <1>2, <1>4, <1>5, PutSound, PutCompressed
<1>7. Within(nodes, store)
    BY <1>1, <1>6, WithinTransitive
<1>8. CASE common = <<>>
    <2>1. Return(store, Result("updated", <<>>, n)) /\ UNCHANGED stack
        BY <1>8 DEF ReturnBranch, n
    <2>2. /\ nodes' = store /\ root' = root /\ call' = call /\ pc' = "return"
          /\ ret'.ref = RefTo(n) /\ stack' = stack
        BY <2>1 DEF Return, Result
    <2> HIDE DEF store
    <2> QED BY <1>6, <1>7, <2>2
<1>9. CASE common # <<>>
    <2> DEFINE ext == Extension(common, RefTo(n))
               final == Put(store, ext)
    <2>1. Return(final, Result("updated", <<>>, ext)) /\ UNCHANGED stack
        BY <1>9 DEF ReturnBranch, ReturnNode, n
    <2>2. /\ nodes' = final /\ root' = root /\ call' = call /\ pc' = "return"
          /\ ret'.ref = RefTo(ext) /\ stack' = stack
        BY <2>1 DEF Return, Result
    <2> HIDE DEF store
    <2>3. /\ ext \in Nodes(store) /\ Inhabited(ext) /\ ext.kind = "extension"
          /\ ext.path = common /\ ext.next = RefTo(n)
        BY <1>6 DEF Nodes, Extensions, Extension, Inhabited
    <2> HIDE DEF ext
    <2>4. Unmergeable(store, ext)
        BY <1>2, <1>6, <1>9, <2>3 DEF Unmergeable, RefsOf
    <2>5. /\ Compressed(final) /\ Genuine(final, RefTo(ext)) /\ Within(store, final)
        BY <1>6, <2>3, <2>4, PutCompressed, PutSound
    <2>6. Within(nodes, final)
        BY <1>7, <2>5, WithinTransitive
    <2> HIDE DEF final
    <2> QED BY <2>2, <2>5, <2>6
<1> QED BY <1>8, <1>9

\* Nothing can be merged in a branch without children.
LEMMA NewBranchTight ==
    ASSUME Compressed(nodes)
    PROVE  Tight(NewBranch)
<1>1. NewBranch.store = nodes /\ NewBranch.refs = [i \in Nibble |-> EmptyRef]
    BY DEF NewBranch, NoBranches
<1> QED BY <1>1 DEF Tight, Genuine

\* The handler of a node that is not a branch returns.
LEMMA AnswerShape ==
    ASSUME IInv, CallInv, pc = "node", call.op = "set",
           ref # EmptyRef => Fetch(ref).kind # "branch",
           Compressed(nodes'), Genuine(nodes', ret'.ref), Within(nodes, nodes'),
           root' = root, stack' = stack, Genuine(nodes, root)
    PROVE  Shape'
<1>1. Here = ref
    BY DEF CallInv, Visits
<1>2. Here' = Here
    BY DEF Here
<1>3. Closed(nodes) /\ ref \in Refs(nodes) /\ root \in Refs(nodes)
    BY DEF CallInv, Sound, IInv, TypeOK
<1>4. ref # EmptyRef => NodeAt(nodes', ref) = NodeAt(nodes, ref)
    BY <1>3, WithinRefs
<1>5. Genuine(nodes', root)
    BY <1>3, GenuineGrows
<1> QED BY <1>1, <1>2, <1>4, <1>5 DEF Shape, Fetch

\* The leaf with the new value.
LEMMA SetEmptyShape ==
    ASSUME NoCollisions, IInv, CallInv, Shape, SetEmpty
    PROVE  Shape'
<1>1. /\ pc = "node" /\ call.op = "set" /\ ref = EmptyRef /\ stack' = stack
      /\ ReturnNode(nodes, "updated", <<>>, Leaf(path, call.value))
      /\ path \in Seq(Nibble) /\ call.value \in Values /\ Sound(nodes)
    BY DEF SetEmpty, IInv, TypeOK, CallInv
<1> DEFINE n == Leaf(path, call.value)
<1>2. n \in Nodes(nodes) /\ Inhabited(n) /\ Unmergeable(nodes, n)
    BY <1>1 DEF Leaf, Leaves, Nodes, Inhabited, Unmergeable, RefsOf
<1>3. ReturnNode(nodes, "updated", <<>>, n)
    BY <1>1
<1> HIDE DEF n
<1>4. /\ Compressed(nodes') /\ Genuine(nodes', ret'.ref)
      /\ Within(nodes, nodes') /\ root' = root
    BY <1>1, <1>2, <1>3, NodeShape DEF Shape
<1> QED BY <1>1, <1>4, AnswerShape DEF Shape

\* A node that is stored, not its own reference, could not be merged.
LEMMA StoredUnmergeable ==
    ASSUME Sound(nodes), Compressed(nodes),
           NEW r \in Refs(nodes), r # EmptyRef, NodeAt(nodes, r).kind # "leaf"
    PROVE  Unmergeable(nodes, NodeAt(nodes, r))
BY NodeAtType DEF Sound, Compressed

\* The branch in which a leaf and a new one part.
LEMMA LeafSplitShape ==
    ASSUME NoCollisions, NoEmptyValue, CallInv, Compressed(nodes),
           NEW mine \in Seq(Nibble), NEW theirs \in Seq(Nibble),
           mine # <<>> /\ theirs # <<>> => Head(mine) # Head(theirs),
           mine # <<>> \/ theirs # <<>>,
           NEW v \in Values, NEW u \in Values,
           NEW b, b = AddLeaf(AddLeaf(NewBranch, mine, v), theirs, u),
           NEW w, w = EndingValue(mine, v, theirs, u)
    PROVE  Growing(b) /\ Tight(b) /\ w \in StoredValues /\ Forks(Branch(b.refs, w))
<1>1. Growing(NewBranch) /\ Tight(NewBranch)
    BY NewBranchGrowing, NewBranchTight
<1>2. PICK b1 : b1 = AddLeaf(NewBranch, mine, v)
    OBVIOUS
<1>3. LeafAdded(NewBranch, mine, v, b1) /\ Tight(b1)
    BY <1>1, <1>2, AddLeafGrows, AddLeafTight
<1>4. LeafAdded(b1, theirs, u, b) /\ Tight(b)
    <2>1. Growing(b1)
        BY <1>3 DEF LeafAdded
    <2> QED BY <1>2, <1>3, <2>1, AddLeafGrows, AddLeafTight
<1>5. w = IF mine = <<>> THEN v ELSE IF theirs = <<>> THEN u ELSE NoValue
    BY DEF EndingValue
<1>6. theirs # <<>> => Head(theirs) \in Nibble /\ b.refs[Head(theirs)] # EmptyRef
    BY <1>4, FirstAndRest DEF LeafAdded
<1>7. mine # <<>> => Head(mine) \in Nibble /\ b.refs[Head(mine)] # EmptyRef
    <2>1. mine # <<>> => Head(mine) \in Nibble /\ b1.refs[Head(mine)] # EmptyRef
        BY <1>3, FirstAndRest DEF LeafAdded
    <2> QED BY <1>4, <2>1 DEF LeafAdded
<1>8. Forks(Branch(b.refs, w))
    BY <1>5, <1>6, <1>7 DEF Forks, Children, Branch, NoEmptyValue
<1> QED BY <1>4, <1>5, <1>8 DEF LeafAdded, StoredValues

\* The leaf with the new value, or the branch in which the two leaves part.
LEMMA SetLeafShape ==
    ASSUME NoCollisions, NoEmptyValue, IInv, CallInv, Shape, SetLeaf
    PROVE  Shape'
<1> DEFINE leaf == Fetch(ref)
           common == CommonPrefix(path, leaf.path)
           mine == Consume(path, Len(common))
           theirs == Consume(leaf.path, Len(common))
<1>1. /\ leaf.kind = "leaf" /\ leaf \in Nodes(nodes) /\ path \in Seq(Nibble)
      /\ pc = "node" /\ call.op = "set" /\ Sound(nodes)
      /\ Compressed(nodes) /\ Genuine(nodes, root)
    BY VisitedEntries DEF SetLeaf, Shape
<1>2. leaf.value \in Values /\ leaf.path \in Seq(Nibble) /\ call.value \in Values
    BY <1>1, NodeKinds DEF Leaves, IInv, TypeOK
<1>3. /\ common \in Seq(Nibble) /\ mine \in Seq(Nibble) /\ theirs \in Seq(Nibble)
      /\ path = common \o mine /\ leaf.path = common \o theirs
      /\ mine # <<>> /\ theirs # <<>> => Head(mine) # Head(theirs)
    <2> HIDE DEF leaf
    <2> QED BY <1>1, <1>2, PathsPart
<1>4. CASE /\ leaf.path = path
           /\ ReturnNode(nodes, "updated", <<>>, Leaf(path, call.value))
           /\ UNCHANGED stack
    <2> DEFINE n == Leaf(path, call.value)
    <2>1. n \in Nodes(nodes) /\ Inhabited(n) /\ Unmergeable(nodes, n)
        BY <1>1, <1>2 DEF Leaf, Leaves, Nodes, Inhabited, Unmergeable, RefsOf
    <2>2. ReturnNode(nodes, "updated", <<>>, n)
        BY <1>4
    <2> HIDE DEF n
    <2>3. /\ Compressed(nodes') /\ Genuine(nodes', ret'.ref)
          /\ Within(nodes, nodes') /\ root' = root
        BY <1>1, <2>1, <2>2, NodeShape
    <2> QED BY <1>1, <1>4, <2>3, AnswerShape
<1>5. CASE /\ leaf.path # path
           /\ ReturnBranch(AddLeaf(AddLeaf(NewBranch, mine, call.value),
                                   theirs, leaf.value),
                           EndingValue(mine, call.value, theirs, leaf.value),
                           common)
    <2> HIDE DEF common, mine, theirs
    <2>1. mine # <<>> \/ theirs # <<>>
        <3> HIDE DEF leaf
        <3> QED BY <1>3, <1>5
    <2>2. PICK v \in Values : v = call.value
        BY <1>2
    <2>3. PICK u \in Values : u = leaf.value
        BY <1>2
    <2>4. PICK b : b = AddLeaf(AddLeaf(NewBranch, mine, v), theirs, u)
        OBVIOUS
    <2>5. PICK w : w = EndingValue(mine, v, theirs, u)
        OBVIOUS
    <2>6. Growing(b) /\ Tight(b) /\ w \in StoredValues /\ Forks(Branch(b.refs, w))
        <3> HIDE DEF leaf
        <3> QED BY <1>1, <1>3, <2>1, <2>4, <2>5, LeafSplitShape
    <2>7. ReturnBranch(b, w, common)
        <3> HIDE DEF leaf
        <3> QED BY <1>5, <2>2, <2>3, <2>4, <2>5
    <2>8. /\ Compressed(nodes') /\ Genuine(nodes', ret'.ref)
          /\ Within(nodes, nodes') /\ root' = root /\ stack' = stack
        BY <1>3, <2>6, <2>7, BranchShape
    <2> QED BY <1>1, <2>8, AnswerShape
<1> QED BY <1>4, <1>5 DEF SetLeaf

\* While a handler only calls the next one, or nothing is returned, nothing is
\* stored.
LEMMA QuietShape ==
    ASSUME Shape, nodes' = nodes, root' = root, pc' # "return"
    PROVE  Shape'
BY DEF Shape

\* The branch in which an extension and a new leaf part.
LEMMA ExtensionSplitShape ==
    ASSUME NoCollisions, NoEmptyValue, CallInv, Compressed(nodes),
           NEW mine \in Seq(Nibble), NEW theirs \in Seq(Nibble), theirs # <<>>,
           mine # <<>> => Head(mine) # Head(theirs),
           NEW v \in Values, NEW next \in NodeRefs(nodes), Genuine(nodes, next),
           NodeAt(nodes, next).kind = "branch",
           NEW b, b = AddExtension(AddLeaf(NewBranch, mine, v), theirs, next),
           NEW w, w = IF mine = <<>> THEN v ELSE NoValue
    PROVE  Growing(b) /\ Tight(b) /\ w \in StoredValues /\ Forks(Branch(b.refs, w))
<1>1. Growing(NewBranch) /\ Tight(NewBranch) /\ Sound(nodes)
    BY NewBranchGrowing, NewBranchTight DEF CallInv
<1>2. PICK b1 : b1 = AddLeaf(NewBranch, mine, v)
    OBVIOUS
<1>3. LeafAdded(NewBranch, mine, v, b1) /\ Tight(b1)
    BY <1>1, <1>2, AddLeafGrows, AddLeafTight
<1>4. Growing(b1) /\ b = AddExtension(b1, theirs, next)
    BY <1>2, <1>3 DEF LeafAdded
<1>5. Tight(b)
    BY <1>1, <1>3, <1>4, AddExtensionTight
<1>6. /\ Growing(b) /\ b.refs[Head(theirs)] # EmptyRef
      /\ \A j \in Nibble : j # Head(theirs) => b.refs[j] = b1.refs[j]
    BY <1>1, <1>4, AddExtensionGrows
<1>7. Head(theirs) \in Nibble
    BY FirstAndRest
<1>8. mine # <<>> => Head(mine) \in Nibble /\ b.refs[Head(mine)] # EmptyRef
    <2>1. mine # <<>> => Head(mine) \in Nibble /\ b1.refs[Head(mine)] # EmptyRef
        BY <1>3, FirstAndRest DEF LeafAdded
    <2> QED BY <1>6, <2>1
<1>9. Forks(Branch(b.refs, w))
    BY <1>6, <1>7, <1>8 DEF Forks, Children, Branch, NoEmptyValue
<1> QED BY <1>5, <1>6, <1>9 DEF StoredValues

\* An extension the key does not follow is split.
LEMMA SetExtensionShape ==
    ASSUME NoCollisions, NoEmptyValue, IInv, CallInv, Shape, SetExtension
    PROVE  Shape'
<1> DEFINE ext == Fetch(ref)
           common == CommonPrefix(path, ext.path)
           mine == Consume(path, Len(common))
           theirs == Consume(ext.path, Len(common))
<1>1. /\ ext.kind = "extension" /\ ext \in Nodes(nodes) /\ path \in Seq(Nibble)
      /\ pc = "node" /\ call.op = "set" /\ ref # EmptyRef /\ ref \in Refs(nodes)
      /\ Sound(nodes) /\ Compressed(nodes) /\ Genuine(nodes, root)
    BY VisitedEntries DEF SetExtension, Shape
<1>2. /\ ext.path \in Seq(Nibble) /\ ext.next \in NodeRefs(nodes) /\ call.value \in Values
    BY <1>1, NodeKinds DEF Extensions, IInv, TypeOK
<1>3. Genuine(nodes, ext.next) /\ NodeAt(nodes, ext.next).kind = "branch"
    BY <1>1, StoredUnmergeable DEF Unmergeable, RefsOf, Fetch
<1>4. CASE Recurse([node |-> ext], ext.next, Consume(path, Len(ext.path)))
    BY <1>4, QuietShape DEF Recurse, Visit
<1>5. CASE /\ ~StartsWith(path, ext.path)
           /\ ReturnBranch(AddExtension(AddLeaf(NewBranch, mine, call.value),
                                        theirs, ext.next),
                           IF mine = <<>> THEN call.value ELSE NoValue,
                           common)
    <2>1. /\ common \in Seq(Nibble) /\ mine \in Seq(Nibble) /\ theirs \in Seq(Nibble)
          /\ mine # <<>> /\ theirs # <<>> => Head(mine) # Head(theirs)
        <3> HIDE DEF ext
        <3> QED BY <1>1, <1>2, PathsPart
    <2>2. theirs # <<>>
        <3> HIDE DEF ext
        <3> QED BY <1>1, <1>2, <1>5, RestNotEmpty
    <2> HIDE DEF ext, common, mine, theirs
    <2>3. PICK v \in Values : v = call.value
        BY <1>2
    <2>4. PICK b : b = AddExtension(AddLeaf(NewBranch, mine, v), theirs, ext.next)
        OBVIOUS
    <2>5. PICK w : w = IF mine = <<>> THEN v ELSE NoValue
        OBVIOUS
    <2>6. Growing(b) /\ Tight(b) /\ w \in StoredValues /\ Forks(Branch(b.refs, w))
        BY <1>1, <1>2, <1>3, <2>1, <2>2, <2>4, <2>5, ExtensionSplitShape
    <2>7. ReturnBranch(b, w, common)
        BY <1>5, <2>3, <2>4, <2>5
    <2>8. /\ Compressed(nodes') /\ Genuine(nodes', ret'.ref)
          /\ Within(nodes, nodes') /\ root' = root /\ stack' = stack
        BY <1>1, <2>1, <2>6, <2>7, BranchShape
    <2>9. Fetch(ref).kind # "branch"
        BY <1>1 DEF ext
    <2> QED BY <1>1, <2>8, <2>9, AnswerShape
<1> QED BY <1>4, <1>5 DEF SetExtension

\* At the end of the key a branch that forks gets the value.
LEMMA SetBranchNodeShape ==
    ASSUME NoCollisions, NoEmptyValue, IInv, CallInv, Shape, SetBranchNode
    PROVE  Shape'
<1> DEFINE b == Fetch(ref)
<1>1. /\ b.kind = "branch" /\ b \in Nodes(nodes)
      /\ pc = "node" /\ call.op = "set" /\ ref # EmptyRef /\ ref \in Refs(nodes)
      /\ Sound(nodes) /\ Closed(nodes) /\ Compressed(nodes) /\ Genuine(nodes, root)
    BY VisitedEntries DEF SetBranchNode, Shape
<1>2. b \in Branches(nodes) /\ call.value \in Values /\ root \in Refs(nodes)
    BY <1>1, NodeKinds DEF IInv, TypeOK
<1>3. CASE /\ ReturnNode(nodes, "updated", <<>>, [b EXCEPT !.value = call.value])
           /\ UNCHANGED stack
    <2> DEFINE n == [b EXCEPT !.value = call.value]
    <2>1. /\ n \in Branches(nodes) /\ n.kind = "branch"
          /\ n.branches = b.branches /\ n.value = call.value
        <3> HIDE DEF b
        <3> QED BY <1>2 DEF Branches, StoredValues
    <2>2. ReturnNode(nodes, "updated", <<>>, n)
        BY <1>3
    <2>3. Unmergeable(nodes, b)
        BY <1>1, StoredUnmergeable DEF Fetch
    <2> HIDE DEF n, b
    <2>4. n \in Nodes(nodes) /\ Inhabited(n)
        BY <1>2, <2>1 DEF Nodes, Inhabited, NoEmptyValue
    <2>5. Unmergeable(nodes, n)
        <3>1. Children(n) = Children(b) /\ RefsOf(n) = RefsOf(b)
            BY <1>1, <2>1 DEF Children, RefsOf
        <3>2. Forks(n)
            BY <1>1, <1>2, <2>1, <2>3, <3>1 DEF Unmergeable, Forks, NoEmptyValue
        <3> QED BY <1>1, <2>1, <2>3, <3>1, <3>2 DEF Unmergeable
    <2>6. /\ Compressed(nodes') /\ Genuine(nodes', ret'.ref)
          /\ NodeAt(nodes', ret'.ref) = n
          /\ Within(nodes, nodes') /\ root' = root
        BY <1>1, <2>2, <2>4, <2>5, NodeShape
    <2>7. Genuine(nodes', root')
        BY <1>1, <1>2, <2>6, GenuineGrows
    <2> QED BY <2>1, <2>6, <2>7 DEF Shape
<1>4. CASE Recurse([node |-> b, idx |-> Head(path)], b.branches[Head(path)], Tail(path))
    BY <1>4, QuietShape DEF Recurse, Visit
<1> QED BY <1>3, <1>4 DEF SetBranchNode

\* Where the handler that gets a result is: at the node above.
LEMMA Resumed ==
    ASSUME IInv, CallInv, pc = "return", stack # <<>>, stack' = Front(stack), root' = root
    PROVE  /\ Here = ChildRef(Last(stack))
           /\ Here' \in Refs(nodes) /\ Here' # EmptyRef
           /\ NodeAt(nodes, Here') = Last(stack).node
<1> DEFINE f == Last(stack)
           slot == Slot(root, stack', Len(stack') + 1)
<1>1. PICK rest : Trail(nodes, root, stack, call.key, rest)
    BY DEF CallInv, Returns
<1>2. stack \in Seq(Frames(nodes)) /\ Sound(nodes) /\ root \in Refs(nodes)
    BY DEF IInv, TypeOK, CallInv
<1>3. Here' = slot
    BY DEF Here
<1> HIDE DEF f, slot
<1>4. f = Last(stack) /\ slot = Slot(root, stack', Len(stack') + 1)
    BY DEF f, slot
<1>5. stack' \in Seq(Frames(nodes)) /\ Len(stack) \in Nat \ {0}
    BY <1>2, FrontProperties
<1>6. slot # EmptyRef /\ NodeAt(nodes, slot) = f.node
    BY <1>1, <1>2, <1>4, TrailShrinks
<1>7. Here = ChildRef(f)
    <2>1. Len(stack) + 1 # 1 /\ Len(stack) + 1 - 1 = Len(stack)
        BY <1>5
    <2> QED BY <1>4, <2>1 DEF Here, Slot, Last
<1>8. slot \in Refs(nodes)
    <2>1. Trail(nodes, root, Front(stack), call.key, Lowest(rest, Len(stack)))
        BY <1>1, <1>2, TrailShrinks
    <2> QED BY <1>2, <1>4, <1>5, <2>1, SlotType, LenProperties
<1> QED BY <1>3, <1>4, <1>6, <1>7, <1>8

\* The node above gets the new reference.
LEMMA AboveShape ==
    ASSUME NoCollisions, IInv, CallInv, Shape, pc = "return",
           stack # <<>>, stack' = Front(stack),
           NEW n \in Nodes(nodes), Inhabited(n), Unmergeable(nodes, n),
           Last(stack).node.kind = "branch" => n.kind = "branch",
           ReturnNode(nodes, "updated", <<>>, n)
    PROVE  Shape'
<1>1. /\ Sound(nodes) /\ Closed(nodes) /\ Compressed(nodes) /\ Genuine(nodes, root)
      /\ root \in Refs(nodes)
    BY DEF CallInv, Sound, Shape, IInv, TypeOK
<1>2. /\ Compressed(nodes') /\ Genuine(nodes', ret'.ref) /\ NodeAt(nodes', ret'.ref) = n
      /\ Within(nodes, nodes') /\ root' = root
    BY <1>1, NodeShape
<1>3. /\ Here' \in Refs(nodes) /\ Here' # EmptyRef
      /\ NodeAt(nodes, Here') = Last(stack).node
    BY <1>2, Resumed
<1>4. NodeAt(nodes', Here') = Last(stack).node
    <2>1. PICK r \in Refs(nodes) : r = Here'
        BY <1>3
    <2> QED BY <1>1, <1>2, <1>3, <2>1, WithinRefs
<1>5. Genuine(nodes', root')
    BY <1>1, <1>2, GenuineGrows
<1> QED BY <1>2, <1>4, <1>5 DEF Shape

\* The node a handler waits with, its child being at the place the result is for.
LEMMA AwaitedUnmergeable ==
    ASSUME IInv, CallInv, Shape, pc = "return", stack # <<>>, stack' = Front(stack),
           root' = root, Last(stack).node.kind # "leaf"
    PROVE  Unmergeable(nodes, Last(stack).node) /\ Here = ChildRef(Last(stack))
<1>1. /\ Here = ChildRef(Last(stack))
      /\ Here' \in Refs(nodes) /\ Here' # EmptyRef
      /\ NodeAt(nodes, Here') = Last(stack).node
    BY Resumed
<1>2. PICK r \in Refs(nodes) : r = Here'
    BY <1>1
<1>3. Sound(nodes) /\ Compressed(nodes)
    BY DEF CallInv, Shape
<1>4. Unmergeable(nodes, NodeAt(nodes, r))
    BY <1>1, <1>2, <1>3, StoredUnmergeable
<1> QED BY <1>1, <1>2, <1>4

\* Below an extension there was a branch, and there is one.
LEMMA SetExtensionReturnShape ==
    ASSUME NoCollisions, IInv, CallInv, Shape, SetExtensionReturn
    PROVE  Shape'
<1> DEFINE f == Last(stack)
           n == Extension(f.node.path, ret.ref)
<1>1. /\ pc = "return" /\ call.op = "set" /\ stack # <<>> /\ stack' = Front(stack)
      /\ f \in Frames(nodes) /\ f.node.kind = "extension" /\ f.node \in Nodes(nodes)
      /\ ret.ref \in NodeRefs(nodes)
    BY ResumedType DEF SetExtensionReturn
<1>2. ReturnNode(nodes, "updated", <<>>, n) /\ root' = root
    BY DEF SetExtensionReturn, ReturnNode, Return
<1>3. f.node.path \in Seq(Nibble) /\ f.node.next \in NodeRefs(nodes)
    BY <1>1, NodeKinds DEF Extensions
<1>4. Unmergeable(nodes, f.node) /\ Here = f.node.next
    BY <1>1, <1>2, AwaitedUnmergeable DEF ChildRef
<1> HIDE DEF f
<1>5. f.node.path # <<>> /\ NodeAt(nodes, Here).kind = "branch" /\ Here # EmptyRef
    <2>1. f.node.next \in Refs(nodes)
        BY <1>3 DEF Refs
    <2> QED BY <1>1, <1>3, <1>4, <2>1, RefCases DEF Unmergeable
<1>6. Genuine(nodes, ret.ref) /\ NodeAt(nodes, ret.ref).kind = "branch"
    BY <1>1, <1>5 DEF Shape
<1>7. /\ n \in Nodes(nodes) /\ Inhabited(n) /\ n.kind = "extension"
    BY <1>1, <1>3 DEF Extension, Extensions, Nodes, Inhabited
<1>8. Unmergeable(nodes, n)
    BY <1>5, <1>6 DEF Unmergeable, Extension, RefsOf
<1>9. Last(stack).node.kind # "branch"
    BY <1>1 DEF f
<1> HIDE DEF n
<1> QED BY <1>1, <1>2, <1>7, <1>8, <1>9, AboveShape

\* A branch that forks still does when a child is changed or added.
LEMMA SetBranchReturnShape ==
    ASSUME NoCollisions, IInv, CallInv, Shape, SetBranchReturn
    PROVE  Shape'
<1> DEFINE f == Last(stack)
           n == SetBranch(f.node, f.idx, ret.ref)
<1>1. /\ pc = "return" /\ call.op = "set" /\ stack # <<>> /\ stack' = Front(stack)
      /\ f \in Frames(nodes) /\ f.node.kind = "branch" /\ f.node \in Nodes(nodes)
      /\ ret.ref \in NodeRefs(nodes) /\ ret.ref \in Refs(nodes) /\ ret.ref # EmptyRef
    BY ResumedType, RefCases DEF SetBranchReturn
<1>2. ReturnNode(nodes, "updated", <<>>, n) /\ root' = root
    BY DEF SetBranchReturn, ReturnNode, Return
<1>3. f.node \in Branches(nodes) /\ f.idx \in Nibble
    BY <1>1, FrameKinds
<1>4. Unmergeable(nodes, f.node)
    BY <1>1, <1>2, AwaitedUnmergeable
<1>5. Genuine(nodes, ret.ref)
    BY <1>1 DEF Shape
<1> HIDE DEF f
<1>6. PICK b \in Branches(nodes) : b = f.node
    BY <1>3
<1>7. PICK i \in Nibble : i = f.idx
    BY <1>3
<1>8. PICK r \in Refs(nodes) : r = ret.ref
    BY <1>1
<1>9. /\ n.kind = "branch" /\ n.value = b.value /\ n \in Nodes(nodes)
      /\ \A j \in Nibble : n.branches[j] = IF j = i THEN r ELSE b.branches[j]
    <2>1. NoValue \in StoredValues
        BY DEF StoredValues
    <2>2. /\ SetBranch(b, i, r).kind = "branch" /\ SetBranch(b, i, r).value = b.value
          /\ \A j \in Nibble :
                SetBranch(b, i, r).branches[j] = IF j = i THEN r ELSE b.branches[j]
        BY ChildReplaced
    <2>3. SetBranch(b, i, r) \in Nodes(nodes)
        BY <2>1, BranchUpdateType
    <2> QED BY <1>6, <1>7, <1>8, <2>2, <2>3
<1> HIDE DEF n
<1>10. Children(b) \subseteq Children(n) /\ i \in Children(n)
    BY <1>1, <1>8, <1>9 DEF Children
<1>11. Inhabited(n)
    BY <1>9, <1>10 DEF Inhabited
<1>12. Unmergeable(nodes, n)
    <2>1. b.kind = "branch"
        BY DEF Branches
    <2>2. Forks(n)
        BY <1>4, <1>6, <1>9, <1>10, <2>1 DEF Unmergeable, Forks
    <2>3. ASSUME NEW c \in RefsOf(n) PROVE Genuine(nodes, c)
        <3>1. PICK j \in Nibble : c = n.branches[j]
            BY <1>9 DEF RefsOf
        <3>2. b.branches[j] \in RefsOf(b)
            BY <2>1 DEF RefsOf
        <3>3. Genuine(nodes, b.branches[j])
            BY <1>4, <1>6, <3>2 DEF Unmergeable
        <3> QED BY <1>5, <1>8, <1>9, <3>1, <3>3
    <2> QED BY <1>9, <2>2, <2>3 DEF Unmergeable
<1> QED BY <1>1, <1>2, <1>9, <1>11, <1>12, AboveShape

--------------------------------------------------------------------------------
(* Theorems about the shape.                                                   *)

\* The handlers of set, and its end.
LEMMA SettingKeepsShape ==
    ASSUME NoCollisions, NoEmptyValue, IInv, CallInv, Shape, Setting
    PROVE  Shape'
<1>1. CASE SetDone
    <2>1. /\ pc = "return" /\ call.op = "set" /\ root' = ret.ref /\ nodes' = nodes
          /\ pc' = "done"
        BY <1>1 DEF SetDone, Finish
    <2> QED BY <2>1 DEF Shape
<1> QED BY <1>1, SetEmptyShape, SetLeafShape, SetExtensionShape, SetBranchNodeShape,
           SetExtensionReturnShape, SetBranchReturnShape DEF Setting

\* The shape is kept, as long as nothing is removed.
LEMMA NextShape ==
    ASSUME NoCollisions, NoEmptyValue, SetsOnly
    PROVE  IInv /\ CallInv /\ Shape /\ [Next]_vars => Shape'
<1> SUFFICES ASSUME IInv, CallInv, Shape, [Next]_vars PROVE Shape'
    OBVIOUS
<1>1. call.op # "remove"
    BY DEF SetsOnly, IInv, TypeOK
<1>2. CASE CallGet \/ CallSet \/ CallRemove
    <2>1. nodes' = nodes /\ root' = root /\ pc' = "node"
        BY <1>2 DEF CallGet, CallSet, CallRemove, Call
    <2> QED BY <2>1, QuietShape
<1>3. CASE Getting
    <2>1. nodes' = nodes /\ root' = root /\ pc' # "return"
        BY <1>3 DEF Getting, GetEmpty, GetLeaf, GetExtension, GetBranch,
                    Give, Missing, Abandon, Finish, Visit
    <2> QED BY <2>1, QuietShape
<1>4. CASE Setting
    BY <1>4, SettingKeepsShape
<1>5. CASE Removing
    BY <1>1, <1>5 DEF Removing, RemoveEmpty, DeleteLeaf, DeleteExtension, DeleteBranch,
       DeleteBranchValue, DeleteExtensionReturn, DeleteBranchReturn, RemoveDone,
       RemoveFallThrough, Visiting, Resuming
<1>6. CASE Reply
    BY <1>6, QuietShape DEF Reply
<1>7. CASE UNCHANGED vars
    BY <1>7 DEF vars, Shape, Here
<1> QED BY <1>2, <1>3, <1>4, <1>5, <1>6, <1>7 DEF Next, Step, Stopped

\* Whatever order the entries are set in, and however often a value is changed,
\* the splits end in the one compressed trie of the entries: clients that store
\* the same entries get the same root hash.
THEOREM RootsAreCanonical ==
    ASSUME NoCollisions, NoEmptyValue, SetsOnly
    PROVE  Spec => []HistoryIndependent
<1>1. Init => Shape
    <2> SUFFICES ASSUME Init PROVE Shape
        OBVIOUS
    <2>1. DOMAIN nodes = {} /\ root = EmptyRef /\ pc = "idle"
        BY DEF Init
    <2> QED BY <2>1 DEF Shape, Compressed, Genuine
<1>2. IInv /\ CallInv /\ Shape /\ [Next]_vars => Shape'
    BY NextShape
<1>3. IInv /\ CallInv /\ Shape => HistoryIndependent
    <2> SUFFICES ASSUME IInv, CallInv, Shape PROVE root = TrieOf(Contents)
        BY DEF HistoryIndependent
    <2>1. /\ Sound(nodes) /\ Compressed(nodes) /\ Genuine(nodes, root)
          /\ root \in Refs(nodes)
        BY DEF CallInv, Shape, IInv, TypeOK
    <2> QED BY <2>1, CompressedIsTrie DEF Contents
<1> QED BY <1>1, <1>2, <1>3, Invariants, PTL DEF Spec

--------------------------------------------------------------------------------
(* get and set implement a map.                                                *)

\* No key has two values.
OneValue(E) == \A d, e \in E : d[1] = e[1] => d = e

\* What the map of entries gives for a key.
LEMMA MapOfHas ==
    ASSUME NEW E \in EntrySets, OneValue(E), NEW k \in Keys
    PROVE  /\ \A v : <<k, v>> \in E => MapOf(E)[k] = v
           /\ (\A e \in E : e[1] # k) => MapOf(E)[k] = Absent
<1>1. MapOf(E)[k] = IF \E e \in E : e[1] = k
                    THEN (CHOOSE e \in E : e[1] = k)[2] ELSE Absent
    BY DEF MapOf
<1>2. ASSUME NEW v, <<k, v>> \in E PROVE MapOf(E)[k] = v
    <2>1. PICK d \in E : d = <<k, v>>
        BY <1>2
    <2>2. d[1] = k /\ d[2] = v
        BY <2>1
    <2>3. (CHOOSE e \in E : e[1] = k) = d
        BY <2>2 DEF OneValue
    <2> QED BY <1>1, <2>2, <2>3
<1> QED BY <1>1, <1>2

\* An update of the entries is one of the map.
LEMMA MapOfUpdated ==
    ASSUME NEW E \in EntrySets, OneValue(E), NEW k \in Keys, NEW v \in Values
    PROVE  /\ OneValue(Updated(E, k, v))
           /\ MapOf(Updated(E, k, v)) = [MapOf(E) EXCEPT ![k] = v]
<1> DEFINE U == Updated(E, k, v)
<1>1. k \in Seq(Nibble)
    BY ConstantsAssumption
<1>2. U \in EntrySets /\ \A j, w : <<j, w>> \in U <=> IF j = k THEN w = v ELSE <<j, w>> \in E
    BY <1>1, UpdatedHas
<1>3. \A e \in U : e = <<e[1], e[2]>>
    BY <1>2 DEF EntrySets
<1>4. \A e \in E : e = <<e[1], e[2]>>
    BY DEF EntrySets
<1> HIDE DEF U
<1>5. OneValue(U)
    <2> SUFFICES ASSUME NEW d \in U, NEW e \in U, d[1] = e[1] PROVE d[2] = e[2]
        BY <1>3 DEF OneValue
    <2>1. <<d[1], d[2]>> \in U /\ <<e[1], e[2]>> \in U
        BY <1>3
    <2>2. CASE d[1] = k
        BY <1>2, <2>1, <2>2
    <2>3. CASE d[1] # k
        <3>1. PICK x \in E : x = <<d[1], d[2]>>
            BY <1>2, <2>1, <2>3
        <3>2. PICK y \in E : y = <<e[1], e[2]>>
            BY <1>2, <2>1, <2>3
        <3>3. x = y
            BY <3>1, <3>2 DEF OneValue
        <3> QED BY <3>1, <3>2, <3>3
    <2> QED BY <2>2, <2>3
<1>6. ASSUME NEW j \in Keys
      PROVE  MapOf(U)[j] = IF j = k THEN v ELSE MapOf(E)[j]
    <2>1. CASE j = k
        BY <1>2, <1>5, <2>1, MapOfHas
    <2>2. CASE j # k /\ \E e \in E : e[1] = j
        <3>1. PICK e \in E : e[1] = j
            BY <2>2
        <3>2. <<j, e[2]>> \in E
            BY <1>4, <3>1
        <3>3. MapOf(E)[j] = e[2]
            BY <3>2, MapOfHas
        <3>4. <<j, e[2]>> \in U
            BY <1>2, <2>2, <3>2
        <3>5. MapOf(U)[j] = e[2]
            BY <1>2, <1>5, <3>4, MapOfHas
        <3> QED BY <2>2, <3>3, <3>5
    <2>3. CASE j # k /\ \A e \in E : e[1] # j
        <3>1. \A e \in U : e[1] # j
            <4> SUFFICES ASSUME NEW e \in U, e[1] = j PROVE FALSE
                OBVIOUS
            <4>1. <<j, e[2]>> \in U
                BY <1>3
            <4>2. PICK d \in E : d = <<j, e[2]>>
                BY <1>2, <2>3, <4>1
            <4> QED BY <2>3, <4>2
        <3> QED BY <1>2, <1>5, <2>3, <3>1, MapOfHas
    <2> QED BY <2>1, <2>2, <2>3
<1>7. MapOf(U) = [MapOf(E) EXCEPT ![k] = v]
    BY <1>6 DEF MapOf
<1> QED BY <1>5, <1>7 DEF U

\* The entries change when set or remove returns, and at no other time.
LEMMA StepContents ==
    ASSUME NoCollisions, IInv, CallInv, CallInv', [Next]_vars
    PROVE  Contents' = Contents \/ SetDone \/ RemoveDone
<1>1. Sound(nodes) /\ Sound(nodes') /\ ContentAddressed(nodes)
    BY DEF CallInv, Sound
<1>2. Within(nodes, nodes')
    BY <1>1, StepGrows DEF Grown, Within
<1>3. CASE root' = root
    BY <1>1, <1>2, <1>3, ContentsStay
<1>4. CASE ~SetDone /\ ~RemoveDone
    <2>1. Getting => root' = root
        BY DEF Getting, GetEmpty, GetLeaf, GetExtension, GetBranch,
               Give, Missing, Abandon, Finish, Visit
    <2>2. Setting => root' = root
        BY <1>4 DEF Setting, SetEmpty, SetLeaf, SetExtension, SetBranchNode,
               SetExtensionReturn, SetBranchReturn, ReturnNode, ReturnBranch, Return,
               Recurse, Visit
    <2>3. Removing => root' = root
        BY <1>4 DEF Removing, RemoveEmpty, DeleteLeaf, DeleteExtension, DeleteBranch,
               DeleteBranchValue, DeleteExtensionReturn, DeleteBranchReturn,
               RemoveFallThrough, BranchDeletion, Undefined, Missing, Abandon, Finish,
               ReturnNode, Return, Recurse, Visit
    <2>4. CallGet \/ CallSet \/ CallRemove \/ Reply \/ UNCHANGED vars \/ Stopped => root' = root
        BY DEF CallGet, CallSet, CallRemove, Call, Reply, Stopped, vars
    <2> QED BY <1>3, <2>1, <2>2, <2>3, <2>4 DEF Next, Step
<1> QED BY <1>4

\* In no sequence of calls a key gets two values.
LEMMA KeysStayUnique ==
    ASSUME NoCollisions, NoEmptyValue
    PROVE  IInv /\ CallInv /\ CallInv' /\ OneValue(Contents) /\ [Next]_vars
              => OneValue(Contents')
<1> SUFFICES ASSUME IInv, CallInv, CallInv', OneValue(Contents), [Next]_vars
             PROVE  OneValue(Contents')
    OBVIOUS
<1>1. CASE Contents' = Contents
    BY <1>1
<1>2. CASE SetDone
    <2>1. pc = "return" /\ stack = <<>> /\ call.op = "set"
        BY <1>2 DEF SetDone
    <2>2. Contents \in EntrySets /\ call.key \in Keys /\ call.value \in Values
        BY <2>1, LastResult DEF IInv, TypeOK
    <2>3. Contents' = Updated(Contents, call.key, call.value)
        BY <1>2, SetDoneContents
    <2> QED BY <2>2, <2>3, MapOfUpdated
<1>3. CASE RemoveDone
    <2>1. Contents' \subseteq Contents
        BY <1>3, RemoveDoneContents
    <2> QED BY <2>1 DEF OneValue
<1> QED BY <1>1, <1>2, <1>3, StepContents

\* A handler of get goes on, or ends the call with a value or an exception.
LEMMA GettingEnds ==
    ASSUME Getting
    PROVE  /\ pc = "node" /\ call.op = "get"
           /\ nodes' = nodes /\ root' = root /\ call' = call
           /\ \/ pc' = "node" /\ outcome' = outcome
              \/ pc' = "done" /\ \E v : outcome' = Answer(v)
              \/ pc' = "done" /\ \E w : outcome' = Throw(w)
BY DEF Getting, GetEmpty, GetLeaf, GetExtension, GetBranch, Visiting,
       Give, Missing, Abandon, Finish, Visit

\* A handler of set calls another one or returns to the one below it; the call
\* does not end.
LEMMA SettingGoesOn ==
    ASSUME Setting, ~SetDone
    PROVE  /\ pc \in {"node", "return"} /\ pc' \in {"node", "return"}
           /\ call' = call /\ outcome' = outcome
BY DEF Setting, SetEmpty, SetLeaf, SetExtension, SetBranchNode,
       SetExtensionReturn, SetBranchReturn, Visiting, Resuming,
       ReturnNode, ReturnBranch, Return, Recurse, Visit

\* What get ends with is what the map has for the key.
LEMMA GetReadsMap ==
    ASSUME NoEmptyValue, CallInv', Getting, Contents' = Contents,
           Contents \in EntrySets, OneValue(Contents), call.key \in Keys, pc' = "done"
    PROVE  /\ outcome'.status \in {"value", "throw"}
           /\ MapOf(Contents)[call.key] =
                 IF outcome'.status = "value" /\ outcome'.value # NoValue
                 THEN outcome'.value ELSE Absent
<1>1. /\ call.op = "get" /\ call' = call
      /\ \/ \E v : outcome' = Answer(v)
         \/ \E w : outcome' = Throw(w)
    BY GettingEnds
<1>2. outcome'.status \in {"value", "throw"}
    BY <1>1 DEF Answer, Throw
<1>3. Present(call.key)' <=> \E e \in Contents : e[1] = call.key
    BY <1>1 DEF Present
<1>4. IF outcome'.status = "throw" THEN ~Present(call.key)'
      ELSE \/ <<call.key, outcome'.value>> \in Contents
           \/ outcome'.value = NoValue /\ ~Present(call.key)'
    BY <1>1 DEF CallInv, GetReadsContents
<1>5. \A e \in Contents : e = <<e[1], e[2]>> /\ e[2] \in Values
    BY DEF EntrySets
<1>6. ASSUME NEW v, <<call.key, v>> \in Contents
      PROVE  MapOf(Contents)[call.key] = v /\ v # NoValue
    <2>1. PICK E \in EntrySets : E = Contents
        OBVIOUS
    <2>2. PICK k \in Keys : k = call.key
        OBVIOUS
    <2>3. MapOf(E)[k] = v
        BY <1>6, <2>1, <2>2, MapOfHas
    <2>4. v \in Values
        BY <1>5, <1>6
    <2> QED BY <2>1, <2>2, <2>3, <2>4 DEF NoEmptyValue
<1>7. ASSUME ~Present(call.key)'
      PROVE  MapOf(Contents)[call.key] = Absent
    <2>1. PICK E \in EntrySets : E = Contents
        OBVIOUS
    <2>2. PICK k \in Keys : k = call.key
        OBVIOUS
    <2>3. \A e \in E : e[1] # k
        BY <1>3, <1>7, <2>1, <2>2
    <2>4. MapOf(E)[k] = Absent
        BY <2>1, <2>3, MapOfHas
    <2> QED BY <2>1, <2>2, <2>4
<1> QED BY <1>2, <1>4, <1>6, <1>7

\* A step of the trie is one of the map, or none.
LEMMA MapStep ==
    ASSUME NoCollisions, NoEmptyValue, SetsOnly,
           IInv, CallInv, CallInv', OneValue(Contents), [Next]_vars
    PROVE  [Map!Next]_(Map!vars)
<1> DEFINE m == MapOf(Contents)
           st == IF pc \in {"node", "return"} THEN "busy" ELSE pc
           c == CASE call.op = "get" -> <<"get", call.key>>
                  [] call.op = "set" -> <<"set", call.key, call.value>>
                  [] OTHER -> <<>>
           o == CASE outcome.status = "value" /\ outcome.value = NoValue -> Absent
                  [] outcome.status = "value" /\ outcome.value # NoValue -> outcome.value
                  [] outcome.status = "throw" -> Absent
                  [] OTHER -> outcome.status
<1> SUFFICES Map!Next \/ (m' = m /\ st' = st /\ c' = c /\ o' = o)
    BY DEF Map!vars
<1>1. Contents \in EntrySets /\ call.op # "remove" /\ Ops \subseteq {"get", "set", "remove"}
    BY EntriesType, ConstantsAssumption DEF CallInv, IInv, TypeOK, SetsOnly, Contents
<1>2. m' = MapOf(Contents')
    OBVIOUS
<1>3. Contents' = Contents \/ SetDone
    BY <1>1, StepContents DEF RemoveDone
<1>4. pc \in {"node", "return"} => call.key \in Keys
    BY DEF CallInv, KeysInUse
<1>5. CASE CallGet \/ CallSet \/ CallRemove
    <2>1. pc = "idle" /\ pc' = "node" /\ outcome' = outcome
        BY <1>5 DEF CallGet, CallSet, CallRemove, Call
    <2>2. m' = m
        BY <1>2, <1>3, <2>1 DEF SetDone
    <2>3. \/ \E k \in Keys : call' = [op |-> "get", key |-> k, value |-> NoValue]
          \/ \E k \in Keys, v \in Values : call' = [op |-> "set", key |-> k, value |-> v]
        BY <1>5 DEF CallGet, CallSet, CallRemove, Call, SetsOnly
    <2>4. \/ \E k \in Keys : c' = <<"get", k>>
          \/ \E k \in Keys, v \in Values : c' = <<"set", k, v>>
        BY <2>3
    <2>5. st = "idle" /\ st' = "busy" /\ o' = o
        BY <2>1
    <2> QED BY <2>2, <2>4, <2>5 DEF Map!Next, Map!Request
<1>6. CASE Getting
    <2>1. /\ pc = "node" /\ call.op = "get" /\ call' = call
          /\ (pc' = "node" /\ outcome' = outcome) \/ pc' = "done"
        BY <1>6, GettingEnds
    <2>2. Contents' = Contents /\ m' = m
        BY <1>2, <1>3, <2>1 DEF SetDone
    <2>3. c = <<"get", call.key>> /\ c' = c /\ st = "busy"
        BY <2>1
    <2>4. CASE pc' = "node"
        BY <2>1, <2>2, <2>3, <2>4
    <2>5. CASE pc' = "done"
        <3>1. /\ outcome'.status \in {"value", "throw"}
              /\ m[call.key] = IF outcome'.status = "value" /\ outcome'.value # NoValue
                               THEN outcome'.value ELSE Absent
            BY <1>1, <1>4, <1>6, <2>1, <2>2, <2>5, GetReadsMap
        <3>2. o' = m[call.key]
            BY <3>1
        <3>3. st' = "done" /\ c[1] = "get" /\ c[2] = call.key
            BY <2>3, <2>5
        <3> QED BY <2>2, <2>3, <3>2, <3>3 DEF Map!Next, Map!Get
    <2> QED BY <2>1, <2>4, <2>5
<1>7. CASE Setting /\ ~SetDone
    <2>1. /\ pc \in {"node", "return"} /\ pc' \in {"node", "return"}
          /\ call' = call /\ outcome' = outcome
        BY <1>7, SettingGoesOn
    <2> QED BY <1>2, <1>3, <1>7, <2>1
<1>8. CASE SetDone
    <2>1. /\ pc = "return" /\ call.op = "set" /\ call' = call
          /\ pc' = "done" /\ outcome' = Returned
        BY <1>8 DEF SetDone, Finish
    <2>2. call.key \in Keys /\ call.value \in Values
        BY <1>4, <2>1 DEF IInv, TypeOK
    <2>3. m' = [m EXCEPT ![call.key] = call.value]
        <3>1. Contents' = Updated(Contents, call.key, call.value)
            BY <1>8, SetDoneContents
        <3> QED BY <1>1, <1>2, <2>2, <3>1, MapOfUpdated
    <2>4. c = <<"set", call.key, call.value>> /\ c' = c /\ st = "busy" /\ st' = "done"
        BY <2>1
    <2>5. o' = "returned"
        BY <2>1 DEF Returned
    <2>6. c[1] = "set" /\ c[2] = call.key /\ c[3] = call.value
        BY <2>4
    <2> QED BY <2>3, <2>4, <2>5, <2>6 DEF Map!Next, Map!Set
<1>9. CASE Removing
    BY <1>1, <1>9 DEF Removing, RemoveEmpty, DeleteLeaf, DeleteExtension, DeleteBranch,
       DeleteBranchValue, DeleteExtensionReturn, DeleteBranchReturn, RemoveDone,
       RemoveFallThrough, Visiting, Resuming
<1>10. CASE Reply
    <2>1. pc = "done" /\ pc' = "idle" /\ call' = NoCall /\ outcome' = Pending
        BY <1>10 DEF Reply
    <2>2. m' = m
        BY <1>2, <1>3, <2>1 DEF SetDone
    <2>3. st = "done" /\ st' = "idle"
        BY <2>1
    <2>4. c' = Map!NoCall
        BY <2>1 DEF NoCall, Map!NoCall
    <2>5. o' = Map!Pending
        BY <2>1 DEF Pending, Map!Pending
    <2> QED BY <2>2, <2>3, <2>4, <2>5 DEF Map!Next, Map!Reply
<1>11. CASE UNCHANGED vars
    BY <1>11 DEF vars, Contents
<1> QED BY <1>5, <1>6, <1>7, <1>8, <1>9, <1>10, <1>11 DEF Next, Step, Stopped

\* get and set implement the map: each takes effect at once, when it completes,
\* and in between a caller sees nothing of the handlers.
THEOREM ImplementsMap ==
    ASSUME NoCollisions, NoEmptyValue, SetsOnly
    PROVE  Spec => Map!Safety
<1>1. Init => Map!Init /\ OneValue(Contents)
    <2> SUFFICES ASSUME Init PROVE Map!Init /\ OneValue(Contents)
        OBVIOUS
    <2>1. /\ root = EmptyRef /\ pc = "idle" /\ call = NoCall /\ outcome = Pending
          /\ Sound(nodes)
        BY InitCallInv DEF Init, CallInv
    <2>2. Contents = {}
        BY <2>1, EntriesType DEF Contents
    <2>3. MapOf(Contents) = [k \in Keys |-> Absent]
        BY <2>2 DEF MapOf
    <2> QED BY <2>1, <2>2, <2>3
            DEF Map!Init, Map!NoCall, Map!Pending, NoCall, Pending, OneValue
<1>2. IInv /\ CallInv /\ CallInv' /\ OneValue(Contents) /\ [Next]_vars => OneValue(Contents)'
    <2>1. OneValue(Contents)' <=> OneValue(Contents')
        OBVIOUS
    <2> QED BY <2>1, KeysStayUnique
<1>3. IInv /\ CallInv /\ CallInv' /\ OneValue(Contents) /\ [Next]_vars
         => [Map!Next]_(Map!vars)
    BY MapStep
<1> QED BY <1>1, <1>2, <1>3, Invariants, PTL DEF Spec, Map!Safety

--------------------------------------------------------------------------------
(* remove on a compressed trie.                                                *)

\* The recursion that defines the compressed trie gives one result.
LEMMA RootsAgree ==
    ASSUME NEW E \in EntrySets, NEW F \in EntrySets,
           NEW N \in Nat, \A e \in E : Len(e[1]) <= N,
           NEW T, Roots(T, NoLongerThan(E)), NEW U, Roots(U, NoLongerThan(F)),
           NEW X \in NoLongerThan(E), X \in NoLongerThan(F)
    PROVE  T[X] = U[X]
<1> DEFINE D == NoLongerThan(E) \cap NoLongerThan(F)
           S == {n \in 0..(N + 1) :
                    \A Y \in D : (\A y \in Y : Len(y[1]) < n) => T[Y] = U[Y]}
<1>1. ASSUME NEW Y \in D
      PROVE  /\ Y \in EntrySets
             /\ T[Y] = CompressedRoot(T, Y) /\ U[Y] = CompressedRoot(U, Y)
             /\ \A p \in Seq(Nibble) : Below(Y, p) \in D
    <2>1. Y \in EntrySets /\ \A p \in Seq(Nibble) : Below(Y, p) \in D
        BY BelowNoLonger, EmptySeq
    <2>2. T[Y] = CompressedRoot(T, Y) /\ U[Y] = CompressedRoot(U, Y)
        BY DEF Roots
    <2> QED BY <2>1, <2>2
<1>2. \A Y \in D : \A y \in Y : Len(y[1]) \in Nat /\ Len(y[1]) <= N
    <2> SUFFICES ASSUME NEW Y \in D, NEW y \in Y
                 PROVE  Len(y[1]) \in Nat /\ Len(y[1]) <= N
        OBVIOUS
    <2>1. PICK e \in E : Len(y[1]) <= Len(e[1])
        BY DEF NoLongerThan
    <2>2. y[1] \in Seq(Nibble) /\ e[1] \in Seq(Nibble)
        BY DEF NoLongerThan, EntrySets
    <2>3. Len(y[1]) \in Nat /\ Len(e[1]) \in Nat /\ Len(e[1]) <= N
        BY <2>2, LenProperties
    <2> QED BY <2>1, <2>3
<1>3. X \in D
    OBVIOUS
<1> HIDE DEF D
<1>4. 0 \in S
    <2>1. ASSUME NEW Y \in D, \A y \in Y : Len(y[1]) < 0 PROVE T[Y] = U[Y]
        <3>1. Y = {}
            BY <1>2, <2>1
        <3>2. Cardinality({}) = 0
            BY FS_EmptySet
        <3>3. CompressedRoot(T, {}) = EmptyRef /\ CompressedRoot(U, {}) = EmptyRef
            BY <3>2 DEF CompressedRoot
        <3> QED BY <1>1, <3>1, <3>3
    <2> QED BY <2>1
<1>5. ASSUME NEW n \in 0..N, n \in S PROVE n + 1 \in S
    <2>1. ASSUME NEW Y \in D, \A y \in Y : Len(y[1]) < n + 1 PROVE T[Y] = U[Y]
        <3>1. ASSUME NEW p \in Seq(Nibble), p # <<>> PROVE T[Below(Y, p)] = U[Below(Y, p)]
            <4>1. ASSUME NEW d \in Below(Y, p) PROVE Len(d[1]) < n
                <5>1. PICK c \in Y : /\ Len(d[1]) \in Nat /\ Len(c[1]) \in Nat /\ Len(p) \in Nat
                                     /\ Len(c[1]) = Len(p) + Len(d[1])
                    BY <1>1, BelowShorter
                <5>2. Len(p) # 0
                    BY <3>1, EmptySeq
                <5> QED BY <2>1, <5>1, <5>2
            <4>2. Below(Y, p) \in D
                BY <1>1
            <4> QED BY <1>5, <4>1, <4>2
        <3>2. CompressedRoot(T, Y) = CompressedRoot(U, Y)
            BY <1>1, <3>1, CompressedLocal
        <3> QED BY <1>1, <3>2
    <2> QED BY <2>1
<1>6. N + 1 \in S
    <2> HIDE DEF S
    <2>1. N + 1 \in Nat /\ (N + 1) - 1 = N
        OBVIOUS
    <2>2. \A n \in 0..(N + 1) : n \in S
        BY <1>4, <1>5, <2>1, InductionUpTo
    <2> QED BY <2>1, <2>2
<1>7. \A y \in X : Len(y[1]) < N + 1
    BY <1>2, <1>3
<1> QED BY <1>3, <1>6, <1>7

\* The compressed trie of what is left behind a path is that below it.
LEMMA TrieBelow ==
    ASSUME NEW E \in EntrySets, IsFiniteSet(E),
           NEW T, Roots(T, NoLongerThan(E)), NEW p \in Seq(Nibble),
           IsFiniteSet(Below(E, p))
    PROVE  T[Below(E, p)] = TrieOf(Below(E, p))
<1> DEFINE X == Below(E, p)
<1>1. X \in EntrySets
    BY BelowHas
<1>2. ASSUME NEW Y \in EntrySets PROVE Y \in NoLongerThan(Y)
    <2>1. ASSUME NEW d \in Y PROVE \E e \in Y : Len(d[1]) <= Len(e[1])
        <3>1. d[1] \in Seq(Nibble)
            BY DEF EntrySets
        <3>2. Len(d[1]) \in Nat
            BY <3>1, LenProperties
        <3> QED BY <3>2
    <2> QED BY <2>1 DEF NoLongerThan, EntrySets
<1>3. X \in NoLongerThan(E) /\ X \in NoLongerThan(X)
    BY <1>1, <1>2, BelowNoLonger
<1> HIDE DEF X
<1>4. PICK N \in Nat : \A e \in E : Len(e[1]) <= N
    BY LengthsBounded
<1>5. PICK M \in Nat : \A e \in X : Len(e[1]) <= M
    BY <1>1, LengthsBounded DEF X
<1>6. PICK U : TrieOf(X) = U[X] /\ Roots(U, NoLongerThan(X))
    BY <1>1, <1>5, TrieUnfolds
<1>7. T[X] = U[X]
    BY <1>1, <1>3, <1>4, <1>6, RootsAgree
<1> QED BY <1>6, <1>7 DEF X

\* A reference that PutToStorage makes for a node leads to that node.
LEMMA NodeAtRefTo ==
    ASSUME NoCollisions, NEW store, Sound(store), NEW n, RefTo(n) \in Refs(store)
    PROVE  RefTo(n) # EmptyRef /\ NodeAt(store, RefTo(n)) = n
<1>1. CASE Inlined(n)
    BY <1>1 DEF RefTo, NodeAt, EmptyRef
<1>2. CASE ~Inlined(n)
    <2>1. RefTo(n) = [tag |-> "hash", key |-> Hash(n)]
        BY <1>2 DEF RefTo
    <2>2. RefTo(n).tag = "hash" /\ RefTo(n).key = Hash(n)
        BY <2>1
    <2>3. RefTo(n) # EmptyRef
        BY <2>2 DEF EmptyRef
    <2>4. Hash(n) \in DOMAIN store
        BY <2>2, <2>3, NodeAtType DEF Sound
    <2>5. Hash(store[Hash(n)]) = Hash(n)
        BY <2>4 DEF Sound, ContentAddressed
    <2>6. store[Hash(n)] = n
        BY <2>5 DEF NoCollisions
    <2> QED BY <2>2, <2>3, <2>6 DEF NodeAt
<1> QED BY <1>1, <1>2

Minimal(store, r) == r = TrieOf(Entries(store)[r])

\* The node of a compressed trie at a reference.
LEMMA MinimalNode ==
    ASSUME NoCollisions, NEW store, Sound(store), NEW r \in Refs(store), r # EmptyRef,
           Minimal(store, r),
           NEW n, n = NodeAt(store, r), NEW E, E = Entries(store)[r]
    PROVE  \E T :
              /\ Roots(T, NoLongerThan(E))
              /\ \/ n.kind = "leaf"
                 \/ /\ n.kind = "extension"
                    /\ n.path \in Seq(Nibble) /\ n.next = T[Below(E, n.path)]
                 \/ /\ n.kind = "branch"
                    /\ n.branches = [i \in Nibble |-> T[Below(E, <<i>>)]]
                    /\ Cardinality(E) # 1
                    /\ LongestCommonPrefix(Paths(E)) = <<>>
<1>1. E \in EntrySets /\ IsFiniteSet(E) /\ E # {}
    BY EntriesType, EntriesFinite, HasEntries
<1>2. PICK N \in Nat : \A e \in E : Len(e[1]) <= N
    BY <1>1, LengthsBounded
<1>3. PICK T : TrieOf(E) = T[E] /\ Roots(T, NoLongerThan(E))
    BY <1>1, <1>2, TrieUnfolds
<1>4. E \in NoLongerThan(E)
    <2>1. ASSUME NEW d \in E PROVE \E e \in E : Len(d[1]) <= Len(e[1])
        <3>1. d[1] \in Seq(Nibble)
            BY <1>1 DEF EntrySets
        <3>2. Len(d[1]) \in Nat
            BY <3>1, LenProperties
        <3> QED BY <3>2
    <2> QED BY <1>1, <2>1 DEF NoLongerThan, EntrySets
<1>5. r = CompressedRoot(T, E)
    BY <1>3, <1>4 DEF Minimal, Roots
<1>6. \A m : r = RefTo(m) => n = m
    BY NodeAtRefTo
<1> DEFINE common == LongestCommonPrefix(Paths(E))
           below == [i \in Nibble |-> T[Below(E, <<i>>)]]
           v == IF <<>> \in Paths(E) THEN CHOOSE v \in Values : <<<<>>, v>> \in E ELSE NoValue
           only == CHOOSE e \in E : TRUE
<1>7. common \in Seq(Nibble)
    <2>1. Paths(E) \subseteq Seq(Nibble) /\ Paths(E) # {}
        BY <1>1 DEF Paths, EntrySets
    <2> QED BY <2>1, CommonOfAll
<1>8. CompressedRoot(T, E) =
         CASE E = {} -> EmptyRef
           [] Cardinality(E) = 1 -> RefTo(Leaf(only[1], only[2]))
           [] Cardinality(E) > 1 /\ common # <<>> -> RefTo(Extension(common, T[Below(E, common)]))
           [] OTHER -> RefTo(Branch(below, v))
    BY Zenon DEF CompressedRoot, Paths
<1>9. Cardinality(E) \in Nat /\ Cardinality(E) # 0
    BY <1>1, FS_CardinalityType, FS_EmptySet
<1> HIDE DEF common, below, v, only
<1>10. CASE Cardinality(E) = 1
    <2>1. r = RefTo(Leaf(only[1], only[2]))
        BY <1>1, <1>5, <1>8, <1>10
    <2>2. n.kind = "leaf"
        BY <1>6, <2>1 DEF Leaf
    <2> QED BY <1>3, <2>2
<1>11. CASE Cardinality(E) > 1 /\ common # <<>>
    <2>1. r = RefTo(Extension(common, T[Below(E, common)]))
        BY <1>1, <1>5, <1>8, <1>11
    <2>2. n = Extension(common, T[Below(E, common)])
        BY <1>6, <2>1
    <2>3. n.kind = "extension" /\ n.path = common /\ n.next = T[Below(E, common)]
        BY <2>2 DEF Extension
    <2> QED BY <1>3, <1>7, <2>3
<1>12. CASE Cardinality(E) # 1 /\ common = <<>>
    <2>1. r = RefTo(Branch(below, v))
        BY <1>1, <1>5, <1>8, <1>12
    <2>2. n = Branch(below, v)
        BY <1>6, <2>1
    <2>3. n.kind = "branch" /\ n.branches = below
        BY <2>2 DEF Branch
    <2> QED BY <1>3, <1>12, <2>3 DEF below, common
<1> QED BY <1>9, <1>10, <1>11, <1>12

\* A branch whose entries are several and have no nibble in common forks.
LEMMA SeveralFork ==
    ASSUME NEW store, Sound(store), NEW n \in Branches(store),
           NEW E, E = NodeEntries(Entries(store), n), E \in EntrySets, E # {},
           Cardinality(E) # 1, LongestCommonPrefix(Paths(E)) = <<>>
    PROVE  Forks(n)
<1> DEFINE g == Entries(store)
<1>1. /\ n.kind = "branch" /\ n.branches \in [Nibble -> Refs(store)]
      /\ g[EmptyRef] = {} /\ g \in [Refs(store) -> EntrySets]
    BY EntriesType DEF Branches
<1>2. E = (UNION {Prefixed(<<i>>, g[n.branches[i]]) : i \in Children(n)})
             \cup {<<<<>>, v>> : v \in {n.value} \ {NoValue}}
    <2> HIDE DEF g
    <2> QED BY <1>1, LiveEntries DEF g
<1> SUFFICES ASSUME ~Forks(n) PROVE FALSE
    OBVIOUS
<1>3. CASE Children(n) = {}
    <2>1. E = {<<<<>>, v>> : v \in {n.value} \ {NoValue}}
        BY <1>2, <1>3
    <2>2. E = {} \/ E = {<<<<>>, n.value>>}
        BY <2>1
    <2> QED BY <2>2, FS_Singleton
<1>4. ASSUME NEW i \in Children(n) PROVE FALSE
    <2>1. Children(n) = {i} /\ n.value = NoValue
        BY <1>4 DEF Forks
    <2>2. i \in Nibble /\ <<i>> \in Seq(Nibble) /\ n.branches[i] \in Refs(store)
        BY <1>1, <1>4 DEF Children
    <2>3. g[n.branches[i]] \in EntrySets
        BY <1>1, <2>2
    <2>4. E = Prefixed(<<i>>, g[n.branches[i]])
        BY <1>2, <2>1
    <2> HIDE DEF g
    <2>5. ASSUME NEW s \in Paths(E) PROVE StartsWith(s, <<i>>)
        <3>1. PICK e \in g[n.branches[i]] : s = <<i>> \o e[1]
            <4>1. PICK d \in E : s = d[1]
                BY DEF Paths
            <4>2. PICK e \in g[n.branches[i]] : d = <<<<i>> \o e[1], e[2]>>
                BY <2>4 DEF Prefixed
            <4> QED BY <4>1, <4>2
        <3>2. e[1] \in Seq(Nibble)
            BY <2>3 DEF EntrySets
        <3> QED BY <2>2, <3>1, <3>2, Joined
    <2>6. Paths(E) \subseteq Seq(Nibble) /\ Paths(E) # {}
        BY DEF Paths, EntrySets
    <2>7. Len(<<i>>) <= Len(LongestCommonPrefix(Paths(E)))
        BY <2>2, <2>5, <2>6, CommonOfAll
    <2>8. Len(<<i>>) = 1 /\ Len(<<>>) = 0
        OBVIOUS
    <2> QED BY <2>7, <2>8
<1> QED BY <1>3, <1>4

\* In a compressed trie branches fork, and what is below a node is compressed.
LEMMA MinimalParts ==
    ASSUME NoCollisions, NEW store, Sound(store), NEW r \in Refs(store), r # EmptyRef,
           Minimal(store, r), NEW n, n = NodeAt(store, r)
    PROVE  /\ n.kind = "branch" => Forks(n)
           /\ \A c \in RefsOf(n) : Minimal(store, c)
<1> DEFINE g == Entries(store)
           E == g[r]
<1>1. /\ n \in Nodes(store) /\ RefsOf(n) \subseteq Refs(store)
      /\ g \in [Refs(store) -> EntrySets] /\ E = NodeEntries(g, n)
    BY NodeAtType, RefsOfType, EntriesType DEF Sound
<1>2. E \in EntrySets /\ IsFiniteSet(E) /\ E # {}
    BY EntriesType, EntriesFinite, HasEntries
<1>3. PICK T :
         /\ Roots(T, NoLongerThan(E))
         /\ \/ n.kind = "leaf"
            \/ /\ n.kind = "extension"
               /\ n.path \in Seq(Nibble) /\ n.next = T[Below(E, n.path)]
            \/ /\ n.kind = "branch"
               /\ n.branches = [i \in Nibble |-> T[Below(E, <<i>>)]]
               /\ Cardinality(E) # 1
               /\ LongestCommonPrefix(Paths(E)) = <<>>
    BY MinimalNode
<1> HIDE DEF E
<1>4. ASSUME NEW c \in Refs(store), NEW p \in Seq(Nibble), c = T[Below(E, p)],
             \A s \in Seq(Nibble), v \in Values : <<p \o s, v>> \in E <=> <<s, v>> \in g[c]
      PROVE  Minimal(store, c)
    <2>1. g[c] \in EntrySets /\ IsFiniteSet(g[c])
        BY <1>1, EntriesFinite
    <2>2. Below(E, p) = g[c]
        <3> HIDE DEF g
        <3>1. Below(E, p) \in EntrySets
            BY <1>2, BelowHas
        <3>2. \A s \in Seq(Nibble) : \A v \in Values :
                 <<s, v>> \in Below(E, p) <=> <<s, v>> \in g[c]
            BY <1>2, <1>4, BelowHas
        <3> QED BY <2>1, <3>1, <3>2, SameEntries
    <2>3. T[Below(E, p)] = TrieOf(Below(E, p))
        BY <1>2, <1>3, <2>1, <2>2, TrieBelow
    <2> QED BY <1>4, <2>2, <2>3 DEF Minimal
<1>5. CASE n.kind = "leaf"
    BY <1>5 DEF RefsOf
<1>6. CASE n.kind = "extension"
    <2>1. RefsOf(n) = {n.next} /\ n.next \in Refs(store)
        BY <1>1, <1>6 DEF RefsOf
    <2>2. n.path \in Seq(Nibble) /\ n.next = T[Below(E, n.path)]
        BY <1>3, <1>6
    <2>3. g[n.next] \in EntrySets
        BY <1>1, <2>1
    <2>4. \A s \in Seq(Nibble), v \in Values :
             <<n.path \o s, v>> \in E <=> <<s, v>> \in g[n.next]
        <3> HIDE DEF g
        <3> QED BY <1>1, <1>6, <2>2, <2>3, ExtensionEntries
    <2>5. Minimal(store, n.next)
        BY <1>4, <2>1, <2>2, <2>4
    <2> QED BY <1>6, <2>1, <2>5
<1>7. CASE n.kind = "branch"
    <2>1. n \in Branches(store) /\ n.branches \in [Nibble -> Refs(store)]
        BY <1>1, <1>7, NodeKinds DEF Branches
    <2>2. /\ n.branches = [i \in Nibble |-> T[Below(E, <<i>>)]]
          /\ Cardinality(E) # 1 /\ LongestCommonPrefix(Paths(E)) = <<>>
        BY <1>3, <1>7
    <2>3. Forks(n)
        BY <1>1, <1>2, <2>1, <2>2, SeveralFork DEF g
    <2>4. ASSUME NEW i \in Nibble PROVE Minimal(store, n.branches[i])
        <3>1. n.branches[i] \in Refs(store) /\ <<i>> \in Seq(Nibble)
            BY <2>1
        <3>2. n.branches[i] = T[Below(E, <<i>>)]
            BY <2>2
        <3>3. \A j \in Nibble : g[n.branches[j]] \in EntrySets
            BY <1>1, <2>1
        <3>4. \A s \in Seq(Nibble), v \in Values :
                 <<<<i>> \o s, v>> \in E <=> <<s, v>> \in g[n.branches[i]]
            <4> HIDE DEF g
            <4> QED BY <1>1, <1>7, <3>3, BranchEntries
        <3> QED BY <1>4, <3>1, <3>2, <3>4
    <2>5. \A c \in RefsOf(n) : \E i \in Nibble : c = n.branches[i]
        BY <1>7 DEF RefsOf
    <2> QED BY <2>3, <2>4, <2>5
<1> QED BY <1>1, <1>5, <1>6, <1>7, NodeKinds

\* A remove with a defined outcome, from the root of a compressed trie.
Orderly == call.op = "remove" /\ Clean /\ Minimal(nodes, root)

\* The entry of the path k is not in what the answer res of remove stands for; a
\* branch has become useless only where the path ended at it.
Dropped(store, res, k) ==
    res.action # "deleted" =>
        /\ \A v \in Values : <<k, v>> \notin Entries(store)[res.ref]
        /\ res.action = "useless" => k = <<>>

\* On its way down such a remove meets branches that fork only, so that on its
\* way up none is taken away but that whose value is deleted.
Exactly ==
    Orderly =>
        /\ pc \in {"node", "return"} =>
              \A i \in 1..Len(stack) : stack[i].node.kind = "branch" => Forks(stack[i].node)
        /\ pc = "node" => Minimal(nodes, ref)
        /\ pc = "return" =>
              \E rest : /\ Trail(nodes, root, stack, call.key, rest)
                        /\ Dropped(nodes, ret, rest[Len(stack) + 1])

\* A step of the handlers changes nothing of what makes a remove orderly.
LEMMA StaysOrderly ==
    ASSUME IInv, CallInv, CallInv', Within(nodes, nodes'), root' = root, call' = call
    PROVE  /\ Orderly' <=> Orderly
           /\ root \in Refs(nodes) /\ Sound(nodes) /\ Sound(nodes') /\ Closed(nodes)
<1>1. Sound(nodes) /\ Sound(nodes') /\ Closed(nodes) /\ root \in Refs(nodes)
    BY DEF CallInv, IInv, TypeOK, Sound
<1>2. Contents' = Contents /\ \A k : ReadsIndeterminate(k)' = ReadsIndeterminate(k)
    BY <1>1, ContentsStay
<1>3. Clean' <=> Clean
    BY <1>2 DEF Clean
<1>4. Minimal(nodes, root)' <=> Minimal(nodes, root)
    BY <1>2 DEF Minimal, Contents
<1> QED BY <1>1, <1>3, <1>4 DEF Orderly

\* A handler answers for the node it was applied to.
LEMMA AnswerExactly ==
    ASSUME IInv, CallInv, CallInv', Within(nodes, nodes'), Exactly, pc = "node",
           root' = root, call' = call, pc' = "return", stack' = stack,
           Orderly => Dropped(nodes', ret', path)
    PROVE  Exactly'
<1> SUFFICES ASSUME Orderly'
             PROVE  /\ \A i \in 1..Len(stack') :
                          stack'[i].node.kind = "branch" => Forks(stack'[i].node)
                    /\ \E rest : /\ Trail(nodes', root', stack', call'.key, rest)
                                 /\ Dropped(nodes', ret', rest[Len(stack') + 1])
    BY DEF Exactly
<1>1. Orderly /\ root \in Refs(nodes) /\ Closed(nodes)
    BY StaysOrderly
<1>2. stack \in Seq(Frames(nodes)) /\ call.op # "get"
    BY <1>1 DEF IInv, TypeOK, Orderly
<1>3. PICK rest : /\ Trail(nodes, root, stack, call.key, rest)
                  /\ rest[Len(stack) + 1] = path
    BY <1>2 DEF CallInv, Visits
<1>4. Trail(nodes', root, stack, call.key, rest)
    BY <1>1, <1>2, <1>3, TrailWithin
<1>5. Dropped(nodes', ret', rest[Len(stack) + 1])
    BY <1>1, <1>3
<1>6. \A i \in 1..Len(stack) : stack[i].node.kind = "branch" => Forks(stack[i].node)
    BY <1>1 DEF Exactly
<1> QED BY <1>4, <1>5, <1>6

\* A handler answers with the help of the answer it waited for.
LEMMA AnswerAboveExactly ==
    ASSUME IInv, CallInv, CallInv', Within(nodes, nodes'), Exactly,
           pc = "return", stack # <<>>, stack' = Front(stack),
           root' = root, call' = call, pc' = "return",
           \A k \in Seq(Nibble) :
              /\ Orderly
              /\ Last(stack).node.kind = "branch" => Forks(Last(stack).node)
              /\ Dropped(nodes, ret, k)
              => Dropped(nodes', ret', StepPath(Last(stack)) \o k)
    PROVE  Exactly'
<1> SUFFICES ASSUME Orderly'
             PROVE  /\ \A i \in 1..Len(stack') :
                          stack'[i].node.kind = "branch" => Forks(stack'[i].node)
                    /\ \E rest : /\ Trail(nodes', root', stack', call'.key, rest)
                                 /\ Dropped(nodes', ret', rest[Len(stack') + 1])
    BY DEF Exactly
<1>1. Orderly /\ root \in Refs(nodes) /\ Closed(nodes)
    BY StaysOrderly
<1>2. stack \in Seq(Frames(nodes))
    BY DEF IInv, TypeOK
<1>3. \A i \in 1..Len(stack) : stack[i].node.kind = "branch" => Forks(stack[i].node)
    BY <1>1 DEF Exactly
<1>4. PICK rest : /\ Trail(nodes, root, stack, call.key, rest)
                  /\ Dropped(nodes, ret, rest[Len(stack) + 1])
    BY <1>1 DEF Exactly
<1>5. /\ Len(stack) \in Nat \ {0}
      /\ Front(stack) \in Seq(Frames(nodes)) /\ Len(Front(stack)) = Len(stack) - 1
      /\ \A i \in 1..Len(stack) - 1 : Front(stack)[i] = stack[i]
      /\ Last(stack) = stack[Len(stack)]
    BY <1>2, FrontProperties
<1>6. rest[Len(stack) + 1] \in Seq(Nibble)
    <2>1. rest \in [1..Len(stack) + 1 -> Seq(Nibble)]
        BY <1>4 DEF Trail
    <2> QED BY <1>5, <2>1
<1>7. /\ Trail(nodes, root, Front(stack), call.key, Lowest(rest, Len(stack)))
      /\ Lowest(rest, Len(stack))[Len(Front(stack)) + 1]
           = StepPath(Last(stack)) \o rest[Len(stack) + 1]
    BY <1>2, <1>4, TrailShrinks
<1>8. Trail(nodes', root, Front(stack), call.key, Lowest(rest, Len(stack)))
    BY <1>1, <1>5, <1>7, TrailWithin
<1>9. Last(stack).node.kind = "branch" => Forks(Last(stack).node)
    BY <1>3, <1>5
<1>10. Dropped(nodes', ret', Lowest(rest, Len(stack))[Len(Front(stack)) + 1])
    BY <1>1, <1>4, <1>6, <1>7, <1>9
<1>11. \A i \in 1..Len(Front(stack)) :
          Front(stack)[i].node.kind = "branch" => Forks(Front(stack)[i].node)
    BY <1>3, <1>5
<1> QED BY <1>8, <1>10, <1>11

\* The answer is a new node.
LEMMA NodeDropped ==
    ASSUME NoCollisions, Sound(nodes), NEW action \in {"updated", "useless"}, NEW p,
           NEW n \in Nodes(nodes), Inhabited(n), ReturnNode(nodes, action, p, n),
           NEW k, \A v \in Values : <<k, v>> \notin NodeEntries(Entries(nodes), n),
           action = "useless" => k = <<>>
    PROVE  Dropped(nodes', ret', k)
<1>1. nodes' = Put(nodes, n) /\ ret' = Result(action, p, n)
    BY DEF ReturnNode, Return
<1>2. ret'.action = action /\ ret'.ref = RefTo(n)
    BY <1>1 DEF Result
<1>3. Entries(nodes')[ret'.ref] = NodeEntries(Entries(nodes), n)
    BY <1>1, <1>2, PutSound
<1> QED BY <1>2, <1>3 DEF Dropped

\* A handler of remove calls the next one.
LEMMA DescentExactly ==
    ASSUME NoCollisions, IInv, CallInv, CallInv', Exactly, pc = "node", ref # EmptyRef,
           NEW f \in Frames(nodes), Fetch(ref) = f.node,
           NEW p, Visit(ChildRef(f), p), stack' = Append(stack, f)
    PROVE  Exactly'
<1>1. /\ nodes' = nodes /\ root' = root /\ call' = call /\ pc' = "node" /\ ref' = ChildRef(f)
    BY DEF Visit
<1>2. Within(nodes, nodes')
    BY <1>1 DEF Within
<1>3. /\ Orderly' <=> Orderly
      /\ Sound(nodes) /\ ref \in Refs(nodes) /\ stack \in Seq(Frames(nodes))
    BY <1>1, <1>2, StaysOrderly DEF IInv, TypeOK
<1>4. ASSUME Orderly
      PROVE  /\ \A i \in 1..Len(stack') :
                   stack'[i].node.kind = "branch" => Forks(stack'[i].node)
             /\ Minimal(nodes, ref')
    <2>1. /\ Minimal(nodes, ref)
          /\ \A i \in 1..Len(stack) : stack[i].node.kind = "branch" => Forks(stack[i].node)
        BY <1>4 DEF Exactly
    <2>2. f.node = NodeAt(nodes, ref) /\ ChildRef(f) \in RefsOf(f.node)
        BY FrameType DEF Fetch
    <2>3. /\ f.node.kind = "branch" => Forks(f.node)
          /\ \A c \in RefsOf(f.node) : Minimal(nodes, c)
        BY <1>3, <2>1, <2>2, MinimalParts
    <2>4. /\ Len(stack') = Len(stack) + 1 /\ stack'[Len(stack) + 1] = f
          /\ \A i \in 1..Len(stack) : stack'[i] = stack[i]
        BY <1>3, AppendProperties
    <2>5. Len(stack) \in Nat
        BY <1>3, LenProperties
    <2>6. \A i \in 1..Len(stack') : i \in 1..Len(stack) \/ i = Len(stack) + 1
        BY <2>4, <2>5
    <2> QED BY <1>1, <2>1, <2>2, <2>3, <2>4, <2>6
<1> QED BY <1>1, <1>3, <1>4 DEF Exactly

\* The handlers of remove on their way down.
LEMMA DeletingExactly ==
    ASSUME NoCollisions, IInv, CallInv, CallInv', Within(nodes, nodes'), Exactly,
           RemoveEmpty \/ DeleteLeaf \/ DeleteExtension \/ DeleteBranch
    PROVE  Exactly'
<1>1. CASE pc' = "done"
    BY <1>1 DEF Exactly
<1>2. CASE RemoveEmpty
    BY <1>1, <1>2 DEF RemoveEmpty, Finish
<1>3. CASE DeleteLeaf
    <2>1. CASE Return(nodes, Deleted) /\ UNCHANGED stack
        <3>1. /\ pc = "node" /\ root' = root /\ call' = call /\ pc' = "return" /\ stack' = stack
              /\ ret' = Deleted
            BY <1>3, <2>1 DEF DeleteLeaf, Visiting, Return
        <3>2. Dropped(nodes', ret', path)
            BY <3>1 DEF Dropped, Deleted
        <3> QED BY <3>1, <3>2, AnswerExactly
    <2>2. CASE Missing
        BY <1>1, <2>2 DEF Missing, Abandon, Finish
    <2> QED BY <1>3, <2>1, <2>2 DEF DeleteLeaf
<1>4. CASE DeleteExtension
    <2> DEFINE ext == Fetch(ref)
    <2>1. ext.kind = "extension" /\ ext \in Nodes(nodes) /\ pc = "node" /\ ref # EmptyRef
        BY <1>4, VisitedEntries DEF DeleteExtension
    <2>2. ext \in Extensions(nodes)
        BY <2>1, NodeKinds
    <2>3. CASE Recurse([node |-> ext], ext.next, Consume(path, Len(ext.path)))
        <3> DEFINE f == [node |-> ext]
                   p == Consume(path, Len(ext.path))
        <3>1. f \in Frames(nodes) /\ ChildRef(f) = ext.next
            BY <2>1, <2>2 DEF Frames, ChildRef
        <3>2. Fetch(ref) = f.node /\ Visit(ChildRef(f), p) /\ stack' = Append(stack, f)
            BY <2>3, <3>1 DEF Recurse
        <3> HIDE DEF f, p
        <3> QED BY <2>1, <3>1, <3>2, DescentExactly
    <2>4. CASE Missing
        BY <1>1, <2>4 DEF Missing, Abandon, Finish
    <2> QED BY <1>4, <2>3, <2>4 DEF DeleteExtension
<1>5. CASE DeleteBranch
    <2> DEFINE b == Fetch(ref)
    <2>1. /\ b.kind = "branch" /\ b \in Nodes(nodes) /\ pc = "node" /\ ref # EmptyRef
          /\ path \in Seq(Nibble)
        BY <1>5, VisitedEntries DEF DeleteBranch
    <2>2. b \in Branches(nodes)
        BY <2>1, NodeKinds
    <2>3. CASE /\ path # <<>>
               /\ Recurse([node |-> b, idx |-> Head(path)],
                          b.branches[Head(path)], Tail(path))
        <3> DEFINE f == [node |-> b, idx |-> Head(path)]
                   p == Tail(path)
        <3>1. Head(path) \in Nibble
            BY <2>1, <2>3, FirstAndRest
        <3>2. f \in Frames(nodes) /\ ChildRef(f) = b.branches[Head(path)]
            BY <2>1, <2>2, <3>1 DEF Frames, ChildRef
        <3>3. Fetch(ref) = f.node /\ Visit(ChildRef(f), p) /\ stack' = Append(stack, f)
            BY <2>3, <3>2 DEF Recurse
        <3> HIDE DEF f, p
        <3> QED BY <2>1, <3>2, <3>3, DescentExactly
    <2>4. CASE Missing
        BY <1>1, <2>4 DEF Missing, Abandon, Finish
    <2> QED BY <1>5, <2>3, <2>4 DEF DeleteBranch
<1> QED BY <1>2, <1>3, <1>4, <1>5

\* Of a branch that forks the value is deleted: with one child, that is left.
LEMMA DeleteBranchValueExactly ==
    ASSUME NoCollisions, IInv, CallInv, CallInv', Within(nodes, nodes'), Exactly,
           DeleteBranchValue
    PROVE  Exactly'
<1> DEFINE b0 == Fetch(ref)
           b == [b0 EXCEPT !.value = NoValue]
<1>1. /\ b0.kind = "branch" /\ b0 \in Nodes(nodes) /\ Sound(nodes) /\ pc = "node"
      /\ ref # EmptyRef /\ ref \in Refs(nodes)
      /\ path = <<>> /\ b0.value # NoValue /\ Visiting("remove", "branch")
    BY VisitedEntries DEF DeleteBranchValue
<1>2. b0 \in Branches(nodes)
    BY <1>1, NodeKinds
<1>3. /\ b \in Branches(nodes) /\ b.kind = "branch" /\ b.value = NoValue
      /\ b.branches = b0.branches
    <2> HIDE DEF b0
    <2> QED BY <1>2 DEF Branches, StoredValues
<1>4. Children(b) = Children(b0)
    BY <1>3 DEF Children
<1>5. CASE /\ \E idx \in Nibble : BranchDeletion(b, idx)
           /\ UNCHANGED stack
    <2>1. PICK idx \in Nibble : BranchDeletion(b, idx)
        BY <1>5
    <2>2. /\ root' = root /\ call' = call /\ pc' = "return" /\ stack' = stack
        BY <1>5, <2>1 DEF BranchDeletion, ReturnNode, Return
    <2>3. ASSUME Orderly PROVE Dropped(nodes', ret', path)
        <3>1. Forks(b0)
            <4>1. Minimal(nodes, ref)
                BY <1>1, <2>3 DEF Exactly
            <4> QED BY <1>1, <4>1, MinimalParts DEF Fetch
        <3>2. PICK i : i \in Children(b0)
            BY <3>1 DEF Forks
        <3>3. ASSUME NEW j \in Children(b0), j # i PROVE FALSE
            <4>1. ReadsIndeterminate(call.key)
                BY <1>1, <3>2, <3>3, IndeterminateKey DEF b0
            <4> QED BY <2>3, <4>1 DEF Orderly, Clean
        <3>4. PICK c \in Branches(nodes) : c = b
            BY <1>3
        <3>5. Children(c) = {i} /\ c.value = NoValue /\ c.kind = "branch"
            BY <1>3, <1>4, <3>2, <3>3, <3>4
        <3>6. Cardinality(Children(c)) = 1 /\ (CHOOSE x \in Children(c) : TRUE) = i
            BY <3>5, FS_Singleton
        <3> DEFINE last == LastBranchNode(c, i)
        <3>7. ReturnNode(nodes, "useless", last.path, last)
            <4>1. BranchDeletion(c, idx)
                BY <2>1, <3>4
            <4> QED BY <3>5, <3>6, <4>1 DEF BranchDeletion
        <3>8. /\ NodeEntries(Entries(nodes), last) = NodeEntries(Entries(nodes), c)
              /\ last.kind # "branch"
            BY <1>1, <3>5, LastChildEntries
        <3>9. last \in Nodes(nodes)
            <4>1. i \in Children(c)
                BY <3>5
            <4> QED BY <4>1, LastBranchNodeType
        <3>10. \A v \in Values : <<<<>>, v>> \notin NodeEntries(Entries(nodes), c)
            <4>1. c.branches \in [Nibble -> Refs(nodes)]
                BY DEF Branches
            <4>2. \A m \in Nibble : Entries(nodes)[c.branches[m]] \in EntrySets
                BY <1>1, <4>1, EntriesType
            <4> DEFINE g == Entries(nodes)
            <4> HIDE DEF g
            <4>3. \A v : <<<<>>, v>> \in NodeEntries(g, c) <=> v = c.value /\ v # NoValue
                BY <3>5, <4>2, BranchEntries DEF g
            <4> QED BY <3>5, <4>3 DEF g
        <3> HIDE DEF last
        <3>11. Inhabited(last)
            BY <3>8 DEF Inhabited
        <3> QED BY <1>1, <3>7, <3>8, <3>9, <3>10, <3>11, NodeDropped
    <2> QED BY <1>1, <2>2, <2>3, AnswerExactly
<1>6. CASE Undefined
    BY <1>6 DEF Undefined, Exactly
<1> QED BY <1>5, <1>6 DEF DeleteBranchValue

\* What an extension does with the answer of the node it leads to.
LEMMA DeleteExtensionReturnExactly ==
    ASSUME NoCollisions, IInv, CallInv, CallInv', Within(nodes, nodes'), Exactly,
           DeleteExtensionReturn
    PROVE  Exactly'
<1> DEFINE f == Last(stack)
           ext == f.node
           g == Entries(nodes)
<1>1. /\ pc = "return" /\ call.op = "remove" /\ stack # <<>> /\ stack' = Front(stack)
      /\ f \in Frames(nodes) /\ ext.kind = "extension" /\ ext \in Nodes(nodes)
      /\ Sound(nodes) /\ g \in [Refs(nodes) -> EntrySets]
      /\ ret \in Updates(nodes) \cup {Deleted}
      /\ ret \in Updates(nodes) => ret.ref \in NodeRefs(nodes) /\ ret.ref \in Refs(nodes)
    BY ResumedType DEF DeleteExtensionReturn
<1>2. ext \in Extensions(nodes) /\ ext.path \in Seq(Nibble)
    BY <1>1, NodeKinds DEF Extensions
<1>3. StepPath(f) = ext.path
    BY <1>1 DEF StepPath
<1>4. /\ root' = root /\ call' = call /\ pc' = "return"
      /\ \/ ret.action = "deleted" /\ Return(nodes, Deleted)
         \/ /\ ret.action = "updated"
            /\ ReturnNode(nodes, "updated", <<>>, Extension(ext.path, ret.ref))
         \/ /\ ret.action = "useless"
            /\ ReturnNode(nodes, "updated", <<>>, MergedExtension(ext))
    BY DEF DeleteExtensionReturn, ReturnNode, Return
<1>5. ret.action # "deleted" => ret \in Updates(nodes)
    BY <1>1 DEF Deleted
<1> HIDE DEF ext, g
<1>6. ASSUME NEW n \in Nodes(nodes), n.kind # "branch", ReturnNode(nodes, "updated", <<>>, n),
             NodeEntries(g, n) = Prefixed(ext.path, g[ret.ref]), g[ret.ref] \in EntrySets,
             NEW k \in Seq(Nibble), \A v \in Values : <<k, v>> \notin g[ret.ref]
      PROVE  Dropped(nodes', ret', ext.path \o k)
    <2>1. \A v \in Values : <<ext.path \o k, v>> \notin NodeEntries(Entries(nodes), n)
        <3>1. PICK p \in Seq(Nibble) : p = ext.path
            BY <1>2
        <3>2. PICK D \in EntrySets : D = g[ret.ref]
            BY <1>6
        <3>3. \A v : <<p \o k, v>> \in Prefixed(p, D) <=> <<k, v>> \in D
            BY PrefixedHas
        <3> QED BY <1>6, <3>1, <3>2, <3>3 DEF g
    <2>2. Inhabited(n)
        BY <1>6 DEF Inhabited
    <2> QED BY <1>1, <1>6, <2>1, <2>2, NodeDropped
<1>7. ASSUME NEW k \in Seq(Nibble), Dropped(nodes, ret, k)
      PROVE  Dropped(nodes', ret', ext.path \o k)
    <2>1. CASE ret.action = "deleted"
        <3>1. ret' = Deleted
            BY <1>4, <2>1 DEF Return
        <3> QED BY <3>1 DEF Dropped, Deleted
    <2>2. ASSUME ret.action # "deleted"
          PROVE  /\ \A v \in Values : <<k, v>> \notin g[ret.ref]
                 /\ g[ret.ref] \in EntrySets
                 /\ ret.ref \in Refs(nodes) /\ ret.ref # EmptyRef /\ ret.ref \in NodeRefs(nodes)
        BY <1>1, <1>5, <1>7, <2>2, RefCases DEF Dropped, g
    <2>3. CASE ret.action = "updated"
        <3> DEFINE n == Extension(ext.path, ret.ref)
        <3>1. n \in Nodes(nodes) /\ n.kind # "branch"
            BY <1>2, <2>2, <2>3 DEF Extension, Extensions, Nodes
        <3>2. NodeEntries(g, n) = Prefixed(ext.path, g[ret.ref])
            BY DEF NodeEntries, Extension
        <3>3. ReturnNode(nodes, "updated", <<>>, n)
            BY <1>4, <2>3
        <3> HIDE DEF n
        <3> QED BY <1>6, <2>2, <2>3, <3>1, <3>2, <3>3
    <2>4. CASE ret.action = "useless"
        <3> DEFINE child == Fetch(ret.ref)
                   n == MergedExtension(ext)
        <3>1. child \in Nodes(nodes) /\ g[ret.ref] = NodeEntries(g, child)
            BY <1>1, <2>2, <2>4, NodeAtType, EntriesType DEF Sound, Fetch, g
        <3>2. child.kind # "branch"
            <4>1. PICK rest :
                     Answers("remove", call.value, Clean, nodes, ret,
                             Entries(nodes)[Here], rest[Len(stack) + 1])
                BY <1>1 DEF CallInv, Returns
            <4> QED BY <2>4, <4>1 DEF Answers, Fetch
        <3>3. PICK c \in Nodes(nodes) : c = child
            BY <3>1
        <3>4. PICK p \in Seq(Nibble) : p = ext.path
            BY <1>2
        <3>5. PICK h \in [Refs(nodes) -> EntrySets] : h = g
            BY <1>1
        <3>6. /\ c.kind = "leaf" => NodeEntries(h, Leaf(p \o c.path, c.value))
                                       = Prefixed(p, NodeEntries(h, c))
              /\ c.kind = "extension" => NodeEntries(h, Extension(p \o c.path, c.next))
                                            = Prefixed(p, NodeEntries(h, c))
            BY MergedEntries
        <3>7. /\ c.kind = "leaf" => Leaf(p \o c.path, c.value) \in Nodes(nodes)
              /\ c.kind = "extension" => Extension(p \o c.path, c.next) \in Nodes(nodes)
            BY MergedType
        <3>8. ReturnNode(nodes, "updated", <<>>, n)
            BY <1>4, <2>4
        <3>9. CASE c.kind = "leaf"
            <4>1. n = Leaf(p \o c.path, c.value)
                BY <3>3, <3>4, <3>9 DEF MergedExtension
            <4> HIDE DEF n
            <4>2. n \in Nodes(nodes) /\ n.kind # "branch"
                BY <3>7, <3>9, <4>1 DEF Leaf
            <4>3. NodeEntries(g, n) = Prefixed(ext.path, g[ret.ref])
                BY <3>1, <3>3, <3>4, <3>5, <3>6, <3>9, <4>1
            <4> QED BY <1>6, <2>2, <2>4, <3>8, <4>2, <4>3
        <3>10. CASE c.kind = "extension"
            <4>1. n = Extension(p \o c.path, c.next)
                BY <3>3, <3>4, <3>10 DEF MergedExtension
            <4> HIDE DEF n
            <4>2. n \in Nodes(nodes) /\ n.kind # "branch"
                BY <3>7, <3>10, <4>1 DEF Extension
            <4>3. NodeEntries(g, n) = Prefixed(ext.path, g[ret.ref])
                BY <3>1, <3>3, <3>4, <3>5, <3>6, <3>10, <4>1
            <4> QED BY <1>6, <2>2, <2>4, <3>8, <4>2, <4>3
        <3> QED BY <3>2, <3>3, <3>9, <3>10, NodeKinds
    <2> QED BY <1>4, <2>1, <2>3, <2>4
<1> QED BY <1>1, <1>3, <1>4, <1>7, AnswerAboveExactly DEF ext

\* What a branch does with the answer of its child: one that forks stays.
LEMMA DeleteBranchReturnExactly ==
    ASSUME NoCollisions, IInv, CallInv, CallInv', Within(nodes, nodes'), Exactly,
           DeleteBranchReturn
    PROVE  Exactly'
<1> DEFINE f == Last(stack)
           g == Entries(nodes)
<1>1. /\ pc = "return" /\ call.op = "remove" /\ stack # <<>> /\ stack' = Front(stack)
      /\ f \in Frames(nodes) /\ f.node.kind = "branch"
      /\ Sound(nodes) /\ g \in [Refs(nodes) -> EntrySets]
      /\ ret \in Updates(nodes) \cup {Deleted}
      /\ ret \in Updates(nodes) => ret.ref \in NodeRefs(nodes) /\ ret.ref \in Refs(nodes)
    BY ResumedType DEF DeleteBranchReturn
<1>2. PICK b \in Branches(nodes) : b = f.node
    BY <1>1, FrameKinds
<1>3. PICK i \in Nibble : i = f.idx
    BY <1>1, FrameKinds
<1>4. StepPath(f) = <<i>>
    BY <1>1, <1>2, <1>3 DEF StepPath
<1>5. /\ root' = root /\ call' = call /\ pc' = "return"
      /\ ret.action = "deleted" => BranchDeletion(b, i)
      /\ ret.action # "deleted" =>
            ReturnNode(nodes, "updated", <<>>, SetBranch(b, i, ret.ref))
    BY <1>2, <1>3 DEF DeleteBranchReturn, BranchDeletion, ReturnNode, Return
<1>6. ret.action # "deleted" => ret \in Updates(nodes)
    BY <1>1 DEF Deleted
<1>7. b.kind = "branch" /\ b.branches \in [Nibble -> Refs(nodes)]
    BY DEF Branches
<1> HIDE DEF f, g
<1>8. ASSUME NEW r \in Refs(nodes), NEW k \in Seq(Nibble),
             \A v \in Values : <<k, v>> \notin g[r],
             Inhabited(SetBranch(b, i, r)),
             ReturnNode(nodes, "updated", <<>>, SetBranch(b, i, r))
      PROVE  Dropped(nodes', ret', <<i>> \o k)
    <2> DEFINE n == SetBranch(b, i, r)
    <2>1. NoValue \in StoredValues
        BY DEF StoredValues
    <2>2. n \in Nodes(nodes)
        BY <2>1, BranchUpdateType
    <2>3. /\ n.kind = "branch"
          /\ \A j \in Nibble : n.branches[j] = IF j = i THEN r ELSE b.branches[j]
        BY ChildReplaced
    <2> HIDE DEF n
    <2>4. n.branches[i] = r /\ \A j \in Nibble : g[n.branches[j]] \in EntrySets
        BY <1>1, <1>7, <2>3
    <2>5. \A v \in Values : <<<<i>> \o k, v>> \in NodeEntries(g, n) <=> <<k, v>> \in g[r]
        BY <2>3, <2>4, BranchEntries
    <2>6. \A v \in Values : <<<<i>> \o k, v>> \notin NodeEntries(Entries(nodes), n)
        BY <1>8, <2>5 DEF g
    <2> QED BY <1>1, <1>8, <2>2, <2>6, NodeDropped DEF n
<1>9. ASSUME NEW k \in Seq(Nibble), Forks(b), Dropped(nodes, ret, k)
      PROVE  Dropped(nodes', ret', <<i>> \o k)
    <2>1. CASE ret.action = "deleted"
        <3>1. Children(b) # {} /\ ~(Cardinality(Children(b)) = 1 /\ b.value = NoValue)
            <4>1. ASSUME Cardinality(Children(b)) = 1, b.value = NoValue PROVE FALSE
                <5>1. PICK m, j \in Children(b) : m # j
                    BY <1>9, <4>1 DEF Forks
                <5>2. IsFiniteSet(Children(b))
                    BY ConstantsAssumption, FS_Subset DEF Children
                <5>3. \E x : Children(b) = {x}
                    BY <4>1, <5>2, FS_Singleton
                <5> QED BY <5>1, <5>3
            <4> QED BY <1>9, <4>1 DEF Forks
        <3>2. ReturnNode(nodes, "updated", <<>>, SetBranch(b, i, EmptyRef))
            BY <1>5, <2>1, <3>1 DEF BranchDeletion, ClearBranch
        <3>3. Inhabited(SetBranch(b, i, EmptyRef))
            BY <3>1, ClearedInhabited DEF ClearBranch
        <3>4. EmptyRef \in Refs(nodes) /\ \A v \in Values : <<k, v>> \notin g[EmptyRef]
            BY <1>1, EntriesType DEF Refs, g
        <3> QED BY <1>8, <3>2, <3>3, <3>4
    <2>2. CASE ret.action # "deleted"
        <3>1. PICK r \in Refs(nodes) : r = ret.ref
            BY <1>1, <1>6, <2>2
        <3>2. r # EmptyRef /\ \A v \in Values : <<k, v>> \notin g[r]
            BY <1>1, <1>6, <1>9, <2>2, <3>1, RefCases DEF Dropped, g
        <3>3. Inhabited(SetBranch(b, i, r))
            <4>1. SetBranch(b, i, r).branches[i] = r
                BY ChildReplaced
            <4>2. i \in Children(SetBranch(b, i, r))
                BY <3>2, <4>1 DEF Children
            <4> QED BY <4>2 DEF Inhabited
        <3> QED BY <1>5, <1>8, <2>2, <3>1, <3>2, <3>3
    <2> QED BY <2>1, <2>2
<1>10. ASSUME NEW k \in Seq(Nibble), Orderly,
              Last(stack).node.kind = "branch" => Forks(Last(stack).node),
              Dropped(nodes, ret, k)
       PROVE  Dropped(nodes', ret', StepPath(Last(stack)) \o k)
    BY <1>1, <1>2, <1>4, <1>9, <1>10 DEF f
<1> QED BY <1>1, <1>5, <1>10, AnswerAboveExactly

\* The invariant is inductive, together with those above.
LEMMA NextExactly ==
    ASSUME NoCollisions
    PROVE  IInv /\ CallInv /\ CallInv' /\ Exactly /\ [Next]_vars => Exactly'
<1> SUFFICES ASSUME IInv, CallInv, CallInv', Exactly, [Next]_vars PROVE Exactly'
    OBVIOUS
<1>1. Within(nodes, nodes')
    BY StepGrows DEF CallInv, Sound, Grown, Within
<1>2. CASE CallGet \/ CallSet \/ CallRemove
    <2>1. /\ pc = "idle" /\ pc' = "node" /\ nodes' = nodes /\ root' = root
          /\ stack' = stack /\ ref' = root
        BY <1>2 DEF CallGet, CallSet, CallRemove, Call
    <2>2. stack = <<>>
        BY <2>1 DEF CallInv
    <2>3. Orderly' => Minimal(nodes, root)
        BY <2>1 DEF Orderly, Minimal
    <2> QED BY <2>1, <2>2, <2>3 DEF Exactly
<1>3. CASE Getting
    <2>1. call.op = "get" /\ call' = call
        BY <1>3, GettingEnds
    <2> QED BY <2>1 DEF Exactly, Orderly
<1>4. CASE Setting
    <2>1. call.op = "set" /\ call' = call
        BY <1>4 DEF Setting, SetEmpty, SetLeaf, SetExtension, SetBranchNode, SetDone, Finish,
           SetExtensionReturn, SetBranchReturn, Visiting, Resuming,
           ReturnNode, ReturnBranch, Return, Recurse, Visit
    <2> QED BY <2>1 DEF Exactly, Orderly
<1>5. CASE Removing
    <2>1. CASE RemoveEmpty \/ DeleteLeaf \/ DeleteExtension \/ DeleteBranch
        BY <1>1, <2>1, DeletingExactly
    <2>2. CASE RemoveDone \/ RemoveFallThrough
        BY <2>2 DEF RemoveDone, RemoveFallThrough, Finish, Undefined, Exactly
    <2> QED BY <1>1, <1>5, <2>1, <2>2, DeleteBranchValueExactly, DeleteExtensionReturnExactly,
               DeleteBranchReturnExactly DEF Removing
<1>6. CASE Reply
    BY <1>6 DEF Reply, Exactly
<1>7. CASE UNCHANGED vars
    <2>1. /\ root' = root /\ nodes' = nodes /\ pc' = pc /\ call' = call /\ ref' = ref
          /\ stack' = stack /\ ret' = ret
        BY <1>7 DEF vars
    <2>2. Contents' = Contents
        BY <2>1 DEF Contents
    <2>3. Clean' <=> Clean
        BY <2>1, <2>2 DEF Clean, ReadsIndeterminate, Present
    <2>4. Orderly' <=> Orderly
        BY <2>1, <2>3 DEF Orderly, Minimal
    <2> QED BY <2>1, <2>4 DEF Exactly, Minimal
<1> QED BY <1>2, <1>3, <1>4, <1>5, <1>6, <1>7 DEF Next, Step, Stopped

\* As long as no branch has been left with a single child, a remove with a
\* defined outcome deletes the entry of its key and no other, and reports an
\* error only for the empty key, at a root branch it would have to collapse.
THEOREM RemovesAreExact ==
    ASSUME NoCollisions, NoEmptyValue
    PROVE  Spec => RemoveIsExactOnCompressedTrie
<1>1. Init => Exactly
    BY DEF Init, Exactly, Orderly, NoCall
<1>2. IInv /\ CallInv /\ CallInv' /\ Exactly /\ [Next]_vars => Exactly'
    BY NextExactly
<1>3. IInv /\ CallInv /\ Exactly /\ [Next]_vars =>
         [Completes("remove") /\ Present(call.key) /\ root = TrieOf(Contents)
            /\ ~ReadsIndeterminate(call.key) =>
             \/ Contents' = Others(call.key)
             \/ call.key = <<>> /\ outcome' = Throw("remove error")]_vars
    <2> SUFFICES ASSUME IInv, CallInv, Exactly, Next, Completes("remove"), Present(call.key),
                        root = TrieOf(Contents), ~ReadsIndeterminate(call.key)
                 PROVE  \/ Contents' = Others(call.key)
                        \/ call.key = <<>> /\ outcome' = Throw("remove error")
        OBVIOUS
    <2>1. CASE RemoveEmpty
        <3>1. Contents = {}
            BY <2>1, EntriesType DEF RemoveEmpty, Contents, CallInv
        <3> QED BY <3>1 DEF Present
    <2>2. CASE DeleteLeaf \/ DeleteExtension \/ DeleteBranch
        BY <2>2, DeletionMissing DEF Completes
    <2>3. CASE RemoveDone
        <3>1. /\ pc = "return" /\ call.op = "remove" /\ stack = <<>> /\ nodes' = nodes
              /\ \/ ret.action = "updated" /\ root' = ret.ref
                 \/ ret.action = "useless" /\ outcome' = Throw("remove error")
                 \/ ret.action = "deleted" /\ root' = EmptyRef
            BY <2>3 DEF RemoveDone, Finish
        <3>2. Orderly
            BY <3>1 DEF Orderly, Clean, Minimal, Contents
        <3>3. PICK rest : /\ Trail(nodes, root, stack, call.key, rest)
                          /\ Dropped(nodes, ret, rest[Len(stack) + 1])
            BY <3>1, <3>2 DEF Exactly
        <3>4. rest[Len(stack) + 1] = call.key
            <4>1. Len(stack) = 0
                BY <3>1
            <4> QED BY <3>3, <4>1 DEF Trail
        <3>5. /\ Contents' \subseteq Contents
              /\ Without(Contents, call.key) \subseteq Contents'
            BY <2>3, RemoveDoneContents DEF Clean
        <3>6. /\ \A e \in Contents : e = <<e[1], e[2]>> /\ e[2] \in Values
              /\ Contents' = Entries(nodes)[root'] /\ Entries(nodes)[EmptyRef] = {}
            <4>1. Contents \in EntrySets
                BY <3>1, LastResult
            <4>2. \A e \in Contents : e = <<e[1], e[2]>> /\ e[2] \in Values
                BY <4>1 DEF EntrySets
            <4> QED BY <3>1, <4>2, EntriesType DEF Contents, CallInv
        <3>7. CASE ret.action = "useless"
            BY <3>1, <3>3, <3>4, <3>7 DEF Dropped
        <3>8. ASSUME \A v \in Values : <<call.key, v>> \notin Contents'
              PROVE  Contents' = Others(call.key)
            <4>1. \A e \in Contents' : e[1] # call.key
                BY <3>5, <3>6, <3>8
            <4> QED BY <3>5, <4>1 DEF Others, Without
        <3>9. CASE ret.action = "updated"
            BY <3>1, <3>3, <3>4, <3>6, <3>8, <3>9 DEF Dropped
        <3>10. CASE ret.action = "deleted"
            BY <3>1, <3>6, <3>8, <3>10
        <3> QED BY <3>1, <3>7, <3>9, <3>10
    <2> QED BY <2>1, <2>2, <2>3, LastHandler
<1> QED BY <1>1, <1>2, <1>3, Invariants, PTL DEF Spec, RemoveIsExactOnCompressedTrie

================================================================================
