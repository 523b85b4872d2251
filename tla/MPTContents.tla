------------------------------ MODULE MPTContents ------------------------------
(* What the trie promises its callers, in terms of the entries the nodes below *)
(* root_ denote.                                                               *)
EXTENDS MPT

Prefixed(p, E) == {<<p \o e[1], e[2]>> : e \in E}

\* The entries a node stands for, when E has those of its references.
NodeEntries(E, n) ==
    CASE n.kind = "leaf" -> {<<n.path, n.value>>}
      [] n.kind = "extension" -> Prefixed(n.path, E[n.next])
      [] n.kind = "branch" ->
            (UNION {Prefixed(<<i>>, E[n.branches[i]]) : i \in Nibble})
            \cup {<<<<>>, v>> : v \in {n.value} \ {NoValue}}

\* The <<key, value>> pairs below every reference to a storage.
Entries(store) ==
    LET E[r \in Refs(store)] ==
            IF r = EmptyRef THEN {} ELSE NodeEntries(E, NodeAt(store, r))
    IN  E

Contents == Entries(nodes)[root]
Present(k) == \E e \in Contents : e[1] = k
Others(k) == {e \in Contents : e[1] # k}

\* Sets of entries no longer than those of E.
NoLongerThan(E) ==
    {D \in SUBSET (Seq(Nibble) \X Values) :
        \A d \in D : \E e \in E : Len(d[1]) <= Len(e[1])}

\* What is left of the entries of E whose keys start with p.
Below(E, p) == {<<Consume(e[1], Len(p)), e[2]>> : e \in {d \in E : StartsWith(d[1], p)}}

\* The root of the compressed trie of the entries E, in which no two nodes could
\* be merged, when T has those of the sets below it.
CompressedRoot(T, E) ==
    LET paths == {e[1] : e \in E}
        common == LongestCommonPrefix(paths)
        only == CHOOSE e \in E : TRUE
    IN  CASE E = {} -> EmptyRef
          [] Cardinality(E) = 1 -> RefTo(Leaf(only[1], only[2]))
          [] Cardinality(E) > 1 /\ common # <<>> ->
                RefTo(Extension(common, T[Below(E, common)]))
          [] OTHER ->
                RefTo(Branch([i \in Nibble |-> T[Below(E, <<i>>)]],
                             IF <<>> \in paths
                             THEN CHOOSE v \in Values : <<<<>>, v>> \in E
                             ELSE NoValue))

\* The compressed trie of a set of entries.
TrieOf(E) ==
    LET T[D \in NoLongerThan(E)] == CompressedRoot(T, D) IN T[E]

\* remove(k) would clear a child of a branch with an uninitialised index: k has
\* a value, and the stored keys that extend it part right behind it.
ReadsIndeterminate(k) ==
    /\ Present(k)
    /\ \E d, e \in Contents :
          /\ IsStrictPrefix(k, d[1]) /\ IsStrictPrefix(k, e[1])
          /\ d[1][Len(k) + 1] # e[1][Len(k) + 1]

Completes(op) == call.op = op /\ pc # "done" /\ pc' = "done"

--------------------------------------------------------------------------------

\* A get gives the value stored under its key and throws only for a key that is
\* absent.  An absent key yields an empty value only where it is the prefix of
\* a stored one: there the path ends at a branch without a value.
GetReadsContents ==
    pc = "done" /\ call.op = "get" =>
        IF outcome.status = "throw" THEN ~Present(call.key)
        ELSE \/ <<call.key, outcome.value>> \in Contents
             \/ /\ outcome.value = NoValue /\ ~Present(call.key)
                /\ \E e \in Contents : StartsWith(e[1], call.key)

\* From whatever shape earlier calls left the trie in, a set returns, its key
\* has the new value and every other key what it had: splitting leaves and
\* extensions loses and moves nothing.
SetIsExact ==
    [][Completes("set") =>
          /\ outcome' = Returned
          /\ Contents' = Others(call.key) \cup {<<call.key, call.value>>}]_vars

\* The trie depends on its entries only, never on the order of the sets that
\* made it: two clients that store the same entries get the same root hash.
HistoryIndependent == pc \in {"idle", "done"} => root = TrieOf(Contents)

\* A remove, whether it succeeds or throws, keeps every other entry, but for the
\* value of a branch with several children (see DeleteBranchValue).
RemoveSparesOthers ==
    [][Completes("remove") /\ ~ReadsIndeterminate(call.key) =>
          (Others(call.key))' = Others(call.key)]_vars

\* remove says "Key not found" only of a key that is absent, and it changes
\* nothing whenever it throws.
RemoveThrowsCleanly ==
    [][Completes("remove") /\ outcome'.status = "throw" =>
          /\ root' = root
          /\ outcome'.what = "Key not found" => ~Present(call.key)]_vars

\* As long as no branch has been left with a single child, remove deletes its
\* key: what goes wrong later starts from the branches it does not collapse.
RemoveIsExactOnCompressedTrie ==
    [][Completes("remove") /\ Present(call.key) /\ root = TrieOf(Contents)
         /\ ~ReadsIndeterminate(call.key) =>
          \/ Contents' = Others(call.key)
          \/ call.key = <<>> /\ outcome' = Throw("remove error")]_vars

\* The trie holds keys that were set and no others, also after merging nodes.
NoPhantomKeys == \A e \in Contents : e[1] \in Keys

\* The map the callers see: the trie's entries, the calls without the steps the
\* handlers take, and an exception of get as the report of an absent key.  So is
\* the empty value, that get gives for an absent key which is a prefix of others.
Absent == "absent"

MapOf(E) ==
    [k \in Keys |-> IF \E e \in E : e[1] = k
                    THEN (CHOOSE e \in E : e[1] = k)[2] ELSE Absent]

Map == INSTANCE KVMap WITH
    map <- LET E == Contents IN MapOf(E),
    state <- IF pc \in {"node", "return"} THEN "busy" ELSE pc,
    call <- CASE call.op = "get" -> <<"get", call.key>>
              [] call.op = "set" -> <<"set", call.key, call.value>>
              [] OTHER -> <<>>,
    outcome <- CASE outcome.status = "value" /\ outcome.value = NoValue -> Absent
                 [] outcome.status = "value" /\ outcome.value # NoValue -> outcome.value
                 [] outcome.status = "throw" -> Absent
                 [] OTHER -> outcome.status

\* get and set implement a map of values that are not empty: each takes effect
\* at once, when it completes, and each is answered.
IsMap == Map!Spec

\* Every call returns to its caller unless undefined behaviour stops it: the
\* descent ends, whatever chain of nodes it follows.
EveryCallReturns == pc # "idle" ~> pc \in {"idle", "undefined"}

--------------------------------------------------------------------------------
(* What the tests of the trie (tests/libs/nil_core/test_nil_core_mpt.cpp) say  *)
(* of every key, and the code does not do for some.                            *)

\* "Can't access removed": after a remove that returned, the key is absent.
RemovedIsGone ==
    pc = "done" /\ call.op = "remove" /\ outcome = Returned => ~Present(call.key)

\* "Can access existing": a remove keeps all other keys.
ExistingStayAccessible ==
    [][Completes("remove") => (Others(call.key))' = Others(call.key)]_vars

================================================================================
