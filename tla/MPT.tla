---------------------------------- MODULE MPT ----------------------------------
(* The Merkle Patricia trie of NilCore (libs/nil_core/src/mpt): root_ and      *)
(* nodes_, the public get, set and remove, and the handlers GetNode, SetNode   *)
(* and DeleteNode dispatch to.  One action is one handler applied to one node, *)
(* or one return to the handler below it on the C++ stack, so that an          *)
(* exception is visible between any two of them.                               *)
(*                                                                             *)
(* Abstractions: a Path is a sequence of nibbles; a value is an opaque byte    *)
(* vector of which only the size counts; the SSZ encoding of a node is the     *)
(* node itself.  The constant operator Hash stands for BasicHash, so what      *)
(* collides is chosen by the module that instantiates this one.                *)
EXTENDS Integers, FiniteSets, SequencesExt

CONSTANTS
    Nibble,     \* the values of half a byte: indices of a branch (16 in the code)
    Keys,       \* the keys in use, as the nibbles PathFromKey makes of them
    Values,     \* the values passed to set
    NoValue,    \* the empty byte vector
    ValueSize,  \* the size in bytes of every value
    Ops,        \* the public methods the client calls
    Hash(_)     \* BasicHash of an encoded node

ASSUME ConstantsAssumption ==
    /\ IsFiniteSet(Nibble)
    /\ Keys \subseteq Seq(Nibble)
    /\ Ops \subseteq {"get", "set", "remove"}

VARIABLES
    root,    \* root_, the reference of the root node
    nodes,   \* nodes_: encoded nodes by hash
    pc,      \* where the call is: "idle", "node", "return", "done", "undefined"
    call,    \* the public call being executed
    ref,     \* the node the next handler is applied to
    path,    \* path_: the nibbles not consumed yet
    stack,   \* the set and delete handlers waiting for a recursive call
    ret,     \* the Reference or DeleteResult being returned
    outcome  \* what the caller gets: a value, a normal return, an exception

vars == <<root, nodes, pc, call, ref, path, stack, ret, outcome>>

StoredValues == Values \cup {NoValue}

--------------------------------------------------------------------------------
(* Paths.                                                                      *)

StartsWith(p, q) == IsPrefix(q, p)

Consume(p, n) == SubSeq(p, n + 1, Len(p))

\* The number of leading nibbles on which p and q agree.
CommonLength(p, q) ==
    Cardinality({i \in 1..Len(p) : IsPrefix(SubSeq(p, 1, i), q)})

CommonPrefix(p, q) == SubSeq(p, 1, CommonLength(p, q))

--------------------------------------------------------------------------------
(* Nodes, references and the storage.                                          *)

Leaf(p, v) == [kind |-> "leaf", path |-> p, value |-> v]
Extension(p, next) == [kind |-> "extension", path |-> p, next |-> next]
Branch(refs, v) == [kind |-> "branch", branches |-> refs, value |-> v]

EmptyRef == [tag |-> "empty"]
NoBranches == [i \in Nibble |-> EmptyRef]
Children(b) == {i \in Nibble : b.branches[i] # EmptyRef}
SetBranch(b, i, r) == [b EXCEPT !.branches[i] = r]
ClearBranch(b, i) == SetBranch(b, i, EmptyRef)

\* A node encoded in less than 32 bytes is its own reference.  Only a leaf can
\* be: flag, two 4-byte offsets, the path's prefix byte and full bytes, value.
\* An extension holds the 64-byte hash of a branch, a branch 16 offsets.
Inlined(n) ==
    n.kind = "leaf" /\ 10 + Len(n.path) \div 2 + ValueSize[n.value] < 32

RefTo(n) ==
    IF Inlined(n) THEN [tag |-> "inline", node |-> n]
                  ELSE [tag |-> "hash", key |-> Hash(n)]

\* PutToStorage: whatever was stored under the same hash is overwritten.
Put(store, n) ==
    IF Inlined(n) THEN store
    ELSE [h \in DOMAIN store \cup {Hash(n)} |->
             IF h = Hash(n) THEN n ELSE store[h]]

\* GetFromStorage finds a node for r.
Found(r) == r.tag = "inline" \/ (r.tag = "hash" /\ r.key \in DOMAIN nodes)
NodeAt(store, r) == IF r.tag = "inline" THEN r.node ELSE store[r.key]
Fetch(r) == NodeAt(nodes, r)

--------------------------------------------------------------------------------
(* Calls, returns and exceptions.                                              *)

NoCall == [op |-> "none", key |-> <<>>, value |-> NoValue]
NoResult == [action |-> "none"]
Deleted == [action |-> "deleted"]
Result(action, p, n) == [action |-> action, path |-> p, ref |-> RefTo(n)]

Pending == [status |-> "pending"]
Returned == [status |-> "returned"]
Answer(v) == [status |-> "value", value |-> v]
Throw(what) == [status |-> "throw", what |-> what]

\* The public method ends with outcome o, root_ being r.
Finish(r, o) ==
    /\ pc' = "done"
    /\ root' = r
    /\ outcome' = o
    /\ ref' = EmptyRef /\ path' = <<>> /\ stack' = <<>> /\ ret' = NoResult
    /\ UNCHANGED call

Abandon(what) == Finish(root, Throw(what)) /\ UNCHANGED nodes

\* The handler calls GetNode, SetNode or DeleteNode on r with path p ...
Visit(r, p) ==
    /\ pc' = "node" /\ ref' = r /\ path' = p
    /\ UNCHANGED <<root, nodes, call, ret, outcome>>

\* ... and waits for it with the frame f on the stack,
Recurse(f, r, p) == Visit(r, p) /\ stack' = Append(stack, f)

\* or returns res to the handler below, the storage being s.
Return(s, res) ==
    /\ pc' = "return" /\ nodes' = s /\ ret' = res
    /\ ref' = EmptyRef /\ path' = <<>>
    /\ UNCHANGED <<root, call, outcome>>

\* Mutant of ReturnNode: the node is not stored.
ReturnUnstored(s, action, p, n) == Return(s, Result(action, p, n))

\* Stores n and returns its reference.
ReturnNode(s, action, p, n) == Return(Put(s, n), Result(action, p, n))

\* The handler at the top of the stack gets what it waited for.
Resuming(op, kind) ==
    /\ pc = "return" /\ call.op = op
    /\ stack # <<>> /\ Last(stack).node.kind = kind
    /\ stack' = Front(stack)

\* The visitor of operation op is applied to a node of this kind.  That every
\* reference visited is Found is an invariant (NodeFound), so "Node not found"
\* and "Empty byte array" are not outcomes of a call.
Visiting(op, kind) ==
    pc = "node" /\ call.op = op /\ Found(ref) /\ Fetch(ref).kind = kind

Init ==
    /\ root = EmptyRef /\ nodes = <<>>
    /\ pc = "idle" /\ call = NoCall /\ outcome = Pending
    /\ ref = EmptyRef /\ path = <<>> /\ stack = <<>> /\ ret = NoResult

\* The client calls a public method, which works from the root.
Call(op, k, v) ==
    /\ pc = "idle" /\ op \in Ops
    /\ call' = [op |-> op, key |-> k, value |-> v]
    /\ pc' = "node" /\ ref' = root /\ path' = k
    /\ UNCHANGED <<root, nodes, stack, ret, outcome>>

CallGet == \E k \in Keys : Call("get", k, NoValue)
CallSet == \E k \in Keys, v \in Values : Call("set", k, v)
CallRemove == \E k \in Keys : Call("remove", k, NoValue)

\* The caller takes the outcome.
Reply ==
    /\ pc = "done"
    /\ pc' = "idle" /\ call' = NoCall /\ outcome' = Pending
    /\ UNCHANGED <<root, nodes, ref, path, stack, ret>>

--------------------------------------------------------------------------------
(* GetHandler.  Its recursive calls are tail calls: nothing waits for them.    *)

Give(v) == Finish(root, Answer(v)) /\ UNCHANGED nodes
Missing == Abandon("Key not found")

GetEmpty ==
    /\ pc = "node" /\ call.op = "get" /\ root = EmptyRef
    /\ Abandon("Not initialized MPT")

\* Mutant of GetLeaf: a longer path is taken for the leaf's.
GetLeafByPrefix ==
    /\ Visiting("get", "leaf")
    /\ LET leaf == Fetch(ref) IN
       IF StartsWith(path, leaf.path) THEN Give(leaf.value) ELSE Missing

GetLeaf ==
    /\ Visiting("get", "leaf")
    /\ LET leaf == Fetch(ref) IN
       IF leaf.path = path THEN Give(leaf.value) ELSE Missing

\* Mutant of GetExtension: the extension itself is visited again.
GetExtensionAgain ==
    /\ Visiting("get", "extension")
    /\ Visit(ref, path) /\ UNCHANGED stack

GetExtension ==
    /\ Visiting("get", "extension")
    /\ LET ext == Fetch(ref) IN
       \/ /\ StartsWith(path, ext.path)
          /\ Visit(ext.next, Consume(path, Len(ext.path))) /\ UNCHANGED stack
       \/ ~StartsWith(path, ext.path) /\ Missing

\* At the end of the path the value is returned, the empty one of a branch that
\* has none included.
GetBranch ==
    /\ Visiting("get", "branch")
    /\ LET b == Fetch(ref) IN
       \/ path = <<>> /\ Give(b.value)
       \/ /\ path # <<>> /\ Head(path) \in Children(b)
          /\ Visit(b.branches[Head(path)], Tail(path)) /\ UNCHANGED stack
       \/ path # <<>> /\ Head(path) \notin Children(b) /\ Missing

--------------------------------------------------------------------------------
(* SetHandler.  It returns a Reference: an "updated" result.                   *)

\* Mutant of AddLeaf: the nibble of the branch stays in the path of the leaf.
AddLeafUnconsumed(b, p, v) ==
    IF p = <<>> THEN b
    ELSE [store |-> Put(b.store, Leaf(p, v)),
          refs |-> [b.refs EXCEPT ![Head(p)] = RefTo(Leaf(p, v))]]

\* Mutant of AddLeaf: the leaf is not stored.
AddLeafUnstored(b, p, v) ==
    IF p = <<>> THEN b
    ELSE [b EXCEPT !.refs[Head(p)] = RefTo(Leaf(Tail(p), v))]

\* A branch under construction is a record of the storage and its references.
\* CreateBranchLeaf: nothing is added for an empty path.
AddLeaf(b, p, v) ==
    IF p = <<>> THEN b
    ELSE LET leaf == Leaf(Tail(p), v) IN
         [store |-> Put(b.store, leaf),
          refs |-> [b.refs EXCEPT ![Head(p)] = RefTo(leaf)]]

\* Mutant of AddExtension: also for the last nibble an extension is created.
AddEmptyExtension(b, p, next) ==
    LET ext == Extension(Tail(p), next) IN
    [store |-> Put(b.store, ext), refs |-> [b.refs EXCEPT ![Head(p)] = RefTo(ext)]]

\* CreateBranchExtension: an extension of no nibble is not created.
AddExtension(b, p, next) ==
    IF Len(p) = 1 THEN [b EXCEPT !.refs[Head(p)] = next]
    ELSE LET ext == Extension(Tail(p), next) IN
         [store |-> Put(b.store, ext),
          refs |-> [b.refs EXCEPT ![Head(p)] = RefTo(ext)]]

\* The new branch with value v is returned, behind an extension if the two
\* paths that part in it have a prefix p in common.
ReturnBranch(b, v, p) ==
    LET branch == Branch(b.refs, v)
        store  == Put(b.store, branch)
    IN  /\ IF p = <<>> THEN Return(store, Result("updated", <<>>, branch))
           ELSE ReturnNode(store, "updated", <<>>, Extension(p, RefTo(branch)))
        /\ UNCHANGED stack

\* CreateBranchNode: the value of the path that ends at the new branch.  The two
\* cannot both end there, which CreateBranchNode rejects as an invalid action.
EndingValue(p, v, q, w) ==
    IF p = <<>> THEN v ELSE IF q = <<>> THEN w ELSE NoValue

NewBranch == [store |-> nodes, refs |-> NoBranches]

SetEmpty ==
    /\ pc = "node" /\ call.op = "set" /\ ref = EmptyRef
    /\ ReturnNode(nodes, "updated", <<>>, Leaf(path, call.value))
    /\ UNCHANGED stack

SetLeaf ==
    /\ Visiting("set", "leaf")
    /\ LET leaf == Fetch(ref)
           common == CommonPrefix(path, leaf.path)
           mine == Consume(path, Len(common))
           theirs == Consume(leaf.path, Len(common))
       IN  \/ /\ leaf.path = path
              /\ ReturnNode(nodes, "updated", <<>>, Leaf(path, call.value))
              /\ UNCHANGED stack
           \/ /\ leaf.path # path
              /\ ReturnBranch(AddLeaf(AddLeaf(NewBranch, mine, call.value),
                                      theirs, leaf.value),
                              EndingValue(mine, call.value, theirs, leaf.value),
                              common)

SetExtension ==
    /\ Visiting("set", "extension")
    /\ LET ext == Fetch(ref)
           common == CommonPrefix(path, ext.path)
           mine == Consume(path, Len(common))
           theirs == Consume(ext.path, Len(common))
       IN  \/ /\ StartsWith(path, ext.path)
              /\ Recurse([node |-> ext], ext.next, Consume(path, Len(ext.path)))
           \/ /\ ~StartsWith(path, ext.path)
              /\ ReturnBranch(AddExtension(AddLeaf(NewBranch, mine, call.value),
                                           theirs, ext.next),
                              IF mine = <<>> THEN call.value ELSE NoValue,
                              common)

SetBranchNode ==
    /\ Visiting("set", "branch")
    /\ LET b == Fetch(ref) IN
       \/ /\ path = <<>>
          /\ ReturnNode(nodes, "updated", <<>>, [b EXCEPT !.value = call.value])
          /\ UNCHANGED stack
       \/ /\ path # <<>>
          /\ Recurse([node |-> b, idx |-> Head(path)],
                     b.branches[Head(path)], Tail(path))

\* Mutant of SetExtensionReturn: the child takes the place of the extension.
SetExtensionReturnChild ==
    /\ Resuming("set", "extension")
    /\ Return(nodes, ret)

SetExtensionReturn ==
    /\ Resuming("set", "extension")
    /\ ReturnNode(nodes, "updated", <<>>,
                  Extension(Last(stack).node.path, ret.ref))

SetBranchReturn ==
    /\ Resuming("set", "branch")
    /\ ReturnNode(nodes, "updated", <<>>,
                  SetBranch(Last(stack).node, Last(stack).idx, ret.ref))

SetDone ==
    /\ pc = "return" /\ call.op = "set" /\ stack = <<>>
    /\ Finish(ret.ref, Returned) /\ UNCHANGED nodes

--------------------------------------------------------------------------------
(* DeleteHandler and remove.                                                   *)

\* Mutant of LastBranchNode: the nibble of the branch is lost.
LastBranchNodeAlone(b, i) == Fetch(b.branches[i])

\* BuildNewNodeFromLastBranch: the node that replaces a branch of one child i.
LastBranchNode(b, i) ==
    LET child == Fetch(b.branches[i]) IN
    CASE child.kind = "leaf" -> Leaf(<<i>> \o child.path, child.value)
      [] child.kind = "extension" -> Extension(<<i>> \o child.path, child.next)
      [] child.kind = "branch" -> Extension(<<i>>, b.branches[i])

\* Mutant of BranchDeletion: a branch that stays keeps the deleted child.
BranchDeletionKeeping(b, idx) ==
    LET live == Children(b)
        last == LastBranchNode(b, CHOOSE i \in live : TRUE)
    IN  IF Cardinality(live) = 1 /\ b.value = NoValue
        THEN ReturnNode(nodes, "useless", last.path, last)
        ELSE ReturnNode(nodes, "updated", <<>>, b)

\* HandleBranchDeletion.  The child at idx that was deleted is still counted.
BranchDeletion(b, idx) ==
    LET live == Children(b)
        last == LastBranchNode(b, CHOOSE i \in live : TRUE)
    IN  CASE live = {} /\ b.value = NoValue -> Return(nodes, Deleted)
          [] live = {} /\ b.value # NoValue ->
                 ReturnNode(nodes, "useless", <<>>, Leaf(<<>>, b.value))
          [] Cardinality(live) = 1 /\ b.value = NoValue ->
                 ReturnNode(nodes, "useless", last.path, last)
          [] OTHER -> ReturnNode(nodes, "updated", <<>>, ClearBranch(b, idx))

\* An out-of-range write or a read of an empty optional: the process aborts, or
\* goes on with bytes that no node is stored under and every call throws.
Undefined ==
    /\ pc' = "undefined"
    /\ ref' = EmptyRef /\ path' = <<>> /\ stack' = <<>> /\ ret' = NoResult
    /\ UNCHANGED <<root, nodes, call, outcome>>

\* An empty trie has nothing to remove, and does not say so.
RemoveEmpty ==
    /\ pc = "node" /\ call.op = "remove" /\ root = EmptyRef
    /\ Finish(root, Returned) /\ UNCHANGED nodes

DeleteLeaf ==
    /\ Visiting("remove", "leaf")
    /\ \/ path = Fetch(ref).path /\ Return(nodes, Deleted) /\ UNCHANGED stack
       \/ path # Fetch(ref).path /\ Missing

DeleteExtension ==
    /\ Visiting("remove", "extension")
    /\ LET ext == Fetch(ref) IN
       \/ /\ StartsWith(path, ext.path)
          /\ Recurse([node |-> ext], ext.next, Consume(path, Len(ext.path)))
       \/ ~StartsWith(path, ext.path) /\ Missing

DeleteBranch ==
    /\ Visiting("remove", "branch")
    /\ LET b == Fetch(ref) IN
       \/ path = <<>> /\ b.value = NoValue /\ Missing
       \/ /\ path # <<>> /\ Head(path) \notin Children(b) /\ Missing
       \/ /\ path # <<>> /\ Head(path) \in Children(b)
          /\ Recurse([node |-> b, idx |-> Head(path)],
                     b.branches[Head(path)], Tail(path))

\* The value of a branch is deleted with idx uninitialised: when the branch
\* stays, the child cleared is any of them, or lies outside the vector.
DeleteBranchValue ==
    /\ Visiting("remove", "branch")
    /\ path = <<>> /\ Fetch(ref).value # NoValue
    /\ \/ /\ \E idx \in Nibble :
                BranchDeletion([Fetch(ref) EXCEPT !.value = NoValue], idx)
          /\ UNCHANGED stack
       \/ Cardinality(Children(Fetch(ref))) > 1 /\ Undefined

\* Mutant of MergedExtension: the path of the extension is lost.
MergedExtensionAlone(ext) == Fetch(ret.ref)

\* handleUselessBranch: the node that takes the place of the extension ext.
MergedExtension(ext) ==
    LET child == Fetch(ret.ref) IN
    CASE child.kind = "leaf" -> Leaf(ext.path \o child.path, child.value)
      [] child.kind = "extension" -> Extension(ext.path \o child.path, child.next)
      [] child.kind = "branch" -> Extension(ext.path \o ret.path, ret.ref)

DeleteExtensionReturn ==
    /\ Resuming("remove", "extension")
    /\ LET ext == Last(stack).node IN
       \/ ret.action = "deleted" /\ Return(nodes, Deleted)
       \/ /\ ret.action = "updated"
          /\ ReturnNode(nodes, "updated", <<>>, Extension(ext.path, ret.ref))
       \/ /\ ret.action = "useless"
          /\ ReturnNode(nodes, "updated", <<>>, MergedExtension(ext))

DeleteBranchReturn ==
    /\ Resuming("remove", "branch")
    /\ LET b == Last(stack).node
           idx == Last(stack).idx
       IN  \/ ret.action = "deleted" /\ BranchDeletion(b, idx)
           \/ /\ ret.action \in {"updated", "useless"}
              /\ ReturnNode(nodes, "updated", <<>>, SetBranch(b, idx, ret.ref))

\* Mutant of RemoveDone: root_ is assigned before the exception.
RemoveDoneThrowingLate ==
    /\ pc = "return" /\ call.op = "remove" /\ stack = <<>>
    /\ UNCHANGED nodes
    /\ \/ ret.action = "updated" /\ Finish(ret.ref, Returned)
       \/ ret.action = "useless" /\ Finish(ret.ref, Throw("remove error"))
       \/ ret.action = "deleted" /\ Finish(EmptyRef, Returned)

\* The end of remove.  A useless root branch reaches the default label.  A
\* deleted root falls through to the assignment from the missing info.
RemoveDone ==
    /\ pc = "return" /\ call.op = "remove" /\ stack = <<>>
    /\ UNCHANGED nodes
    /\ \/ ret.action = "updated" /\ Finish(ret.ref, Returned)
       \/ ret.action = "useless" /\ Finish(root, Throw("remove error"))
       \/ ret.action = "deleted" /\ Finish(EmptyRef, Returned)

RemoveFallThrough ==
    /\ pc = "return" /\ call.op = "remove" /\ stack = <<>>
    /\ ret.action = "deleted" /\ Undefined

--------------------------------------------------------------------------------

Getting == GetEmpty \/ GetLeaf \/ GetExtension \/ GetBranch

Setting ==
    \/ SetEmpty \/ SetLeaf \/ SetExtension \/ SetBranchNode
    \/ SetExtensionReturn \/ SetBranchReturn \/ SetDone

Removing ==
    \/ RemoveEmpty \/ DeleteLeaf \/ DeleteExtension
    \/ DeleteBranch \/ DeleteBranchValue
    \/ DeleteExtensionReturn \/ DeleteBranchReturn
    \/ RemoveDone \/ RemoveFallThrough

\* After undefined behaviour nothing more is described.
Stopped == pc = "undefined" /\ UNCHANGED vars

Step == Getting \/ Setting \/ Removing \/ Reply

Next == CallGet \/ CallSet \/ CallRemove \/ Step \/ Stopped

Spec == Init /\ [][Next]_vars

\* The caller and the trie are one thread: a call that has begun goes on.
LiveSpec == Spec /\ WF_vars(Step)

--------------------------------------------------------------------------------
(* Types, relative to a storage: a hash is a reference when it is stored.      *)

Leaves == [kind : {"leaf"}, path : Seq(Nibble), value : Values]

NodeRefs(store) ==
    [tag : {"inline"}, node : Leaves] \cup [tag : {"hash"}, key : DOMAIN store]

Refs(store) == {EmptyRef} \cup NodeRefs(store)

Extensions(store) ==
    [kind : {"extension"}, path : Seq(Nibble), next : NodeRefs(store)]

Branches(store) ==
    [kind : {"branch"}, branches : [Nibble -> Refs(store)], value : StoredValues]

Nodes(store) == Leaves \cup Extensions(store) \cup Branches(store)

Frames(store) ==
    [node : Extensions(store)] \cup [node : Branches(store), idx : Nibble]

Updates(store) ==
    [action : {"updated", "useless"}, path : Seq(Nibble), ref : NodeRefs(store)]

\* Every variable has its type, and every reference in a stored node, in root_
\* and on the stack of the running call is one GetFromStorage can follow.
TypeOK ==
    /\ \A h \in DOMAIN nodes : nodes[h] \in Nodes(nodes)
    /\ root \in Refs(nodes)
    /\ ref \in Refs(nodes)
    /\ path \in Seq(Nibble)
    /\ stack \in Seq(Frames(nodes))
    /\ pc \in {"idle", "node", "return", "done", "undefined"}
    /\ call.op \in Ops \cup {"none"} /\ call.key \in Seq(Nibble)
    /\ call.value \in IF call.op = "set" THEN Values ELSE StoredValues
    /\ pc \in {"node", "return"} => call.op # "none"
    /\ pc = "return" =>
          IF call.op = "set" THEN ret \in Updates(nodes) /\ ret.action = "updated"
          ELSE ret \in Updates(nodes) \cup {Deleted}

\* A call never fails with "Node not found" or "Empty byte array": the reference
\* a handler is about to follow is stored or inlined, or it is an empty one
\* where set creates a leaf, or get and remove stop at an empty root_.
NodeFound ==
    pc = "node" =>
        \/ Found(ref)
        \/ ref = EmptyRef /\ (call.op = "set" \/ root = EmptyRef)

\* Nothing stored is lost or overwritten, so that a root reference taken before
\* any number of calls still denotes the same entries.
StorageOnlyGrows ==
    [][\A h \in DOMAIN nodes :
          h \in DOMAIN nodes' /\ nodes'[h] = nodes[h]]_vars

================================================================================
