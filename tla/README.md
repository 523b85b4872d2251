# zkEVM framework: TLA+ models and proofs

This directory holds TLA+ models of the zkEVM framework, the TLC runs that check
them on small instances, and TLAPS proofs of what matters most for every
instance. Paths below are relative to `src/`; `mpt.cpp`, `path.cpp` and so on are
the files named in the inventory.

    tlc -workers 2 -config MCMPT_full.cfg MCMPT      # a model-checking run
    tlapm MPTProofs.tla                              # a proof

`PROJECT.json` lists the runs, the theorems, the source lines every definition
stands for, the hazards of the code, and for each checked property a mutation of
the model that breaks it.

## 1. Inventory

The framework turns a block of the =nil; network into the assignment tables of a
zk circuit. The C++ programs are single-threaded; the hard behaviours are
failures in the middle of an operation, long sequences of calls, stale or
uninitialised values, sizes at their borders, a network peer that may do
anything at any moment, and scripts that are interrupted.

    block_generator.py --(files)--> assigner --(files)--> proof producer
          |                            |
        nild, nil, solc        RPC node (HTTP), EVM library
                                       |
                              NilCore types, MPT

| component | state | operations | what makes it correct |
|---|---|---|---|
| **MPT** `libs/nil_core/src/mpt/{mpt,node}.cpp` | `root_`, `nodes_` (encoded nodes by hash) | `get`, `set`, `remove`, as recursive visitors of leaf, extension and branch nodes | behaves as a map; old roots stay readable; the root reference depends on the entries alone; a throwing call changes nothing; every call returns |
| **Path** `libs/nil_core/src/mpt/path.cpp` | `data_`, `offset_` | construction, `Consume`, `CommonPrefix`, `+`, `==`, `StartsWith`, (de)serialisation | acts as a sequence of nibbles; equal paths have equal encodings |
| **NilCore types** `core/types/*.hpp` | plain records | SSZ (de)serialisation by a library | values stay in the range of their fields |
| **assigner program** `bin/assigner/src/main.cpp` | the parsed options, the tables | options, load block, load state, run, write, check | exit code 0 means the table is written |
| **runner and host** `libs/assigner_runner/src/runner.cpp`, `ext_vm_host.hpp` | block, messages, accounts, table | `fill_assignments`, `run`, `get_account`, the host callbacks of the EVM | every message evaluated once, in order, with the code its recipient had before the block; effects on accounts are never lost |
| **block and state parsers** `block_parser.cpp`, `state_parser.cpp`, `utils.cpp` | what is loaded so far | schema validation, conversion of fields, files and replies | what is loaded is what the document says; a file that satisfies its schema is loaded; loading ends |
| **RPC client** `libs/rpc/data_extractor.cpp`, the client of `httplib.h` | socket, buffer, response, error | `eth_getBlockByHash`, `debug_getContract`: one POST each | one answer, whole or an error; no socket left; the call ends |
| **JSON helpers** `libs/json_helpers` | the parser, the position in the stream | parse, validate, hexadecimal | errors reported, parsing ends |
| **preset** `preset.hpp` | circuits, tables | `initialize_circuits` | a table for each target circuit |
| **binary writer** `write_assignments.hpp` | the file of one table | header, columns padded | a reader of the format gets the table back |
| **output artifacts** `output_artifacts.cpp` | ranges of rows and columns | parse, print and concretise ranges; print chosen tables, rows, columns | prints what the options select, refuses only what is not there |
| **block generator** `block_generator.py` | the cluster process, the artifacts directory, output files, the config of the CLI | make-config, generate-block | cleans up after itself; block and state belong together |
| **external** | | VMHost and `evaluate` (nil-evm-assigner), crypto3, blueprint, evmc, sszpp, Boost, valijson, solc, nild, nil | modelled only by how the code uses them |

Interactions. `main()` calls the runner, the runner the parsers, the RPC client
and `evaluate()`; `evaluate()` calls back into the host, which may call the RPC
node in the middle of an execution. The binary and text writers read the tables
the execution filled. The MPT is used by its tests only at this commit: nothing
in the assigner calls it yet, so its composition with the rest has no code to be
modelled from. The block generator writes the files the assigner reads.

## 2. Modules and the code they stand for

| module | of | stands for | uses |
|---|---|---|---|
| `MPT`, `MPTContents`, `KVMap` | trie | handlers; what the trie holds; the abstract map | `MPT` implements `KVMap` |
| `Path`, `NibbleSeq` | path | the class; the abstract sequence | `Path` implements `NibbleSeq` |
| `Assigner` | program, runner, host, preset | one run of the program | takes the loaders, the client and the writers by their outcomes |
| `Loader` | JSON helpers, parsers, types | one document from its bytes to its objects | |
| `Rpc`, `HttpText`, `HttpClient` | RPC client | the promise of a call; the text of a response; the call | `HttpClient` implements `Rpc` |
| `Ranges`, `Output` | artifacts, binary writer | options of rows and columns; files and prints | `Output` extends `Ranges` |
| `BlockGenerator` | block generator | runs of the script, one after the other | |

Each `MC...` module instantiates the one it is named after, and each
`...Proofs` module holds its theorems; `Recursion` holds what these need to reason
about loops and recursive functions. Definitions that are not used by any
specification, such as `MakeDirectoryFirst`, are the mutations of
`PROJECT.json`: forms a plausible mistake in the code would give.

### MPT

`MPT` has `root` and `nodes` for the two fields of `MerklePatriciaTrie`, and
makes the C++ stack explicit: `pc`, `ref` and `path` (the arguments of the
handler being called), `stack` (the set and delete handlers that wait for a
recursive call, with what they hold in their locals), `ret` (the `Reference` or
`DeleteResult` being returned) and `outcome` (what the caller gets). An action
is one handler applied to one node (`GetLeaf`, `SetExtension`, `DeleteBranch`,
...), one return into a waiting handler (`SetBranchReturn`,
`DeleteExtensionReturn`, ...), or the end of a public method (`SetDone`,
`RemoveDone`). So the state between any two `PutToStorage` calls of different
handlers is visible, and an exception from any of them leaves the state it would
leave in the program.

Kept: every branch of every handler, what is stored, which exceptions are
thrown, the order of clearing and counting in `HandleBranchDeletion`, the missing
`break` of `remove()`, the uninitialised `idx`. Abstracted: a path is its nibble
sequence (justified by `Path` below); a value is an opaque vector with a size,
which decides whether a leaf is inlined; an encoded node is the node itself. The
hash is a constant operator, so an instance decides what collides.

Undefined behaviour is a choice. The uninitialised `idx` (mpt.cpp:245) is any
nibble, or lies outside the vector; the write outside it, and the reading of an
empty optional (mpt.cpp:467), lead to the state "undefined", after which nothing
is claimed, or, for the fall-through of `remove`, to a root that was just
cleared.

`MPTContents` says what the trie promises in terms of the entries below
`root_`: `Entries(store)` is a recursive function over the references of a
storage, `TrieOf(E)` one over sets of entries, the root of the one trie of `E` in
which no two nodes could be merged. `ReadsIndeterminate` says in terms of the
entries alone when `remove` reads `idx` before it is set: the key has a value, and
stored keys go on behind it with different nibbles. `KVMap` is the abstract map: a
call is a request, one atomic effect, a reply; `Safety` is that without its
fairness.

### Path

`Path` has two path objects, each with `data_` (bytes) and `offset_`, and one
action per operation of the class: packing of odd and even lengths, `Consume` by
moving the offset over data that stays, the prefix byte that remains in `data_`
after deserialisation. `Consume` has no bound in the code; it is enabled as its
callers use it, after `StartsWith` or after `at(0)`. `NibbleSeq` is what `MPT`
takes a path for: a sequence. That `Path` implements `NibbleSeq` is what lets
`MPT` use sequences of nibbles.

### Assigner

One program run, from options to exit code. `pc` is the step of `main()` or of
the loop in `fill_assignments()`; `prevBlock`, `price`, `messages` are fields of
`m_current_block` and `m_input_messages`; `accounts` those of the host; `next`,
`size`, `code`, `gas` the locals of the loop; `table`, `files`, `exported` what
was computed, written and printed; `errors` what the log says of failed fetches.

| action | code |
|---|---|
| `ParseOptions` | `main()`, `from_program_options`; the line itself may be `--help`, hold an unknown option, or a malformed value |
| `LoadBlock`, `LoadAccounts` | `extract_block_with_messages`, `extract_accounts_with_storage` |
| `SkipMessage`, `TakeMessage`, `DivideByZero`, `CopyCode`, `Evaluated`, `EndOfMessages` | the loop of `fill_assignments`, `run` |
| `MakeHost`, `InitializeBytecode`, `TargetCircuit` | the host of each message, `initialize_circuits` |
| `CallHost`, `HostThrows` | the EVM's calls to the host, `get_account` |
| `WriteBinary`, `WriteArtifacts`, `Check` | `write_binary_assignments`, `write_output_artifacts`, the end of `curve_dependent_main` |

A run begins with any command line in `Options`, which also names the condition
of the files: readable, missing, malformed, a directory, or a block whose parent
hash is not hexadecimal ("unparented"). The node answers with the state of the
block it is asked for, does not answer, or answers in another form (an exception
inside a `noexcept` function, which ends the process). Fields the parsers leave
unset have any value. Which rows and columns are written, the text of messages,
and conversions of numbers are those of `Output` and `Loader`.

External assumptions: `evaluate()` is a sequence of at most `MaxGas` calls to the
host, each reading an account or changing one; no call of this version's host
changes an account's code; whatever status it returns, the runner goes on. The
preset knows no other circuit than "bytecode". `--log-level` and `--version` are
left out, and so is the satisfiability check, whose outcome changes only a line
of the log.

### Loader

One document: a block file, a state file, or the reply to one of the two
requests. A JSON value is a record tagged with what it is; a text in it is known
by its form (which regular expressions of the schemas it matches), by the number
it reads as and by what its digits stand for. `Read` is one round of the loop of
`parse_json`: a chunk of 255 bytes (`Chunk`) is taken as a C string, so that what
follows a NUL in it is dropped, and the loop ends only at the end of the stream. Then come the schema (files only), and the handlers item by item
(`HandleBlock`, `HandleMessage`, `HandleAccount`, `HandleStorage`, or
`LoadRawBlock`, `LoadRawMessage`, `LoadRawAccount`), each with the errors and the
exceptions of the conversions it calls. Numbers keep their widths (`WordMax` for
64 bits, `WideMax` for 256). A parent hash shorter than the array leaves the rest
as it was, a longer one overruns it (`OverrunHash`: the outcome of undefined
behaviour, and nothing is claimed afterwards).

What the parser can deliver is a named assumption (`Document`): members and
items as deep as the loader looks, of one sort each, a signed number never beyond
the unsigned ones; and a JSON text holds no NUL. `LoadedIsDescribed` states what is
loaded of a reply only for numbers that fit: `intx::from_string` lets a long decimal
number wrap, and a reply has no schema that would keep one out.

### Rpc, HttpText, HttpClient

`Rpc` is the promise: a call gets one answer, which is all of the content if the
response says where it ends, a part of its beginning if it does not, or an error.
The status plays no role, as `data_extractor` does not look at it. A NUL in the
reason phrase of the status line, where the library's `regex_match` on a C string
stops (httplib.h:7219), is not told apart from other bytes: no property depends on
the reason.

`HttpClient` follows `Client::Post` in the vendored library as `data_extractor`
uses it, from `getaddrinfo` to the destructor: addresses tried in turn, each with
a socket, a non-blocking connect and a wait (`Resolve` ... `ConnectFails`); the
head of the request, written to a buffer and then sent in parts, and its body
(`Send`, `SendFails`, `BrokenPipe`); lines read byte by byte through the buffer of
`SocketStream` (`GetLine`, `ReadResponseLine`, `ReadHeaders`); the three ways a
body is delimited, one read at a time (`ReadContentWithLength`, `ReadChunk`,
`ReadContentWithoutLength`); and the closing of the socket, which has three
places (`HandleResponse`, `FinishRequest`, `DestroyClient`). The node is the
environment: it may deliver any part of its response at any time, also before the
request is complete, and close or reset the connection at any point (`Deliver`,
`PeerCloses`, `PeerResets`); a `select()` may time out whenever it would wait.
`HttpText` is what the library makes of the text: lines are sequences of bytes,
header values are percent-decoded, names are compared in lower case, numbers end
where their digits do. Options that the framework leaves off (TLS, redirects,
proxy, authentication, decompression, keep-alive) are left out where a default
decides the branch.

### Ranges, Output

`Ranges` has `Range::parse`, `to_string`, `concrete_range` and the same for
`Ranges`, as operators with three outcomes (value, error, exception), and with
the conversions between `int` and `size_t`. `Output` parses the options for
tables, rows and columns, then writes a file per table word by word (`OpenFile`,
`WriteHeader`, `WriteSectionSize`, `WriteNextColumn`) and prints the parts asked
for (`ExportTable`). `Width` is that of the 32-bit numbers in a header, `Asserts`
says whether the program is compiled with assertions, since the conversion of
every number is inside of an `assert`. A disk may fill at any point
(`DiskFills`): nobody looks at the stream.

### BlockGenerator

Runs of the script in one working directory. `pc` is the place in `main` of
either mode; `exc` the exception on its way out; `nild` and `port` the clusters
and who listens; `chain` the calls that were executed; `config`, `artifacts`,
`blockFile`, `stateFile` what the disk holds; `deployed`, `submitted`, `last`,
`hash` the locals. `Leave` maps a place to where an exception leads from there:
the `finally` of `temp_directory`, the `__exit__` of `ClusterProcess`, the end. Every
command and request may fail; `Interrupt` is a `KeyboardInterrupt` at any place,
`Kill` ends the script without leaving a scope, `Listen` and `End` are those of
nild, which may come up late, never, or lose its port to an older one. What one
run leaves behind is what the next one finds.

External assumptions: the chain outlives a cluster (the wallet that make-config
creates in one is used in the next); a call that gets its receipt is executed in a
block of its own; commands and requests return.

## 3. What the runs show

Passing runs (distinct states; seven to eight minutes all together):

| run | states | question |
|---|---|---|
| `full` | 209,013 | All sequences of get, set and remove over six keys and two values. `GetReadsContents`, `SetIsExact`: reads and writes are exact from every shape earlier calls left. `NoPhantomKeys`, `RemoveSparesOthers`: merging nodes on removal invents and loses no key. `RemoveThrowsCleanly`: a failing remove changes nothing and says "Key not found" only of absent keys. `RemoveIsExactOnCompressedTrie`: on a trie no earlier remove left uncompressed, remove works. `NodeFound`: references never dangle. `EveryCallReturns`. |
| `map` | 19,303 | `IsMap`: get and set implement `KVMap`, liveness included, over keys some of which are prefixes of others. `HistoryIndependent`: with sets alone the root is that of the compressed trie of the entries, whatever the order. |
| `path` | 138,938 | `IsNibbleSeq`, `EncodingIsCanonical`, `TypeOK`. |
| `assigner` | 157,132 | Every run of the program over the command lines below. `EvaluatesCodeBefore`, `FilesAreComplete`, `SuccessIsWritten`, `FillNeverFails`, `EffectsAreKept`, `RunEnds`. |
| `http` | 89,446 | Eleven responses, delivered, cut and reset in every way, over up to two addresses. `AnswersLikeRpc`: the call implements `Rpc`, liveness included. `LengthIsMet`: a body of stated length is whole when it is handed over. `BodyIsAsSent`: it is what was sent behind the lines, in that order, through both buffers. `NoSocketLeft`, `ConnectionErrorIsClean`. |
| `generator` | 690,825 | Two runs with any of twelve command lines, failing, interrupted or killed anywhere. `ArtifactsAreGone`, `FilesBelongTogether`, `ClusterEnds`. |
| `output` | 165,098 | Every form of range with numbers at the borders of tables and of an int, six sets of tables. `ExportIsAsked`: what is printed is what the text selects. `RefusedOnlyOutside`, `RangesReadBack`; `FileReadsBack`: a reader that knows the format gets the table back. |
| `loader` | 289,700 | Some hundreds of documents. `ValidFilesLoad`: a file that satisfies its schema, and whose numbers fit, loads. `LoadedIsDescribed`: at every moment, after an error too, what is loaded is what the document says. `LoadEnds`. |

Bounds and why they are enough.

- *MPT*: two nibbles instead of 16, keys of at most two bytes. A branch then has
  none, one, or several children, which is all the handlers tell apart. The six
  keys include the empty one, prefixes of others (a value in a branch), a pair
  parting at the last nibble (a deep branch behind an extension) and pairs
  parting at the first; every disjunct of every action fires. One value leaves a
  leaf inlined, the other does not. With two values and all orders of calls no
  length of history is bounded: the runs reach the fixpoint. `map` takes five of
  such keys, since its refinement is checked with liveness.
- *VIEW WithoutStorage*, in the runs with a perfect hash: a hash reference then
  determines the nodes below it, so two states that differ only in nodes nothing
  refers to behave alike. What the view hides (an old node that is overwritten)
  cannot happen with that hash; for every other hash there are the theorems of
  `MPTProofs`.
- *Path*: bytes that part in the high half, the low half or not at all, with
  the bit of `kOddFlag` in either half; up to four nibbles, so both parities
  occur on both sides of every operation.
- *Assigner*: two addresses, three codes (one empty), two blocks whose states
  differ, up to three messages with skipped and deploying ones at every position,
  `MaxGas` 2, and command lines that depart from the usual one in one or two
  options at a time, with every value of every option.
- *HTTP*: buffers of two and three bytes, so that lines and bodies straddle them;
  a header limit of 30 bytes, and `MaxUnsigned` 999, so that numbers overflow;
  two addresses, so that one can fail and the next succeed. The responses cover
  each way of delimiting a body, each header the client reads, and each
  departure from the norm it tolerates.
- *BlockGenerator*: two runs show what one leaves for the next; `MaxHits` 1
  interrupt in each. Configs: two contracts called, one called twice, two of one
  source, a repeated id, an undefined contract called, no call at all.
- *Output*: `IntMax` 40 and `Width` 6: numbers on both sides of each limit and of
  each size of table; tables with unequal columns, an empty kind, no rows, eight
  rows (a power of two, which is doubled), and two whose padded sizes do not fit
  the width.
- *Loader*: limits 3 and 5 stand for 64 and 256 bits; two-byte hashes, chunks of
  two bytes; documents on both sides of every rule of the schemas, messages and
  accounts in every order of three.

Fairness. `LiveSpec` of `MPT` is weak fairness of the steps of a call that has
begun: caller and trie are one thread. No fairness is put on beginning a call.
`Assigner` and `Loader` are weakly fair on `Next`: one thread, library calls return
(an HTTP call by `AnswersLikeRpc`), and the EVM runs out of gas. `RunEnds` and
`LoadEnds` except a stream whose reads fail, for which the program does not end
(see below). `HttpClient` is weakly fair on the steps of the client alone: the node
owes nothing, and every wait has a timeout, so that a call ends although no node
ever answers. `BlockGenerator` is weakly fair on the steps of the script, whose
commands and requests are assumed to return, and on the end of a nild that has
been told to end; `ClusterEnds` excepts runs that are killed, and the two places
in which no scope holds the cluster (the sleep inside of the constructor, and
`__exit__` itself): an interrupt there orphans it.

Deadlock is checked where the system is to go on for ever or ends in a state with
a step to itself (trie, path, `assigner`, `loader`). It is not checked where the
modelled thing simply stops: after the last run (`generator`), a killed process
(`http`), the last file (`output`).

Runs that find a disagreement:

| run | what happens | code | what is said of it |
|---|---|---|---|
| `resurrected` | Removing the two children of a branch one after the other: the second remove returns and rebuilds the leaf it removed, since the children are counted before the deleted one is cleared. | mpt.cpp:342 | test_nil_core_mpt.cpp:117 |
| `sibling_lost` | Removing the value of a branch with several children clears a child chosen by an uninitialised index. | mpt.cpp:245 | test_nil_core_mpt.cpp:120 |
| `named_tables` | `--tables` is declared as a string and read as a vector: any use of it with `--output-text` is an uncaught exception. | output_artifacts.cpp:173 | README.md:257 |
| `release` | The conversion of every number is the argument of an `assert`: compiled with NDEBUG, as the Release build is, the files hold zeros. | write_assignments.hpp:35 | write_assignments.hpp:27 |

Further behaviours the models contain, that are worth knowing, and that no run is
about: most because no document is definite enough to hold the code to. Where a
property permits or excepts one of them, the "note" of the hazard in
`PROJECT.json` says so.

- *Trie*: removing the only key falls through, for want of a `break`, to the
  reading of an empty optional (mpt.cpp:457); `remove` throws "remove error" when
  the root branch is left with one entry (mpt.cpp:467); `get` of an absent key
  that is a prefix of others returns the empty value (mpt.cpp:37); a key set to
  the empty value ends in a branch like one never set (mpt.cpp:248); `BasicHash`
  is a dummy that XORs bytes 64 apart, so that nodes collide and one set can
  change another key (mpt.cpp:391).
- *Parsers*: a parent hash with an odd number of digits passes the schema and its
  error is dropped, a short one fills a part of the array and a long one overruns
  it (block_parser.cpp:65); the timestamp of a block file is never set, and the
  EVM gets what was in memory (runner.cpp:144); numbers that fit the schema and
  not the field end in an uncaught exception; a failing stream never ends
  (json_helpers.cpp:49); what follows a NUL in a chunk is dropped.
- *Runner*: a gas price of 0 is divided by (runner.cpp:202); a reply of an
  unexpected form throws inside of the `noexcept` `get_account` and ends the
  process; an account that could not be fetched is evaluated without code, and
  the exit code is still 0; of several target circuits only the first is passed
  to `evaluate`, and "bytecode" given twice is initialised twice; a message that
  is Deploy and Internal is evaluated as a creation with the recipient's code.
- *Options*: vesta and ed25519 exit with 0 and no table (main.cpp:257); malformed
  values (`--shard-id abc`) are an uncaught exception, as only `unknown_option` is
  caught; `--output-text` without `--tables` prints nothing, while main.cpp:104
  says that all tables are printed (write_assignments.hpp:213); numbers of ten
  and more digits throw out of range (output_artifacts.cpp:31); `--rows ,` is no
  restriction at all; padding is undefined from 2^31 rows on.
- *RPC*: the HTTP status is ignored; a body without a stated length is taken as
  far as it came, truncation, timeout and reset included; header values are
  percent-decoded, so that `Content-Length: %34` is 4; a trailer line loses its
  last two bytes whatever they are; SIGPIPE is not ignored; each read has five
  seconds, the call no limit.
- *Block generator*: the comment above `generate_block` (block_generator.py:243)
  speaks of a block that includes the transactions, while each call waits for its
  receipt and gets a block of its own, of which the last is written; the state is taken at the hash of the generated block itself
  (block_generator.py:268), while README.md:184 calls the file of `-s` the initial
  state; a leaked cluster answers in place of that of the next run.

## 4. What is proved

For every value of the constants that satisfies the named `ASSUME` of the module.
Every invariant and every action property that a passing run checks is a theorem,
and of the refinements all but that of `Rpc` (see the end of this section).

**MPTProofs** (`ConstantsAssumption`: nibbles are finite, keys are sequences of
them; nothing is assumed of the hash).
- `TypeCorrect`, `NodesAreFound`: references never dangle. `TypeOK` alone says
  that every reference in the storage, the root, the stack and the result is
  stored; it is not inductive without knowing where the handlers are, so the
  invariant is `IInv == TypeOK /\ NodeFound`. The heart of it is that types are
  relative to a storage and grow with it (`TypesGrow`, `PutKeepsClosed`): storing
  a node may overwrite another one under the same hash, but never makes a
  reference unfollowable. Hence it holds with collisions, too.
- `StorageGrows` (`StorageOnlyGrows`, proved only): if the hash has no collisions, no
  stored node changes or is lost, so that old roots stay readable.

The other theorems have two hypotheses. `NoCollisions`: different nodes have different
hashes. `BasicHash` does not satisfy it; with a collision a node may be overwritten by
another, and one set changes the entries of another key.
`NoEmptyValue`: clients set no empty value, since the code has the empty vector of a
branch mean that there is no value.
- `GetsReadContents` (`GetReadsContents`), `KeysAreKept` (`NoPhantomKeys`),
  `SetsAreExact` (`SetIsExact`), `RemovesSpareOthers` (`RemoveSparesOthers`),
  `RemovesThrowCleanly` (`RemoveThrowsCleanly`): reads and writes are exact after any
  sequence of calls. The invariant is `IInv /\ CallInv`, of three parts.
  *Storage* (`Sound`): references are closed, every node is stored under its own hash
  and after the nodes it refers to (`Ranked`: there is a numbering by which references
  descend, so that `Entries` is well defined and induction over nodes is possible), and a
  branch has a value or a child. *Way down* (`Visits`): what was consumed of the key
  leads from the root to the node being visited, so that the entries there are those of
  the root whose keys start so (`Leads`), and the waiting handlers have the nodes of that
  path (`Trail`). *Way up* (`Returns`): the result stands for the entries of the node it
  was computed for, with the value of the rest of the key changed or deleted
  (`Answers`); one lemma per returning handler carries that one level up, to the root. A
  remove keeps the entries of others only if it does not read the uninitialised index,
  and need not delete its own: both are in `Answers`.
- `RootsAreCanonical` (`HistoryIndependent`): with sets alone (`SetsOnly`) the root is
  that of the compressed trie of the entries. The invariant (`Shape`) says that nothing
  stored could be merged (`Compressed`): no extension leads to a leaf or an extension,
  no branch has just one thing below it. That a result has this shape depends on
  where it is put: a set below an extension has to return a branch again, which is the
  last clause of `Shape`. `CompressedIsTrie`, by induction over references, makes of the
  shape an equality with `TrieOf`.
- `ImplementsMap`: with sets alone `MPT` implements `KVMap!Safety`. Each handler's step
  is a stutter of the map but the one that completes the call; no key has two values
  (`OneValue`), so that the entries are a function.
- `RemovesAreExact` (`RemoveIsExactOnCompressedTrie`): on a compressed trie a remove with
  a defined outcome deletes its key. The invariant (`Exactly`) says of such a call
  (`Orderly`) that every branch it has come through forks (`Forks`), that what it
  visits is the compressed trie of the entries there (`Minimal`), and that what it
  returns no longer has the entry (`Dropped`). That is what fails in the run
  `resurrected`: there the first remove leaves a branch that does not fork.

**PathProofs** (`PathAssumption`: inputs are byte vectors).
- `TypeCorrect`: no offset beyond the data.
- `Refines`: `Path` implements `NibbleSeq`, for all inputs and lengths. One
  lemma per operation says which nibbles its result has (`PackedNibbles`,
  `StoredNibbles`, `ConsumedNibbles`, ...); the step simulation follows.
- `CanonicalEncoding`: `Serialize` is equal exactly for equal paths.

**AssignerProofs** (`AssignerAssumption`: a code has length 0 exactly if it is
empty; the node has one state per block).
- `TypeCorrect`, `CodeIsThatBefore` (`EvaluatesCodeBefore`), `SuccessMeansWritten`,
  `FillDoesNotFail`, `NoEffectIsLost`. The inductive invariant adds, in the order
  of the argument: nothing is known before loading (`NothingYet`); the fetches
  use the parent (`ParentIsKnown`); accounts of the file are never fetched
  (`FileIsLoaded`); so every account of the host has its code from before the
  block (`AccountsAreBefore`); so the size taken from the first lookup is the
  size of what the second finds, or the first failed and there is nothing to copy
  (`SizeIsKnown`); so the code about to be evaluated is right (`CodeIsBefore`).
  `FillDoesNotFail` rests on `SizeIsKnown`: it is why ignoring the error of
  `fill_assignments` (runner.cpp:20) is harmless today.
- `FilesHoldTheBlock` (`FilesAreComplete`): the written table has rows for exactly
  the messages to be evaluated, in their order. The invariant is that the
  table covers the messages before `next` (`TableCovers`), and that the loop is left
  only behind the last one (`AllPassed`).

**BlockGeneratorProofs** (for all configs, arguments and numbers of runs and
interrupts).
- `TypeCorrect`, `ArtifactsRemoved` (`ArtifactsAreGone`), `FilesAreOfOneRun`
  (`FilesBelongTogether`). That block and state belong together is not inductive:
  it needs that the last message is that of the last transaction submitted and
  is executed in its block (`LastIsLast`), so the hash read from its receipt is
  that of the last transaction of this run (`HashIsOfLast`); that the state file
  is of an earlier run until the state is written (`StateIsOld`), and the block
  file complete before (`BlockFirst`). One lemma per action.

**HttpClientProofs** (`SizesAssumption`, `ResponsesAssumption`: all responses that
are sequences of parts of bytes, numbers of addresses, sizes of buffers).
- `NoSocketIsLeft` (`NoSocketLeft`), `ConnectionErrorsAreClean`
  (`ConnectionErrorIsClean`). The invariant ties the place in the call to the
  socket (`SocketIsKnown`: none, one not yet held, one held) and to the error
  (`ErrorIsKnown`: once an address is connected the error of the one before is
  gone, and an error of the connection means that nothing was sent).
- `Types` (`TypeOK`): whatever bytes come, what the client makes of them is of its
  type: each line is text, each header a name and a value (`ParsedHeader`,
  `DecodeUrlIsText`), each number a number (`UnsignedIsNat`, `HexNumber`, with the
  wrapping of a negative one), and no read takes more than what is still wanted.
- `LengthsAreMet` (`LengthIsMet`): a response whose length is stated is handed over
  only with that much content, and after the whole request was sent. The invariant
  (`LengthInv`) adds that the length in the headers is still the one the loop reads
  up to, and that what was read and what is left add up to it.

- `BodiesAreAsSent` (`BodyIsAsSent`): nothing is lost, repeated or moved on the way
  from the socket to the body. The invariant (`OrderInv`) says how many pieces were
  taken from `SocketStream`: the rest of its buffer follows them in the response, and
  what is in the socket follows that (`InOrder`), unless a reset took it. A complete
  line ends where the reading stands, or nothing will ever be read behind it (`Over`:
  the end of the connection ends a line, too); and the places of the pieces of the body
  (`Traced`) either end there or may go on behind that line (`Extends`). `ReadFollows`
  is the lemma about a read, from the buffer or past it, and `MoreIsTraced` that about the
  body.

**OutputProofs** (`IntMaxAssumption`: the limit of an int is a number;
`OutputAssumption`: it fits the width of a word; `AssignmentsAssumption`: an int counts
the rows and columns of a table).
- `RangeReadsBack`: a parsed `Range`, printed and parsed, is the same.
- `ConcreteIsSelected`: applied to a table of any size it stands for exactly the
  indices its text selects; `RefusedMeansOutside`: it is refused exactly if its
  text names an index that is not there. The key is `ToIntKeeps`: below the limit
  of an int the way through `size_t` is the identity, and a parsed bound is
  always below it (`ParseRangeValues`).
- `OutputTypes`, `PrintedIsAsked` (`ExportIsAsked`), `RefusalsAreOutside`
  (`RefusedOnlyOutside`), `OptionsReadBack` (`RangesReadBack`): the same for lists of
  ranges with empty parts anywhere, and for everything that is printed. A list is
  split and printed by recursion over its parts (`KeptParts`, `AppliedRanges`); the
  invariant `OutputInv` says that what is parsed so far is what the options say.
- `FilesReadBack` (`FileReadsBack`), for a program compiled with assertions: a
  complete file gives its table back to a reader that has only the header. The
  invariant (`FilesInv`) says of a file being written which sections and columns lie
  where (`Laid`), so that the next word comes where the reader will look.
  Without assertions it is false: that is the run `release`.

**LoaderProofs** (`LoaderAssumption`, `DocumentAssumption`: what the JSON parser can
deliver; all documents, chunks and widths).
- `Types` (`TypeOK`), `ValidFilesAreLoaded` (`ValidFilesLoad`),
  `WhatIsDescribedIsLoaded` (`LoadedIsDescribed`). What a schema demands becomes
  what the handlers may use (`BlockFile`, `StateFile`: for each `at()`, `as_string()`
  and `stoull` the rule that makes it safe). The invariant follows the document:
  nothing of the stream is lost between two chunks (`StreamInv`); a handler runs
  only on what was validated (`PlaceInv`); what is loaded is what the items before
  the loop describe (`BlockInv`, `RawBlockInv`, `StateInv`, `RawAccountInv`,
  `StorageInv`). That one more item changes the description as the handler changes the
  objects are the lemmas `MessagesGrow`, `StorageGrows` (the first value of a key
  stays) and `AccountsGrow` (the last account of an address stays).

**Recursion** has the means for loops and recursive functions: induction up to a
number over a *set* of numbers (`InductionUpTo`), the value of a function defined by
recursion from either end (`RecursionUpTo`, `RecursionDownTo`), which also carries a
property along (`RecursionStays`, `RecursionStaysDown`), least and greatest
members, and the same for a function over any set whose members have a height, when
its value at one depends on members of less height (`LooksBelow`,
`RecursionByHeight`, `InductionByHeight`): references to a storage, sets of entries. The
induction principles of the prover's library take an operator as a parameter, which
its back ends cannot instantiate; with a set in its place they can. So a text, a list or
a tree is modelled by a recursive function wherever something is proved of it.

Only model-checked: liveness (`EveryCallReturns`, `RunEnds`, `LoadEnds`,
`ClusterEnds`, and the fairness in `IsMap`), which is beyond the prover; and that
`HttpClient` implements `Rpc` (`AnswersLikeRpc`). That one is about fairness, and about
the content a response has by whatever encoding it uses. In the run each response
comes with its content; a general statement would need a hypothesis that relates
every wire text, malformed ones included, to the content it means, and that hypothesis
would be the decoder over again. What does not depend on it is proved: a body of stated
length is whole (`LengthsAreMet`), and any body is what was sent, in that order
(`BodiesAreAsSent`).

## 5. What could follow

1. `BlockGenerator` composed with `Assigner` by the files, to show which state a
   generated block is evaluated in.
2. The byte-level encoding of nodes and `BasicHash` below `MPT`, with `Path` in
   place of nibble sequences in the nodes.
3. What a sequence of removes leaves: the shapes between the compressed trie and
   the one with branches that no longer fork, and which keys a further remove
   brings back there.

## 6. Not modelled, and why

The SSZ library (external), and of NilCore's types those without a user
(receipts, logs, blooms, collators); gates, columns and values of the circuits
(blueprint, crypto3); the EVM beyond its calls to the host; the server of
`httplib.h` and the client options the framework leaves off, which its code cannot
reach; `get_number` of the JSON helpers and `check_connectedness`, which have no
caller; the satisfiability check of `checks.hpp`, which has no effect on what is
written or returned; the memory that an overrun of `to_std_bytes` changes
(block_parser.cpp:21), which has no describable outcome; log texts; build files,
Nix and CI.
