-------------------------------- MODULE Assigner -------------------------------
(* The assigner program: main() and curve_dependent_main() of bin/assigner,    *)
(* the preset, single_thread_runner with its ExtVMHost, the loading of blocks  *)
(* and accounts from files or by RPC, and the writing of the tables.  One      *)
(* thread; what varies are the options, the replies to each RPC call, the      *)
(* calls the EVM makes to the host, and which files can be opened.  There is   *)
(* one kind of assignment table, "bytecode".                                   *)
EXTENDS Integers, Sequences, FiniteSets, Functions

CONSTANTS
    Options,   \* the command lines, with the files they name
    Address,
    Code,      \* contract codes, one of which is Empty
    Empty,
    Size,      \* Code -> Nat, the length of a code
    BlockHash,
    Parent,    \* the parent of the block to be assigned
    CodeAt,    \* BlockHash -> Address -> Code or Absent: what the node answers
    Absent,
    Contents,  \* the possible contents of the block
    MaxGas     \* bound on the host calls of one message

Flag == {"Internal", "Deploy", "Refund", "Bounce"}

Message == [to : Address, flags : SUBSET Flag]

ASSUME AssignerAssumption ==
    /\ Empty \in Code /\ Size \in [Code -> Nat]
    /\ \A c \in Code : Size[c] = 0 <=> c = Empty
    /\ Absent \notin Code
    /\ Parent \in BlockHash
    /\ CodeAt \in [BlockHash -> [Address -> Code \cup {Absent}]]
    /\ Contents \subseteq [price : Nat, messages : Seq(Message)]
    /\ MaxGas \in Nat
    /\ Options \subseteq [
          \* --help or --version is there; an option is missing, unknown or out
          \* of its values; one has no value or one of another type.
          line : {"good", "help", "wrong", "malformed"},
          curve : {"pallas", "vesta", "ed25519", "bls12381"},
          circuits : Seq({"bytecode", "other"}),    \* --target-circuits
          source : {"rpc", "file", "unparented", "missing", "malformed", "directory"},
          state : {"none", "file", "missing", "malformed", "directory"},
          entries : Seq(Address \X Code),          \* of the state file
          text : BOOLEAN,                           \* --output-text
          tables : Seq({"bytecode", "other"})]      \* --tables

VARIABLES
    opts,      \* the options main() has parsed
    pc,        \* the step of main(), or how it ended
    prevBlock, \* m_current_block.m_prev_block
    price,     \* m_current_block.m_gasPrice
    messages,  \* m_input_messages
    accounts,  \* the accounts of the host, loaded or fetched
    next,      \* the message the loop of fill_assignments is at
    size,      \* contract_code.size()
    code,      \* contract_code
    gas,       \* the gas left to the message
    table,     \* what evaluate() has put into the bytecode table
    files,     \* the binary files written: table -> contents
    exported,  \* the tables printed for --output-text
    errors     \* the accounts whose fetch was logged as failed

block == <<prevBlock, price, messages>>
message == <<next, size, code, gas>>
output == <<files, exported>>
vars == <<opts, pc, block, accounts, message, table, output, errors>>

Ended == {"exit0", "exit1", "crashed"}

--------------------------------------------------------------------------------
(* main()                                                                      *)

Init ==
    /\ opts \in Options
    /\ pc = "options"
    /\ prevBlock \in BlockHash /\ price = 0 /\ messages = <<>>
    /\ accounts = <<>>
    /\ next = 1 /\ size = 0 /\ code = Empty /\ gas = 0
    /\ table = <<>> /\ files = <<>> /\ exported = {} /\ errors = {}

Go(where) == pc' = where

\* from_program_options() asks for --tables as a vector of strings, which main()
\* declared as one string: bad_any_cast, that nobody catches.
BadTables == opts.text /\ opts.tables # <<>>

\* Of what store() throws main() catches unknown_option only.
Uncaught == opts.line = "malformed"

AsksForHelp == opts.line = "help"

\* Unsupported curves are not an error.
ParseOptions ==
    /\ pc = "options"
    /\ \/ Uncaught /\ Go("crashed")
       \/ AsksForHelp /\ Go("exit0")
       \/ opts.line = "wrong" /\ Go("exit1")
       \/ opts.line \in {"good", "wrong"} /\ BadTables /\ Go("crashed")
       \/ /\ opts.line = "good" /\ ~BadTables
          /\ Go(IF opts.curve \in {"vesta", "ed25519"} THEN "exit0" ELSE "block")
    /\ UNCHANGED <<opts, block, accounts, message, table, output, errors>>

\* get_circuit_names
Circuits == IF opts.circuits = <<>> THEN <<"bytecode">> ELSE opts.circuits

\* The table of the bytecode circuit, which is inserted before its rows exist.
InitializeBytecode == {"bytecode"}

\* The keys of m_assignments, after initialize_circuits().
Tables == UNION {IF c = "bytecode" THEN InitializeBytecode ELSE {} : c \in Range(Circuits)}

--------------------------------------------------------------------------------
(* extract_block_with_messages() and extract_accounts_with_storage()           *)

\* What a failed load appended to m_input_messages is not looked at again.
LoadBlock ==
    /\ pc = "block"
    /\ \/ /\ opts.source \in {"file", "unparented", "rpc"}
          /\ \E content \in Contents :
                price' = content.price /\ messages' = content.messages
          \* handle_block() ignores that parentHash is no hash: m_prev_block
          \* stays the hash it was, which nobody has initialised.
          /\ prevBlock' = IF opts.source = "unparented" THEN prevBlock ELSE Parent
          /\ Go("accounts")
       \/ /\ opts.source \in {"missing", "malformed", "rpc"}
          /\ Go("exit1")
          /\ UNCHANGED block
       \* A reply or number of another form than expected throws.
       \/ /\ opts.source \in {"malformed", "rpc"}
          /\ Go("crashed")
          /\ UNCHANGED block
       \* parse_json() reads until the end of a stream that has no end.
       \/ opts.source = "directory" /\ UNCHANGED <<pc, block>>
    /\ UNCHANGED <<opts, accounts, message, table, output, errors>>

NewAccount(c, origin) == [code |-> c, origin |-> origin, writes |-> 0]

\* The last of several accounts at one address stays.
Loaded(entries) ==
    [a \in {entries[i][1] : i \in DOMAIN entries} |->
        LET last == CHOOSE i \in DOMAIN entries :
                /\ entries[i][1] = a
                /\ \A j \in DOMAIN entries : entries[j][1] = a => j <= i
        IN NewAccount(entries[last][2], "file")]

LoadAccounts ==
    /\ pc = "accounts"
    /\ \/ opts.state = "none" /\ Go("host") /\ UNCHANGED accounts
       \/ opts.state = "file" /\ Go("host") /\ accounts' = Loaded(opts.entries)
       \/ opts.state \in {"missing", "malformed"} /\ Go("exit1") /\ UNCHANGED accounts
       \* A number or contract of another form than expected throws.
       \/ opts.state = "malformed" /\ Go("crashed") /\ UNCHANGED accounts
       \/ opts.state = "directory" /\ UNCHANGED <<pc, accounts>>
    /\ UNCHANGED <<opts, block, message, table, output, errors>>

--------------------------------------------------------------------------------
(* The host.                                                                   *)

\* Mutant of Fetch: the state asked for is that of whatever block is the last.
FetchLatest(a) ==
    \E last \in BlockHash :
        /\ CodeAt[last][a] # Absent
        /\ accounts' = [b \in DOMAIN accounts \cup {a} |->
              IF b = a THEN NewAccount(CodeAt[last][a], prevBlock) ELSE accounts[b]]
        /\ UNCHANGED errors

\* An account comes by RPC, with the state at the parent block, and is added to
\* the accounts; the failure of the call, or of the parsing of its reply, is
\* logged.
Fetch(a) ==
    \/ /\ CodeAt[prevBlock][a] # Absent
       /\ accounts' = [b \in DOMAIN accounts \cup {a} |->
             IF b = a THEN NewAccount(CodeAt[prevBlock][a], prevBlock) ELSE accounts[b]]
       /\ UNCHANGED errors
    \/ UNCHANGED accounts /\ errors' = errors \cup {a}

\* Mutant of GetAccount: a known account is dropped and fetched anew.
GetAccountAgain(a) ==
    \/ Fetch(a)
    \/ accounts' = Restrict(accounts, DOMAIN accounts \ {a}) /\ errors' = errors \cup {a}

\* The accounts known are asked first.
GetAccount(a) ==
    \/ a \in DOMAIN accounts /\ UNCHANGED <<accounts, errors>>
    \/ a \notin DOMAIN accounts /\ Fetch(a)

\* What get_code_size and copy_code see of an account that was looked up: no
\* code where there is no account.
CodeOf(known, a) == IF a \in DOMAIN known THEN known[a].code ELSE Empty

\* External messages that deploy have nothing to do.
Skipped(m) == "Internal" \notin m.flags /\ "Deploy" \in m.flags

\* A reply of another form than expected throws, in a function that is noexcept.
HostThrows ==
    /\ \/ /\ pc \in {"message", "copy"} /\ next <= Len(messages)
          /\ ~Skipped(messages[next])
          /\ messages[next].to \notin DOMAIN accounts
       \/ pc = "evaluate" /\ gas > 0 /\ Address \ DOMAIN accounts # {}
    /\ Go("crashed")
    /\ UNCHANGED <<opts, block, accounts, message, table, output, errors>>

--------------------------------------------------------------------------------
(* fill_assignments()                                                          *)

\* The host gets the accounts loaded and the hash of the parent; neither the
\* context of a transaction nor the logging of all of it can fail.
MakeHost ==
    /\ pc = "host"
    /\ Go("message")
    /\ UNCHANGED <<opts, block, accounts, message, table, output, errors>>

\* Only the first target circuit is passed on.
TargetCircuit == Head(Circuits)

\* Mutant of SkipMessage: the message after it is passed over as well.
SkipTwoMessages ==
    /\ pc = "message" /\ next <= Len(messages)
    /\ Skipped(messages[next])
    /\ next' = next + 2
    /\ UNCHANGED <<opts, pc, block, accounts, size, code, gas, table, output, errors>>

\* Mutant of SkipMessage: the loop stays at the message.
SkipMessageAgain ==
    /\ pc = "message" /\ next <= Len(messages)
    /\ Skipped(messages[next])
    /\ UNCHANGED vars

SkipMessage ==
    /\ pc = "message" /\ next <= Len(messages)
    /\ Skipped(messages[next])
    /\ next' = next + 1
    /\ UNCHANGED <<opts, pc, block, accounts, size, code, gas, table, output, errors>>

\* The gas is computed and the buffer of the code resized to get_code_size().
TakeMessage ==
    /\ pc = "message" /\ next <= Len(messages)
    /\ ~Skipped(messages[next])
    /\ gas' \in 0..MaxGas
    /\ GetAccount(messages[next].to)
    /\ size' = Size[CodeOf(accounts', messages[next].to)]
    /\ Go("copy")
    /\ UNCHANGED <<opts, block, next, code, table, output>>

\* The division by a gas price of zero.
DivideByZero ==
    /\ pc = "message" /\ next <= Len(messages)
    /\ ~Skipped(messages[next]) /\ price = 0
    /\ Go("crashed")
    /\ UNCHANGED <<opts, block, accounts, message, table, output, errors>>

\* copy_code() copies what fits; the error of a copy that is too short leaves
\* the loop, and run() ignores it.
CopyCode ==
    /\ pc = "copy"
    /\ GetAccount(messages[next].to)
    /\ LET found == CodeOf(accounts', messages[next].to) IN
          /\ code' = IF size = 0 THEN Empty ELSE found
          /\ Go(IF Size[found] >= size THEN "evaluate" ELSE "binary")
    /\ UNCHANGED <<opts, block, next, size, gas, table, output>>

\* The EVM reads an account, or changes one that it has.
CallHost ==
    /\ pc = "evaluate" /\ gas > 0
    /\ gas' = gas - 1
    /\ \E a \in Address :
          \/ GetAccount(a)
          \/ /\ a \in DOMAIN accounts
             /\ accounts' = [accounts EXCEPT ![a].writes = @ + 1]
             /\ UNCHANGED errors
    /\ UNCHANGED <<opts, pc, block, next, size, code, table, output>>

\* evmc_msg_kind: what deploys is a creation, whatever else it is.
Kinds == {"EVMC_CREATE", "EVMC_CALL"}
CallKind(m) == IF "Deploy" \in m.flags THEN "EVMC_CREATE" ELSE "EVMC_CALL"

\* Whatever status evaluate() returns.
Evaluated ==
    /\ pc = "evaluate"
    /\ table' = IF TargetCircuit = "bytecode"
                THEN Append(table, [message |-> next, kind |-> CallKind(messages[next]),
                                      code |-> code])
                ELSE table
    /\ next' = next + 1
    /\ Go("message")
    /\ UNCHANGED <<opts, block, accounts, size, code, gas, output, errors>>

EndOfMessages ==
    /\ pc = "message" /\ next > Len(messages)
    /\ Go("binary")
    /\ UNCHANGED <<opts, block, accounts, message, table, output, errors>>

--------------------------------------------------------------------------------
(* The outputs.                                                                *)

\* Mutant of WriteBinary: a file that cannot be opened is passed over.
WriteBinaryAnyway ==
    /\ pc = "binary"
    /\ files' \in {[t \in Tables |-> table], files}
    /\ Go("artifacts")
    /\ UNCHANGED <<opts, block, accounts, message, table, exported, errors>>

WriteBinary ==
    /\ pc = "binary"
    /\ \/ files' = [t \in Tables |-> table] /\ Go("artifacts")
       \/ Tables # {} /\ Go("exit1") /\ UNCHANGED files
    /\ UNCHANGED <<opts, block, accounts, message, table, exported, errors>>

\* write_output_artifacts() prints the tables that are named, until one is missing
\* or its file cannot be opened.
WriteArtifacts ==
    /\ pc = "artifacts"
    /\ \E written \in SUBSET (IF opts.text THEN Range(opts.tables) \cap Tables ELSE {}) :
          /\ exported' = written
          /\ Go(IF opts.text /\ Tables # {} /\ written # Range(opts.tables)
                THEN "exit1" ELSE "check")
    /\ UNCHANGED <<opts, block, accounts, message, table, files, errors>>

\* A table that does not satisfy its circuit is no failure, "for now".
Check ==
    /\ pc = "check"
    /\ Go(IF Tables = {} THEN "exit1" ELSE "exit0")
    /\ UNCHANGED <<opts, block, accounts, message, table, output, errors>>

Done == pc \in Ended /\ UNCHANGED vars

Next ==
    \/ ParseOptions \/ LoadBlock \/ LoadAccounts
    \/ MakeHost \/ SkipMessage \/ TakeMessage \/ DivideByZero \/ CopyCode
    \/ CallHost \/ HostThrows \/ Evaluated \/ EndOfMessages
    \/ WriteBinary \/ WriteArtifacts \/ Check
    \/ Done

Spec == Init /\ [][Next]_vars /\ WF_vars(Next)

--------------------------------------------------------------------------------
(* Properties.                                                                 *)

AccountsOK ==
    /\ DOMAIN accounts \subseteq Address
    /\ \A a \in DOMAIN accounts :
          accounts[a] \in [code : Code, origin : BlockHash \cup {"file"}, writes : Nat]
    /\ errors \subseteq Address

\* Every variable of the program has a value of its type, and a message is
\* worked on only where there is one.
TypeOK ==
    /\ opts \in Options
    /\ pc \in Ended \cup {"options", "block", "accounts", "host", "message", "copy",
                          "evaluate", "binary", "artifacts", "check"}
    /\ prevBlock \in BlockHash /\ price \in Nat /\ messages \in Seq(Message)
    /\ AccountsOK
    /\ next \in 1..Len(messages) + 1 /\ size \in Nat /\ code \in Code /\ gas \in Nat
    /\ pc \in {"copy", "evaluate"} => next <= Len(messages)
    /\ table \in Seq([message : Nat, kind : Kinds, code : Code])
    /\ exported \subseteq {"bytecode"}

\* The error of fill_assignments() that run() ignores never occurs, although the
\* account is looked up once for the size of its code and once for the code.
FillNeverFails == [][pc = "copy" => pc' # "binary"]_vars

\* The code of an account before the block: of the state file or the parent.
CodeBefore(a) ==
    IF opts.state = "file" /\ a \in DOMAIN Loaded(opts.entries)
    THEN Loaded(opts.entries)[a].code
    ELSE CodeAt[Parent][a]

\* A message is evaluated with the code its recipient had before the block; with
\* none only if the log tells that the account could not be fetched.
EvaluatesCodeBefore ==
    opts.source # "unparented" =>
        \A i \in DOMAIN table :
            LET to == messages[table[i].message].to IN
            \/ table[i].code = CodeBefore(to)
            \/ table[i].code = Empty /\ to \in errors

\* What messages did to an account is not lost to a later fetch of it.
EffectsAreKept ==
    [][\A a \in DOMAIN accounts :
          /\ a \in DOMAIN accounts'
          /\ accounts'[a].origin = accounts[a].origin
          /\ accounts'[a].writes >= accounts[a].writes]_vars

\* The rows stand for those of the first n messages that are to be evaluated, each
\* once and in their order.
CoverMessages(rows, n) ==
    /\ \A i, j \in DOMAIN rows : i < j => rows[i].message < rows[j].message
    /\ {rows[i].message : i \in DOMAIN rows} = {m \in 1..n : ~Skipped(messages[m])}

\* A file that has been written stands for all messages of the block.
FilesAreComplete ==
    TargetCircuit = "bytecode" =>
        \A t \in DOMAIN files : CoverMessages(files[t], Len(messages))

Supported == opts.curve \in {"pallas", "bls12381"}

\* Success means that the table has been written, unless help was asked for.
SuccessIsWritten == pc = "exit0" /\ opts.line = "good" /\ Supported => "bytecode" \in DOMAIN files

\* The program ends, whatever the node and the EVM do.
RunEnds == "directory" \notin {opts.source, opts.state} ~> pc \in Ended

\* README.md:261 names a table with --tables.
TablesCanBeNamed == [][pc = "options" /\ opts.line = "good" => pc' # "crashed"]_vars

================================================================================
