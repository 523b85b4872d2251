---------------------------- MODULE BlockGenerator ----------------------------
(*****************************************************************************)
(* Runs of block_generator.py, one after another, in one working directory.  *)
(* A run launches a nil cluster, deploys the contracts of its config, calls  *)
(* them, and writes the block of the last call and the state of its contract *)
(* to files.  What a run leaves behind - the directory of the compiler's     *)
(* artifacts, the files, the cluster with its port, the config of the nil    *)
(* CLI - is what the next one finds.  Any step may fail, a run may be        *)
(* interrupted (KeyboardInterrupt, the scopes are left) or killed.           *)
(*                                                                           *)
(* nild, nil and solc are external: the chain is taken to outlive a cluster, *)
(* as the wallet that make-config creates in one is used in the next.        *)
(*****************************************************************************)
EXTENDS Integers, Sequences, SequencesExt, FiniteSets

CONSTANTS
    Arguments,   \* what the script may be called with: records of Args
    MaxRuns,     \* how often the script is run
    MaxHits      \* how many interrupts a run may get

VARIABLES
    run,         \* the current or the last run of the script
    pc,          \* where it is
    args,        \* its arguments
    exc,         \* the exception in flight, "" if none
    hit,         \* where the run was interrupted
    orphans,     \* runs that were not given the chance to terminate their cluster
    nild,        \* the process nild of every run
    port,        \* the run whose nild listens to the port of the endpoint, or 0
    chain,       \* the blocks with calls, in their order
    config,      \* how many steps of the CLI's config have been made
    artifacts,   \* the directory ARTIFACT_DIR
    blockFile,
    stateFile,
    deployed,    \* how many contracts of the config are deployed
    submitted,   \* how many of its transactions are submitted
    last,        \* last_message_hash and last_called_contract
    hash         \* block_hash

local == <<deployed, submitted, last, hash>>
cluster == <<nild, port>>
files == <<blockFile, stateFile>>
vars == <<run, pc, args, exc, hit, orphans, cluster, chain, config, artifacts, files, local>>

Config == [valid : BOOLEAN, contracts : Seq([id : Nat, path : Nat]), transactions : Seq(Nat)]

Args == [mode : {"make-config", "generate-block"}, cli : BOOLEAN, given : BOOLEAN,
         config : Config, block : BOOLEAN, state : BOOLEAN]

ASSUME ArgumentsAssumption == Arguments \subseteq Args /\ MaxRuns \in Nat

Runs == 1..MaxRuns

Ids(c) == {c.contracts[k].id : k \in DOMAIN c.contracts}

\* A block is known by its place in the chain, a message by the run and the
\* number of its transaction, a contract by the run and its id.
NoMessage == [tx |-> 0, id |-> 0, at |-> 0]
NoDirectory == [exists |-> FALSE, dirs |-> {}]
Absent == [kind |-> "absent", run |-> 0, hash |-> 0, id |-> 0]

\* ------------------------------------------------------------- scopes and exits

(* Where an exception leads from here: the finally of temp_directory, the exit
   of ClusterProcess, the end of the script.  The constructor of ClusterProcess
   is not yet inside of its scope. *)
InDirectory == {"mkdir", "compile", "deploy", "submit", "receipt",
                "getBlock", "dumpBlock", "getState", "dumpState"}
InCluster   == {"wallet", "rmtree"}

Leave(p) == IF p \in InDirectory THEN "rmtree"
            ELSE IF p \in InCluster THEN "terminate" ELSE "exit"

Goto(p)  == pc' = p /\ UNCHANGED exc
Raise(e) == pc' = Leave(pc) /\ exc' = e

\* ------------------------------------------------------------ nild, nil and solc

Listening == port # 0

(* nil succeeds only with a cluster, and with a wallet if it has a config. *)
CliWorks == Listening /\ (args.cli => config = 4)

\* ------------------------------------------------------------------- the script

Start ==
    /\ pc = "idle" /\ run < MaxRuns
    /\ run' = run + 1
    /\ args' \in Arguments
    /\ pc' = "parse"
    /\ exc' = "" /\ hit' = {}
    /\ deployed' = 0 /\ submitted' = 0 /\ last' = NoMessage /\ hash' = 0
    /\ UNCHANGED <<orphans, cluster, chain, config, artifacts, files>>

ParseArguments ==
    /\ pc = "parse"
    /\ IF args.mode = "make-config"
       THEN IF args.cli THEN Goto("remove") ELSE Raise("error")
       ELSE IF args.given THEN Goto("validate") ELSE Raise("error")
    /\ UNCHANGED <<run, args, hit, orphans, cluster, chain, config, artifacts, files, local>>

(* validate_json, and the loop that collects the contracts. *)
ValidateJson ==
    /\ pc = "validate"
    /\ LET c == args.config
       IN  IF c.valid /\ Cardinality(Ids(c)) = Len(c.contracts) THEN Goto("launch")
                                                               ELSE Raise("error")
    /\ UNCHANGED <<run, args, hit, orphans, cluster, chain, config, artifacts, files, local>>

\* Leaves a config that is there.
KeepConfig ==
    /\ pc = "remove"
    /\ Goto("init")
    /\ UNCHANGED <<run, args, hit, orphans, cluster, chain, config, artifacts, files, local>>

RemoveConfig ==
    /\ pc = "remove"
    /\ config' = 0
    /\ Goto("init")
    /\ UNCHANGED <<run, args, hit, orphans, cluster, chain, artifacts, files, local>>

(* config init, config set and keygen new: none needs a cluster. *)
InitConfig ==
    /\ pc = "init"
    /\ \/ /\ config' = config + 1
          /\ IF config' = 3 THEN Goto("launch") ELSE Goto("init")
       \/ Raise("error") /\ UNCHANGED config
    /\ UNCHANGED <<run, args, hit, orphans, cluster, chain, artifacts, files, local>>

Launch ==
    /\ pc = "launch"
    /\ \/ Goto("sleep") /\ nild' = [nild EXCEPT ![run] = "running"]
       \/ Raise("error") /\ UNCHANGED nild
    /\ UNCHANGED <<run, args, hit, orphans, port, chain, config, artifacts, files, local>>

(* Nothing makes sure that the cluster answers when the sleep is over. *)
Sleep ==
    /\ pc = "sleep"
    /\ Goto(IF args.mode = "make-config" THEN "wallet" ELSE "mkdir")
    /\ UNCHANGED <<run, args, hit, orphans, cluster, chain, config, artifacts, files, local>>

NewWallet ==
    /\ pc = "wallet"
    /\ \/ Listening /\ config' = config + 1 /\ Goto("terminate")
       \/ Raise("error") /\ UNCHANGED config
    /\ UNCHANGED <<run, args, hit, orphans, cluster, chain, artifacts, files, local>>

\* Makes the directory before the try.
MakeDirectoryFirst ==
    /\ pc = "mkdir"
    /\ IF artifacts.exists
       THEN pc' = "terminate" /\ exc' = "error" /\ UNCHANGED artifacts
       ELSE Goto("compile") /\ artifacts' = [artifacts EXCEPT !.exists = TRUE]
    /\ UNCHANGED <<run, args, hit, orphans, cluster, chain, config, files, local>>

(* Fails if a run before has left its directory, which then goes as well. *)
MakeDirectory ==
    /\ pc = "mkdir"
    /\ IF artifacts.exists
       THEN Raise("error") /\ UNCHANGED artifacts
       ELSE Goto("compile") /\ artifacts' = [artifacts EXCEPT !.exists = TRUE]
    /\ UNCHANGED <<run, args, hit, orphans, cluster, chain, config, files, local>>

(* The output directory is named after the path of the source, and must be a
   new one; the compiler may fail or leave other files than expected. *)
SolcCompile ==
    /\ pc = "compile"
    /\ LET cs == args.config.contracts IN
       IF deployed = Len(cs) THEN Goto("submit") /\ UNCHANGED artifacts
       ELSE LET path == cs[deployed + 1].path IN
            IF path \in artifacts.dirs THEN Raise("error") /\ UNCHANGED artifacts
            ELSE /\ artifacts' = [artifacts EXCEPT !.dirs = @ \cup {path}]
                 /\ Goto("deploy") \/ Raise("error")
    /\ UNCHANGED <<run, args, hit, orphans, cluster, chain, config, files, local>>

Deploy ==
    /\ pc = "deploy"
    /\ \/ CliWorks /\ deployed' = deployed + 1 /\ Goto("compile")
       \/ Raise("error") /\ UNCHANGED deployed
    /\ UNCHANGED <<run, args, hit, orphans, cluster, chain, config, artifacts, files,
                   submitted, last, hash>>

\* Remembers the hash of the first message only.
CalledFirst(id, at) == IF last.tx = 0 THEN [tx |-> 1, id |-> id, at |-> at]
                                      ELSE [last EXCEPT !.id = id]

Called(id, at) == [tx |-> submitted + 1, id |-> id, at |-> at]

(* Every call waits for its receipt, and so gets a block of its own; the
   message may also end before it reaches the contract.  The nil CLI may fail
   after the message was sent. *)
Call ==
    /\ pc = "submit" /\ submitted < Len(args.config.transactions)
    /\ LET id == args.config.transactions[submitted + 1]
           block == [run |-> run, tx |-> submitted + 1, id |-> id]
       IN  \/ /\ id \in Ids(args.config) /\ CliWorks
              /\ \/ chain' = Append(chain, block) /\ last' = Called(id, Len(chain'))
                 \/ UNCHANGED chain /\ last' = Called(id, 0)
              /\ submitted' = submitted + 1
              /\ Goto("submit")
           \/ /\ id \in Ids(args.config) /\ CliWorks
              /\ chain' = Append(chain, block)
              /\ Raise("error") /\ UNCHANGED <<submitted, last>>
           \/ Raise("error") /\ UNCHANGED <<chain, submitted, last>>
    /\ UNCHANGED <<run, args, hit, orphans, cluster, config, artifacts, files, deployed, hash>>

(* Without a transaction, the None has no address. *)
Submitted ==
    /\ pc = "submit" /\ submitted = Len(args.config.transactions)
    /\ IF submitted = 0 THEN Raise("error") ELSE Goto("receipt")
    /\ UNCHANGED <<run, args, hit, orphans, cluster, chain, config, artifacts, files, local>>

(* The receipt of the message, or one of those below it, is of the contract. *)
IsExecution(m) == m.at # 0 /\ chain[m.at].id = m.id

GetBlockHash ==
    /\ pc = "receipt"
    /\ \/ Listening /\ IsExecution(last) /\ hash' = last.at /\ Goto("getBlock")
       \/ Raise("error") /\ UNCHANGED hash
    /\ UNCHANGED <<run, args, hit, orphans, cluster, chain, config, artifacts, files,
                   deployed, submitted, last>>

\* open(name, 'w') empties the file before anything is written to it.
Opened == [kind |-> "truncated", run |-> run, hash |-> 0, id |-> 0]
Written(id) == [kind |-> "complete", run |-> run, hash |-> hash, id |-> id]

GetBlock ==
    /\ pc = "getBlock"
    /\ \/ /\ Listening
          /\ IF args.block THEN Goto("dumpBlock") /\ blockFile' = Opened
                           ELSE Goto("getState") /\ UNCHANGED blockFile
       \/ Raise("error") /\ UNCHANGED blockFile
    /\ UNCHANGED <<run, args, hit, orphans, cluster, chain, config, artifacts, stateFile, local>>

DumpBlock ==
    /\ pc = "dumpBlock"
    /\ \/ Goto("getState") /\ blockFile' = Written(last.id)
       \/ Raise("error") /\ UNCHANGED blockFile
    /\ UNCHANGED <<run, args, hit, orphans, cluster, chain, config, artifacts, stateFile, local>>

GetState ==
    /\ pc = "getState"
    /\ \/ /\ Listening
          /\ IF args.state THEN Goto("dumpState") /\ stateFile' = Opened
                           ELSE Goto("rmtree") /\ UNCHANGED stateFile
       \/ Raise("error") /\ UNCHANGED stateFile
    /\ UNCHANGED <<run, args, hit, orphans, cluster, chain, config, artifacts, blockFile, local>>

DumpState ==
    /\ pc = "dumpState"
    /\ \/ Goto("rmtree") /\ stateFile' = Written(last.id)
       \/ Raise("error") /\ UNCHANGED stateFile
    /\ UNCHANGED <<run, args, hit, orphans, cluster, chain, config, artifacts, blockFile, local>>

(* The finally of temp_directory: it removes the directory whoever made it. *)
RemoveTree ==
    /\ pc = "rmtree"
    /\ pc' = "terminate"
    /\ exc' = IF artifacts.exists THEN exc ELSE "error"
    /\ artifacts' = NoDirectory
    /\ UNCHANGED <<run, args, hit, orphans, cluster, chain, config, files, local>>

\* Only a run that succeeds gets to shutdown.
ShutdownAtTheEnd ==
    /\ pc = "terminate"
    /\ nild' = [nild EXCEPT ![run] = IF @ = "running" /\ exc = "" THEN "stopping" ELSE @]
    /\ Goto("exit")
    /\ UNCHANGED <<run, args, hit, orphans, port, chain, config, artifacts, files, local>>

(* The end of the process is not waited for. *)
Shutdown ==
    /\ pc = "terminate"
    /\ nild' = [nild EXCEPT ![run] = IF @ = "running" THEN "stopping" ELSE @]
    /\ Goto("exit")
    /\ UNCHANGED <<run, args, hit, orphans, port, chain, config, artifacts, files, local>>

Exit ==
    /\ pc = "exit"
    /\ Goto("idle")
    /\ UNCHANGED <<run, args, hit, orphans, cluster, chain, config, artifacts, files, local>>

\* ------------------------------------------------------------------- disturbances

(* A KeyboardInterrupt; on a terminal, nild gets the signal too. *)
Interrupt ==
    /\ pc \notin {"idle", "exit"}
    /\ Cardinality(hit) < MaxHits
    /\ Raise("interrupt")
    /\ hit' = hit \cup {pc}
    /\ nild' \in {nild, [nild EXCEPT ![run] = IF @ = "running" THEN "stopping" ELSE @]}
    /\ orphans' = IF pc \in {"sleep", "terminate"} THEN orphans \cup {run} ELSE orphans
    /\ UNCHANGED <<run, args, port, chain, config, artifacts, files, local>>

(* No scope is left. *)
Kill ==
    /\ pc # "idle"
    /\ pc' = "idle"
    /\ exc' = "killed"
    /\ orphans' = orphans \cup {run}
    /\ UNCHANGED <<run, args, hit, cluster, chain, config, artifacts, files, local>>

Listen(r) ==
    /\ nild[r] = "running" /\ port # r
    /\ IF port = 0 THEN port' = r /\ UNCHANGED nild
                   ELSE UNCHANGED port /\ nild' = [nild EXCEPT ![r] = "gone"]
    /\ UNCHANGED <<run, pc, args, exc, hit, orphans, chain, config, artifacts, files, local>>

(* nild ends when it is told to, or breaks down. *)
End(r) ==
    /\ nild[r] \in {"running", "stopping"}
    /\ nild' = [nild EXCEPT ![r] = "gone"]
    /\ port' = IF port = r THEN 0 ELSE port
    /\ UNCHANGED <<run, pc, args, exc, hit, orphans, chain, config, artifacts, files, local>>

Init ==
    /\ run = 0 /\ pc = "idle" /\ args \in Arguments /\ exc = "" /\ hit = {} /\ orphans = {}
    /\ nild = [r \in Runs |-> "none"] /\ port = 0 /\ chain = <<>> /\ config = 0
    /\ artifacts = NoDirectory /\ blockFile = Absent /\ stateFile = Absent
    /\ deployed = 0 /\ submitted = 0 /\ last = NoMessage /\ hash = 0

Step ==
    \/ ParseArguments \/ ValidateJson \/ RemoveConfig \/ InitConfig \/ Launch \/ Sleep
    \/ NewWallet \/ MakeDirectory \/ SolcCompile \/ Deploy \/ Call \/ Submitted
    \/ GetBlockHash \/ GetBlock \/ DumpBlock \/ GetState \/ DumpState
    \/ RemoveTree \/ Shutdown \/ Exit

Next == Start \/ Step \/ Interrupt \/ Kill \/ (\E r \in Runs : Listen(r) \/ End(r))

(* The commands and the requests of the script return; nild ends when told. *)
Spec == /\ Init /\ [][Next]_vars /\ WF_vars(Step)
        /\ \A r \in Runs : WF_vars(nild[r] = "stopping" /\ End(r))

\* --------------------------------------------------------------------- properties

File == [kind : {"absent", "truncated", "complete"}, run : 0..MaxRuns, hash : 0..Len(chain),
         id : Nat]

(* The variables keep their types. *)
TypeOK ==
    /\ run \in 0..MaxRuns /\ args \in Arguments
    /\ pc \in {"idle", "parse", "validate", "remove", "init", "launch", "sleep", "exit"}
              \cup InDirectory \cup InCluster \cup {"terminate"}
    /\ exc \in {"", "error", "interrupt", "killed"}
    /\ hit \subseteq InDirectory \cup InCluster \cup {"parse", "validate", "remove", "init",
                                                      "launch", "sleep", "terminate"}
    /\ orphans \subseteq Runs
    /\ nild \in [Runs -> {"none", "running", "stopping", "gone"}] /\ port \in 0..MaxRuns
    /\ chain \in Seq([run : Runs, tx : Nat, id : Nat]) /\ config \in 0..4
    /\ artifacts \in [exists : BOOLEAN, dirs : SUBSET Nat]
    /\ blockFile \in File /\ stateFile \in File
    /\ deployed \in Nat /\ submitted \in Nat /\ hash \in 0..Len(chain)
    /\ last \in [tx : Nat, id : Nat, at : 0..Len(chain)]

(* A run leaves no directory of artifacts, however it ends, and removes the
   one it finds, unless it is killed or is interrupted while it removes it:
   so a directory left behind makes one run fail, and not all that follow. *)
ArtifactsAreGone ==
    /\ args.mode = "generate-block" /\ exc # "killed" /\ "rmtree" \notin hit
    /\ \/ pc = "terminate"
       \/ pc \in {"exit", "idle"} /\ (deployed > 0 \/ (run > 0 /\ exc = ""))
    => ~ artifacts.exists

(* The state is written only next to the complete block of the same run, and
   is of the same place in the chain; and a run that ends well has written
   the block of the last transaction of its config. *)
FilesBelongTogether ==
    /\ args.block /\ args.state /\ stateFile.run = run /\ run # 0
           => /\ blockFile.run = run /\ blockFile.kind = "complete"
              /\ stateFile.kind = "complete" => stateFile.hash = blockFile.hash
    /\ pc = "idle" /\ exc = "" /\ run # 0 /\ args.mode = "generate-block" /\ args.block
           => /\ blockFile.kind = "complete" /\ blockFile.run = run
              /\ chain[blockFile.hash].run = run
              /\ chain[blockFile.hash].tx = Len(args.config.transactions)

(* Every cluster that is launched ends, whatever goes wrong in the run, unless
   the run is killed or interrupted where no scope holds the cluster: before
   the constructor of ClusterProcess has returned, or when it is left. *)
ClusterEnds ==
    \A r \in Runs : nild[r] = "running" ~> nild[r] = "gone" \/ r \in orphans

================================================================================
