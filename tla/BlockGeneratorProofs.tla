------------------------- MODULE BlockGeneratorProofs -------------------------
(*****************************************************************************)
(* What holds after any number of runs of block_generator.py, for all        *)
(* configs and arguments, wherever commands fail or the runs are interrupted *)
(* or killed: what is left of the directory of artifacts, and that the two   *)
(* files belong together.                                                    *)
(*****************************************************************************)
EXTENDS BlockGenerator, TLAPS

BeforeDirectory == {"parse", "validate", "remove", "init", "launch", "sleep",
   "wallet", "mkdir"}
BeforeCalls == BeforeDirectory \cup {"compile", "deploy"}
WithHash == {"getBlock", "dumpBlock", "getState", "dumpState"}
BeforeState == BeforeCalls \cup {"submit", "receipt", "getBlock", "dumpBlock", "getState"}

\* Run 0 is none.
RunIsOn == pc # "idle" => run # 0

\* Nothing follows a kill in its run.
KilledIsIdle == exc = "killed" => pc = "idle"

\* Which of the two modes gets where.
ModeIsKnown ==
    /\ pc \in {"remove", "init", "wallet"} => args.mode = "make-config"
    /\ pc = "validate" => args.mode # "make-config"

\* The steps of the config that are left fit into it.
ConfigHasRoom ==
    /\ pc = "init" => config \in 0..2
    /\ pc \in {"launch", "sleep", "wallet"} /\ args.mode = "make-config" => config = 3

NothingDeployed == pc \in BeforeDirectory => deployed = 0

\* The contracts are deployed in their order.
DeployedInConfig ==
    /\ pc = "compile" => deployed <= Len(args.config.contracts)
    /\ pc = "deploy" => deployed < Len(args.config.contracts)

NothingSubmitted == pc \in BeforeCalls => submitted = 0 /\ last = NoMessage

\* The last message is that of the last transaction submitted, and is executed
\* in its block, if in any.
LastIsLast ==
    pc \in {"submit", "receipt"} =>
        /\ last.tx = submitted /\ submitted <= Len(args.config.transactions)
        /\ last.at # 0 => chain[last.at].run = run /\ chain[last.at].tx = last.tx
        /\ pc = "receipt" => submitted = Len(args.config.transactions)

\* A block of the last transaction of this run.
IsOfLast(h) ==
    /\ h \in 1..Len(chain)
    /\ chain[h].run = run /\ chain[h].tx = Len(args.config.transactions)

HashIsOfLast == pc \in WithHash => IsOfLast(hash)

\* The state of this run is written last.
StateIsOld ==
    /\ stateFile.run <= run
    /\ pc \in BeforeState => stateFile.run < run

BlockFirst ==
    pc \in {"getState", "dumpState"} /\ args.block =>
        blockFile.kind = "complete" /\ blockFile.run = run /\ blockFile.hash = hash

\* A run that gets here without an exception has written its block.
SuccessHasBlock ==
    /\ pc \in {"rmtree", "terminate", "exit", "idle"} /\ exc = "" /\ run # 0
    /\ args.mode = "generate-block" /\ args.block
    => blockFile.kind = "complete" /\ blockFile.run = run /\ IsOfLast(blockFile.hash)

StateBesideBlock ==
    args.block /\ args.state /\ stateFile.run = run /\ run # 0 =>
        /\ blockFile.run = run /\ blockFile.kind = "complete"
        /\ stateFile.kind = "complete" => stateFile.hash = blockFile.hash

IInv ==
    /\ TypeOK /\ RunIsOn /\ KilledIsIdle /\ ModeIsKnown /\ ConfigHasRoom /\ NothingDeployed
    /\ DeployedInConfig /\ NothingSubmitted /\ LastIsLast /\ HashIsOfLast
    /\ StateIsOld /\ BlockFirst /\ SuccessHasBlock /\ StateBesideBlock /\ ArtifactsAreGone

Outcomes == {"", "error", "interrupt", "killed"}
Places ==
    {"idle", "parse", "validate", "remove", "init", "launch", "sleep", "exit"}
    \cup InDirectory \cup InCluster \cup {"terminate"}

\* The parts of TypeOK.
ControlOK ==
    /\ run \in 0..MaxRuns /\ args \in Arguments
    /\ pc \in Places /\ exc \in Outcomes
    /\ hit \subseteq Places \ {"idle", "exit"}
    /\ orphans \subseteq Runs

ClusterOK ==
    /\ nild \in [Runs -> {"none", "running", "stopping", "gone"}] /\ port \in 0..MaxRuns
    /\ config \in 0..4

ChainOK ==
    /\ chain \in Seq([run : Runs, tx : Nat, id : Nat])
    /\ deployed \in Nat /\ submitted \in Nat /\ hash \in 0..Len(chain)
    /\ last \in [tx : Nat, id : Nat, at : 0..Len(chain)]

FilesOK ==
    /\ artifacts \in [exists : BOOLEAN, dirs : SUBSET Nat]
    /\ blockFile \in File /\ stateFile \in File

--------------------------------------------------------------------------------

(* The types, part by part.                                                    *)
LEMMA Parts == TypeOK <=> ControlOK /\ ClusterOK /\ ChainOK /\ FilesOK
  BY DEF TypeOK, ControlOK, ClusterOK, ChainOK, FilesOK, Places, Outcomes,
     InDirectory, InCluster

(* The same of the next state.                                                *)
LEMMA PartsNext == ControlOK' /\ ClusterOK' /\ ChainOK' /\ FilesOK' => TypeOK'
  BY DEF TypeOK, ControlOK, ClusterOK, ChainOK, FilesOK, Places, Outcomes,
     InDirectory, InCluster

(* Named for the leaves that need nothing of the arguments.                    *)
LEMMA BoundAssumption == MaxRuns \in Nat
  BY ArgumentsAssumption

(* Configs are lists of contracts and of transactions.                         *)
LEMMA ArgsAreTyped ==
    ASSUME args \in Arguments
    PROVE  /\ args.config.contracts \in Seq([id : Nat, path : Nat])
           /\ args.config.transactions \in Seq(Nat)
           /\ args.mode \in {"make-config", "generate-block"}
<1>1. args \in Args
  BY ArgumentsAssumption
<1>2. args.config \in Config
  BY <1>1 DEF Args
<1> QED BY <1>1, <1>2 DEF Args, Config

(* What the types say of the numbers.                                          *)
LEMMA Numbers ==
    ASSUME IInv
    PROVE  /\ run \in 0..MaxRuns /\ run \in Nat /\ (pc # "idle" => run \in Runs)
           /\ Len(chain) \in Nat /\ 0 \in 0..Len(chain)
           /\ deployed \in Nat /\ submitted \in Nat
<1>1. ControlOK /\ ChainOK
  BY Parts DEF IInv
<1>2. run \in 0..MaxRuns /\ (pc # "idle" => run # 0)
  BY <1>1 DEF ControlOK, IInv, RunIsOn
<1>3. chain \in Seq([run : Runs, tx : Nat, id : Nat])
  BY <1>1 DEF ChainOK
<1>4. Len(chain) \in Nat
  BY <1>3
<1> QED BY <1>1, <1>2, <1>4, BoundAssumption DEF Runs, ChainOK

(* What a step leaves alone keeps its type.                                    *)
LEMMA Frames ==
    ASSUME IInv
    PROVE  /\ /\ UNCHANGED <<run, args, hit, orphans>> /\ pc' \in Places /\ exc' \in Outcomes
              => ControlOK'
           /\ UNCHANGED <<cluster, config>> => ClusterOK'
           /\ UNCHANGED <<chain, local>> => ChainOK'
           /\ UNCHANGED <<chain, artifacts, files>> => FilesOK'
<1>1. ControlOK /\ ClusterOK /\ ChainOK /\ FilesOK
  BY Parts DEF IInv
<1>2. /\ UNCHANGED <<run, args, hit, orphans>> /\ pc' \in Places /\ exc' \in Outcomes
      => ControlOK'
  BY <1>1 DEF ControlOK
<1>3. UNCHANGED <<cluster, config>> => ClusterOK'
  BY <1>1 DEF ClusterOK, cluster
<1>4. UNCHANGED <<chain, local>> => ChainOK'
  BY <1>1 DEF ChainOK, local
<1>5. UNCHANGED <<chain, artifacts, files>> => FilesOK'
  BY <1>1 DEF FilesOK, File, files
<1> QED BY <1>2, <1>3, <1>4, <1>5

(* Where an exception leads: out of a scope, or out of the script.             *)
LEMMA LeaveLeads == Leave(pc) \in {"rmtree", "terminate", "exit"}
  BY DEF Leave

(* Arithmetic and sequences, for leaves about other things.                    *)
LEMMA ZeroIsNotMore == ASSUME NEW d, d = 0 PROVE ~(d > 0)
  OBVIOUS

LEMMA ElementOfSeq == ASSUME NEW S, NEW s \in Seq(S), NEW k \in 1..Len(s) PROVE s[k] \in S
  OBVIOUS

(* A run that is not through, and fails before it deploys, may leave the       *)
(* directory that it has found.                                                *)
LEMMA FailsBefore ==
    ASSUME deployed = 0, UNCHANGED deployed, pc' = "exit" => exc' # "",
       pc' # "terminate", pc' # "idle"
    PROVE  ArtifactsAreGone'
<1>1. ~(deployed' > 0)
  BY ZeroIsNotMore
<1> QED BY <1>1 DEF ArtifactsAreGone

(* No state of this run is written before its block.                           *)
LEMMA StateOfThisRun ==
    ASSUME IInv
    PROVE  /\ stateFile.run \in Nat /\ stateFile.run <= run
           /\ pc \in BeforeState => stateFile.run # run
<1>1. stateFile.run \in Nat
  BY Parts, BoundAssumption DEF IInv, FilesOK, File
<1>2. stateFile.run <= run /\ (pc \in BeforeState => stateFile.run < run)
  BY DEF IInv, StateIsOld
<1> QED BY <1>1, <1>2, Numbers

(* A call adds at most its own block to the chain.                             *)
LEMMA CallAppends ==
    ASSUME IInv, Call
    PROVE  /\ chain' \in Seq([run : Runs, tx : Nat, id : Nat])
           /\ Len(chain') \in Nat /\ 0 \in 0..Len(chain') /\ Len(chain') >= Len(chain)
           /\ \A i \in 1..Len(chain) : chain'[i] = chain[i]
           /\ submitted' = submitted \/ submitted' = submitted + 1
           /\ \/ last' = last
              \/ \E id \in Nat :
                    \/ last' = Called(id, 0)
                    \/ /\ last' = Called(id, Len(chain')) /\ Len(chain') \in 1..Len(chain')
                       /\ chain'[Len(chain')].run = run
                       /\ chain'[Len(chain')].tx = submitted + 1
<1> DEFINE id == args.config.transactions[submitted + 1]
           block == [run |-> run, tx |-> submitted + 1, id |-> id]
<1>1. submitted + 1 \in Nat /\ id \in Nat
  <2>1. submitted \in Nat /\ submitted < Len(args.config.transactions)
    BY Numbers DEF Call
  <2>2. args.config.transactions \in Seq(Nat)
    BY ArgsAreTyped, Parts DEF IInv, ControlOK
  <2> QED BY <2>1, <2>2
<1>2. block \in [run : Runs, tx : Nat, id : Nat] /\ block.run = run /\ block.tx = submitted + 1
  BY <1>1, Numbers DEF Call
<1>3. chain \in Seq([run : Runs, tx : Nat, id : Nat])
  BY Parts DEF IInv, ChainOK
<1>4. \/ /\ chain' = Append(chain, block) /\ last' = Called(id, Len(chain'))
         /\ submitted' = submitted + 1
      \/ chain' = chain /\ last' = Called(id, 0) /\ submitted' = submitted + 1
      \/ chain' = Append(chain, block) /\ last' = last /\ submitted' = submitted
      \/ chain' = chain /\ last' = last /\ submitted' = submitted
  BY DEF Call
<1> HIDE DEF block, id
<1>5. CASE chain' = Append(chain, block)
  <2>1. /\ chain' \in Seq([run : Runs, tx : Nat, id : Nat]) /\ Len(chain') = Len(chain) + 1
        /\ chain'[Len(chain')] = block /\ \A i \in 1..Len(chain) : chain'[i] = chain[i]
    BY <1>2, <1>3, <1>5
  <2>2. Len(chain') \in Nat /\ Len(chain') \in 1..Len(chain') /\ Len(chain') >= Len(chain)
    BY <1>3, <2>1
  <2> QED BY <1>1, <1>2, <1>4, <2>1, <2>2
<1>6. CASE chain' = chain /\ (last' = last \/ last' = Called(id, 0))
  BY <1>1, <1>3, <1>4, <1>6, Numbers
<1> QED BY <1>4, <1>5, <1>6

(* An error of the arguments is raised before anything is deployed.            *)
LEMMA ParseArgumentsKeeps == ASSUME IInv, ParseArguments PROVE IInv'
<1>1. TypeOK'
  <2>1. ControlOK'
    BY Frames, LeaveLeads, Parts DEF IInv, ParseArguments, Goto, Raise,
       ControlOK, Places, Outcomes, InDirectory, InCluster
  <2>2. ClusterOK'
    BY Frames DEF ParseArguments, cluster
  <2>3. ChainOK'
    BY Frames DEF ParseArguments, local
  <2>4. FilesOK'
    BY Frames DEF ParseArguments, files
  <2> QED BY <2>1, <2>2, <2>3, <2>4, PartsNext
<1>2. RunIsOn' /\ KilledIsIdle' /\ ModeIsKnown' /\ ConfigHasRoom'
  BY DEF IInv, ParseArguments, RunIsOn, KilledIsIdle, ModeIsKnown,
     ConfigHasRoom, Goto, Raise, cluster, files, local, Leave, InDirectory,
     InCluster
<1>3. /\ NothingDeployed' /\ DeployedInConfig' /\ NothingSubmitted'
      /\ LastIsLast' /\ HashIsOfLast'
  BY DEF IInv, ParseArguments, NothingDeployed, DeployedInConfig,
     NothingSubmitted, LastIsLast, HashIsOfLast, Goto, Raise, cluster, files,
     local, BeforeDirectory, BeforeCalls, WithHash, IsOfLast, Leave,
     InDirectory, InCluster
<1>4. StateIsOld' /\ BlockFirst'
  BY DEF IInv, ParseArguments, StateIsOld, BlockFirst, Goto, Raise, cluster,
     files, local, BeforeState, Leave, BeforeCalls, InDirectory, InCluster,
     BeforeDirectory
<1>5. SuccessHasBlock' /\ StateBesideBlock'
  BY DEF IInv, ParseArguments, SuccessHasBlock, StateBesideBlock, Goto, Raise,
     cluster, files, local, IsOfLast, Leave, InDirectory, InCluster
<1>6. ArtifactsAreGone'
  BY FailsBefore DEF IInv, NothingDeployed, BeforeDirectory, ParseArguments,
     Goto, Raise, Leave, InDirectory, InCluster, local
<1> QED BY <1>1, <1>2, <1>3, <1>4, <1>5, <1>6 DEF IInv

(* validate_json() and the loop that collects the contracts.                   *)
LEMMA ValidateJsonKeeps == ASSUME IInv, ValidateJson PROVE IInv'
<1>1. TypeOK'
  <2>1. ControlOK'
    BY Frames, LeaveLeads, Parts DEF IInv, ValidateJson, Goto, Raise,
       ControlOK, Places, Outcomes, InDirectory, InCluster
  <2>2. ClusterOK'
    BY Frames DEF ValidateJson, cluster
  <2>3. ChainOK'
    BY Frames DEF ValidateJson, local
  <2>4. FilesOK'
    BY Frames DEF ValidateJson, files
  <2> QED BY <2>1, <2>2, <2>3, <2>4, PartsNext
<1>2. RunIsOn' /\ KilledIsIdle' /\ ModeIsKnown' /\ ConfigHasRoom'
  BY DEF IInv, ValidateJson, RunIsOn, KilledIsIdle, ModeIsKnown,
     ConfigHasRoom, Goto, Raise, cluster, files, local, Leave, InDirectory,
     InCluster
<1>3. /\ NothingDeployed' /\ DeployedInConfig' /\ NothingSubmitted'
      /\ LastIsLast' /\ HashIsOfLast'
  BY DEF IInv, ValidateJson, NothingDeployed, DeployedInConfig,
     NothingSubmitted, LastIsLast, HashIsOfLast, Goto, Raise, cluster, files,
     local, BeforeDirectory, BeforeCalls, WithHash, IsOfLast, Leave,
     InDirectory, InCluster
<1>4. StateIsOld' /\ BlockFirst'
  BY DEF IInv, ValidateJson, StateIsOld, BlockFirst, Goto, Raise, cluster,
     files, local, BeforeState, Leave, BeforeCalls, InDirectory, InCluster,
     BeforeDirectory
<1>5. SuccessHasBlock' /\ StateBesideBlock'
  BY DEF IInv, ValidateJson, SuccessHasBlock, StateBesideBlock, Goto, Raise,
     cluster, files, local, IsOfLast, Leave, InDirectory, InCluster
<1>6. ArtifactsAreGone'
  BY FailsBefore DEF IInv, NothingDeployed, BeforeDirectory, ValidateJson,
     Goto, Raise, Leave, InDirectory, InCluster, local
<1> QED BY <1>1, <1>2, <1>3, <1>4, <1>5, <1>6 DEF IInv

(* The config of the CLI is removed only by make-config.                       *)
LEMMA RemoveConfigKeeps == ASSUME IInv, RemoveConfig PROVE IInv'
<1>1. TypeOK'
  <2>1. ControlOK'
    BY Frames, LeaveLeads, Parts DEF IInv, RemoveConfig, Goto, Raise,
       ControlOK, Places, Outcomes, InDirectory, InCluster
  <2>2. ClusterOK'
    <3>1. config' = 0 /\ nild' = nild /\ port' = port
      BY Parts DEF IInv, RemoveConfig, ConfigHasRoom, ModeIsKnown, cluster,
         ClusterOK
    <3>2. config' \in 0..4
      BY <3>1
    <3> QED BY <3>1, <3>2, Parts DEF IInv, ClusterOK
  <2>3. ChainOK'
    BY Frames DEF RemoveConfig, local
  <2>4. FilesOK'
    BY Frames DEF RemoveConfig, files
  <2> QED BY <2>1, <2>2, <2>3, <2>4, PartsNext
<1>2. RunIsOn' /\ KilledIsIdle' /\ ModeIsKnown' /\ ConfigHasRoom'
  BY DEF IInv, RemoveConfig, RunIsOn, KilledIsIdle, ModeIsKnown,
     ConfigHasRoom, Goto, cluster, files, local
<1>3. /\ NothingDeployed' /\ DeployedInConfig' /\ NothingSubmitted'
      /\ LastIsLast' /\ HashIsOfLast'
  BY DEF IInv, RemoveConfig, NothingDeployed, DeployedInConfig,
     NothingSubmitted, LastIsLast, HashIsOfLast, Goto, cluster, files, local,
     BeforeDirectory, BeforeCalls, WithHash, IsOfLast
<1>4. StateIsOld' /\ BlockFirst'
  BY DEF IInv, RemoveConfig, StateIsOld, BlockFirst, Goto, cluster, files,
     local, BeforeState, BeforeCalls, BeforeDirectory
<1>5. SuccessHasBlock' /\ StateBesideBlock'
  BY DEF IInv, RemoveConfig, SuccessHasBlock, StateBesideBlock, Goto, cluster,
     files, local, IsOfLast
<1>6. ArtifactsAreGone'
  BY DEF IInv, RemoveConfig, ArtifactsAreGone, Goto, cluster, files, local
<1> QED BY <1>1, <1>2, <1>3, <1>4, <1>5, <1>6 DEF IInv

(* At most three steps of the config are made before the cluster is launched.   *)
LEMMA InitConfigKeeps == ASSUME IInv, InitConfig PROVE IInv'
<1>1. TypeOK'
  <2>1. ControlOK'
    BY Frames, LeaveLeads, Parts DEF IInv, InitConfig, Goto, Raise, ControlOK,
       Places, Outcomes, InDirectory, InCluster
  <2>2. ClusterOK'
    <3>1. config \in 0..2 /\ (config' = config + 1 \/ config' = config)
          /\ nild' = nild /\ port' = port
      BY Parts DEF IInv, InitConfig, ConfigHasRoom, ModeIsKnown, cluster, ClusterOK
    <3>2. config' \in 0..4
      BY <3>1
    <3> QED BY <3>1, <3>2, Parts DEF IInv, ClusterOK
  <2>3. ChainOK'
    BY Frames DEF InitConfig, local
  <2>4. FilesOK'
    BY Frames DEF InitConfig, files
  <2> QED BY <2>1, <2>2, <2>3, <2>4, PartsNext
<1>2. RunIsOn' /\ KilledIsIdle' /\ ModeIsKnown' /\ ConfigHasRoom'
  BY DEF IInv, InitConfig, RunIsOn, KilledIsIdle, ModeIsKnown, ConfigHasRoom,
     Goto, Raise, cluster, files, local, Leave, InDirectory, InCluster
<1>3. /\ NothingDeployed' /\ DeployedInConfig' /\ NothingSubmitted'
      /\ LastIsLast' /\ HashIsOfLast'
  BY DEF IInv, InitConfig, NothingDeployed, DeployedInConfig,
     NothingSubmitted, LastIsLast, HashIsOfLast, Goto, Raise, cluster, files,
     local, BeforeDirectory, BeforeCalls, WithHash, IsOfLast, Leave,
     InDirectory, InCluster
<1>4. StateIsOld' /\ BlockFirst'
  BY DEF IInv, InitConfig, StateIsOld, BlockFirst, Goto, Raise, cluster,
     files, local, BeforeState, Leave, BeforeCalls, InDirectory, InCluster,
     BeforeDirectory
<1>5. SuccessHasBlock' /\ StateBesideBlock'
  BY DEF IInv, InitConfig, SuccessHasBlock, StateBesideBlock, Goto, Raise,
     cluster, files, local, IsOfLast, Leave, InDirectory, InCluster
<1>6. ArtifactsAreGone'
  BY DEF IInv, InitConfig, ArtifactsAreGone, ModeIsKnown, Goto, Raise,
     cluster, files, local, Leave, InDirectory, InCluster
<1> QED BY <1>1, <1>2, <1>3, <1>4, <1>5, <1>6 DEF IInv

(* The constructor of ClusterProcess.                                          *)
LEMMA LaunchKeeps == ASSUME IInv, Launch PROVE IInv'
<1>1. TypeOK'
  <2>1. ControlOK'
    BY Frames, LeaveLeads, Parts DEF IInv, Launch, Goto, Raise, ControlOK,
       Places, Outcomes, InDirectory, InCluster
  <2>2. ClusterOK'
    BY Parts DEF IInv, Launch, ClusterOK
  <2>3. ChainOK'
    BY Frames DEF Launch, local
  <2>4. FilesOK'
    BY Frames DEF Launch, files
  <2> QED BY <2>1, <2>2, <2>3, <2>4, PartsNext
<1>2. RunIsOn' /\ KilledIsIdle' /\ ModeIsKnown' /\ ConfigHasRoom'
  BY DEF IInv, Launch, RunIsOn, KilledIsIdle, ModeIsKnown, ConfigHasRoom,
     Goto, Raise, files, local, Leave, InDirectory, InCluster
<1>3. /\ NothingDeployed' /\ DeployedInConfig' /\ NothingSubmitted'
      /\ LastIsLast' /\ HashIsOfLast'
  BY DEF IInv, Launch, NothingDeployed, DeployedInConfig, NothingSubmitted,
     LastIsLast, HashIsOfLast, Goto, Raise, files, local, BeforeDirectory,
     BeforeCalls, WithHash, IsOfLast, Leave, InDirectory, InCluster
<1>4. StateIsOld' /\ BlockFirst'
  BY DEF IInv, Launch, StateIsOld, BlockFirst, Goto, Raise, files, local,
     BeforeState, Leave, BeforeCalls, InDirectory, InCluster, BeforeDirectory
<1>5. SuccessHasBlock' /\ StateBesideBlock'
  BY DEF IInv, Launch, SuccessHasBlock, StateBesideBlock, Goto, Raise, files,
     local, IsOfLast, Leave, InDirectory, InCluster
<1>6. ArtifactsAreGone'
  BY FailsBefore DEF IInv, NothingDeployed, BeforeDirectory, Launch, Goto,
     Raise, Leave, InDirectory, InCluster, local
<1> QED BY <1>1, <1>2, <1>3, <1>4, <1>5, <1>6 DEF IInv

(* The wait for the cluster.                                                   *)
LEMMA SleepKeeps == ASSUME IInv, Sleep PROVE IInv'
<1>1. TypeOK'
  <2>1. ControlOK'
    BY Frames, LeaveLeads, Parts DEF IInv, Sleep, Goto, Raise, ControlOK,
       Places, Outcomes, InDirectory, InCluster
  <2>2. ClusterOK'
    BY Frames DEF Sleep, cluster
  <2>3. ChainOK'
    BY Frames DEF Sleep, local
  <2>4. FilesOK'
    BY Frames DEF Sleep, files
  <2> QED BY <2>1, <2>2, <2>3, <2>4, PartsNext
<1>2. RunIsOn' /\ KilledIsIdle' /\ ModeIsKnown' /\ ConfigHasRoom'
  BY DEF IInv, Sleep, RunIsOn, KilledIsIdle, ModeIsKnown, ConfigHasRoom, Goto,
     cluster, files, local
<1>3. /\ NothingDeployed' /\ DeployedInConfig' /\ NothingSubmitted'
      /\ LastIsLast' /\ HashIsOfLast'
  BY DEF IInv, Sleep, NothingDeployed, DeployedInConfig, NothingSubmitted,
     LastIsLast, HashIsOfLast, Goto, cluster, files, local, BeforeDirectory,
     BeforeCalls, WithHash, IsOfLast
<1>4. StateIsOld' /\ BlockFirst'
  BY DEF IInv, Sleep, StateIsOld, BlockFirst, Goto, cluster, files, local,
     BeforeState, BeforeCalls, BeforeDirectory
<1>5. SuccessHasBlock' /\ StateBesideBlock'
  BY DEF IInv, Sleep, SuccessHasBlock, StateBesideBlock, Goto, cluster, files,
     local, IsOfLast
<1>6. ArtifactsAreGone'
  BY DEF IInv, Sleep, ArtifactsAreGone, Goto, cluster, files, local
<1> QED BY <1>1, <1>2, <1>3, <1>4, <1>5, <1>6 DEF IInv

(* The wallet is the fourth and last step of the config.                       *)
LEMMA NewWalletKeeps == ASSUME IInv, NewWallet PROVE IInv'
<1>1. TypeOK'
  <2>1. ControlOK'
    BY Frames, LeaveLeads, Parts DEF IInv, NewWallet, Goto, Raise, ControlOK,
       Places, Outcomes, InDirectory, InCluster
  <2>2. ClusterOK'
    <3>1. config = 3 /\ (config' = config + 1 \/ config' = config)
          /\ nild' = nild /\ port' = port
      BY Parts DEF IInv, NewWallet, ConfigHasRoom, ModeIsKnown, cluster, ClusterOK
    <3>2. config' \in 0..4
      BY <3>1
    <3> QED BY <3>1, <3>2, Parts DEF IInv, ClusterOK
  <2>3. ChainOK'
    BY Frames DEF NewWallet, local
  <2>4. FilesOK'
    BY Frames DEF NewWallet, files
  <2> QED BY <2>1, <2>2, <2>3, <2>4, PartsNext
<1>2. RunIsOn' /\ KilledIsIdle' /\ ModeIsKnown' /\ ConfigHasRoom'
  BY DEF IInv, NewWallet, RunIsOn, KilledIsIdle, ModeIsKnown, ConfigHasRoom,
     Goto, Raise, cluster, files, local, Leave, InDirectory, InCluster
<1>3. /\ NothingDeployed' /\ DeployedInConfig' /\ NothingSubmitted'
      /\ LastIsLast' /\ HashIsOfLast'
  BY DEF IInv, NewWallet, NothingDeployed, DeployedInConfig, NothingSubmitted,
     LastIsLast, HashIsOfLast, Goto, Raise, cluster, files, local,
     BeforeDirectory, BeforeCalls, WithHash, IsOfLast, Leave, InDirectory, InCluster
<1>4. StateIsOld' /\ BlockFirst'
  BY DEF IInv, NewWallet, StateIsOld, BlockFirst, Goto, Raise, cluster, files,
     local, BeforeState, Leave, BeforeCalls, InDirectory, InCluster, BeforeDirectory
<1>5. SuccessHasBlock' /\ StateBesideBlock'
  BY DEF IInv, NewWallet, SuccessHasBlock, StateBesideBlock, ModeIsKnown,
     Goto, Raise, cluster, files, local, IsOfLast, Leave, InDirectory, InCluster
<1>6. ArtifactsAreGone'
  BY DEF IInv, NewWallet, ArtifactsAreGone, ModeIsKnown, Goto, Raise, cluster,
     files, local, Leave, InDirectory, InCluster
<1> QED BY <1>1, <1>2, <1>3, <1>4, <1>5, <1>6 DEF IInv

(* mkdir(): a directory that is there goes by the finally.                     *)
LEMMA MakeDirectoryKeeps == ASSUME IInv, MakeDirectory PROVE IInv'
<1>1. TypeOK'
  <2>1. ControlOK'
    BY Frames, LeaveLeads, Parts DEF IInv, MakeDirectory, Goto, Raise,
       ControlOK, Places, Outcomes, InDirectory, InCluster
  <2>2. ClusterOK'
    BY Frames DEF MakeDirectory, cluster
  <2>3. ChainOK'
    BY Frames DEF MakeDirectory, local
  <2>4. FilesOK'
    <3>1. artifacts' \in [exists : BOOLEAN, dirs : SUBSET Nat]
      BY Parts DEF IInv, MakeDirectory, FilesOK
    <3> QED BY <3>1, Parts DEF IInv, FilesOK, File, MakeDirectory, files
  <2> QED BY <2>1, <2>2, <2>3, <2>4, PartsNext
<1>2. RunIsOn' /\ KilledIsIdle' /\ ModeIsKnown' /\ ConfigHasRoom'
  BY DEF IInv, MakeDirectory, RunIsOn, KilledIsIdle, ModeIsKnown,
     ConfigHasRoom, Goto, Raise, cluster, files, local, Leave, InDirectory,
     InCluster
<1>3. /\ NothingDeployed' /\ DeployedInConfig' /\ NothingSubmitted'
      /\ LastIsLast' /\ HashIsOfLast'
  BY DEF IInv, MakeDirectory, NothingDeployed, DeployedInConfig,
     NothingSubmitted, LastIsLast, HashIsOfLast, Goto, Raise, cluster, files,
     local, BeforeDirectory, BeforeCalls, WithHash, IsOfLast, Leave,
     InDirectory, InCluster
<1>4. StateIsOld' /\ BlockFirst'
  BY DEF IInv, MakeDirectory, StateIsOld, BlockFirst, Goto, Raise, cluster,
     files, local, BeforeState, Leave, BeforeCalls, InDirectory, InCluster,
     BeforeDirectory
<1>5. SuccessHasBlock' /\ StateBesideBlock'
  BY DEF IInv, MakeDirectory, SuccessHasBlock, StateBesideBlock, Goto, Raise,
     cluster, files, local, IsOfLast, Leave, InDirectory, InCluster
<1>6. ArtifactsAreGone'
  BY DEF IInv, MakeDirectory, ArtifactsAreGone, Goto, Raise, cluster, files,
     local, Leave, InDirectory, InCluster
<1> QED BY <1>1, <1>2, <1>3, <1>4, <1>5, <1>6 DEF IInv

(* The next contract is compiled, or all are deployed.                         *)
LEMMA SolcCompileKeeps == ASSUME IInv, SolcCompile PROVE IInv'
<1>1. TypeOK'
  <2>1. ControlOK'
    BY Frames, LeaveLeads, Parts DEF IInv, SolcCompile, Goto, Raise,
       ControlOK, Places, Outcomes, InDirectory, InCluster
  <2>2. ClusterOK'
    BY Frames DEF SolcCompile, cluster
  <2>3. ChainOK'
    BY Frames DEF SolcCompile, local
  <2>4. FilesOK'
    <3> DEFINE path == args.config.contracts[deployed + 1].path
    <3>1. /\ args.config.contracts \in Seq([id : Nat, path : Nat])
          /\ deployed <= Len(args.config.contracts)
      BY ArgsAreTyped, Parts DEF IInv, ControlOK, DeployedInConfig, SolcCompile
    <3>2. deployed # Len(args.config.contracts) => path \in Nat
      <4>1. deployed # Len(args.config.contracts) =>
                deployed + 1 \in 1..Len(args.config.contracts)
        BY <3>1, Numbers
      <4>2. \A k \in 1..Len(args.config.contracts) : args.config.contracts[k].path \in Nat
        <5>1. \A k \in 1..Len(args.config.contracts) :
                args.config.contracts[k] \in [id : Nat, path : Nat]
          BY <3>1, ElementOfSeq
        <5> QED BY <5>1
      <4> QED BY <4>1, <4>2
    <3> HIDE DEF path
    <3>3. artifacts' \in [exists : BOOLEAN, dirs : SUBSET Nat]
      BY <3>2, Parts DEF IInv, SolcCompile, FilesOK, path
    <3> QED BY <3>3, Parts DEF IInv, FilesOK, File, SolcCompile, files
  <2> QED BY <2>1, <2>2, <2>3, <2>4, PartsNext
<1>2. RunIsOn' /\ KilledIsIdle' /\ ModeIsKnown' /\ ConfigHasRoom'
  BY DEF IInv, SolcCompile, RunIsOn, KilledIsIdle, ModeIsKnown, ConfigHasRoom,
     Goto, Raise, cluster, files, local, Leave, InDirectory, InCluster
<1>3. /\ NothingDeployed' /\ DeployedInConfig' /\ NothingSubmitted'
      /\ LastIsLast' /\ HashIsOfLast'
  <2>1. submitted = 0 /\ last = NoMessage /\ deployed <= Len(args.config.contracts)
    BY DEF IInv, NothingSubmitted, DeployedInConfig, SolcCompile, BeforeCalls
  <2>2. /\ args.config.transactions \in Seq(Nat)
        /\ args.config.contracts \in Seq([id : Nat, path : Nat])
    BY ArgsAreTyped, Parts DEF IInv, ControlOK
  <2>3. /\ 0 <= Len(args.config.transactions)
        /\ deployed # Len(args.config.contracts) => deployed < Len(args.config.contracts)
    BY <2>1, <2>2, Numbers
  <2> QED BY <2>1, <2>3 DEF SolcCompile, Goto, Raise, Leave, InDirectory,
     local, NoMessage, NothingDeployed, DeployedInConfig,
            NothingSubmitted, LastIsLast, HashIsOfLast, BeforeDirectory,
               BeforeCalls, WithHash
<1>4. StateIsOld' /\ BlockFirst'
  BY DEF IInv, SolcCompile, StateIsOld, BlockFirst, Goto, Raise, cluster,
     files, local, BeforeState, Leave, BeforeCalls, InDirectory, InCluster,
     BeforeDirectory
<1>5. SuccessHasBlock' /\ StateBesideBlock'
  BY DEF IInv, SolcCompile, SuccessHasBlock, StateBesideBlock, Goto, Raise,
     cluster, files, local, IsOfLast, Leave, InDirectory, InCluster
<1>6. ArtifactsAreGone'
  BY DEF IInv, SolcCompile, ArtifactsAreGone, Goto, Raise, cluster, files,
     local, Leave, InDirectory, InCluster
<1> QED BY <1>1, <1>2, <1>3, <1>4, <1>5, <1>6 DEF IInv

(* The contract compiled last is deployed.                                     *)
LEMMA DeployKeeps == ASSUME IInv, Deploy PROVE IInv'
<1>1. TypeOK'
  <2>1. ControlOK'
    BY Frames, LeaveLeads, Parts DEF IInv, Deploy, Goto, Raise, ControlOK,
       Places, Outcomes, InDirectory, InCluster
  <2>2. ClusterOK'
    BY Frames DEF Deploy, cluster
  <2>3. ChainOK'
    <3>1. deployed' \in Nat
      BY Numbers DEF Deploy
    <3> QED BY <3>1, Parts DEF IInv, ChainOK, Deploy
  <2>4. FilesOK'
    BY Frames DEF Deploy, files
  <2> QED BY <2>1, <2>2, <2>3, <2>4, PartsNext
<1>2. RunIsOn' /\ KilledIsIdle' /\ ModeIsKnown' /\ ConfigHasRoom'
  BY DEF IInv, Deploy, RunIsOn, KilledIsIdle, ModeIsKnown, ConfigHasRoom,
     Goto, Raise, cluster, files, Leave, InDirectory, InCluster
<1>3. /\ NothingDeployed' /\ DeployedInConfig' /\ NothingSubmitted'
      /\ LastIsLast' /\ HashIsOfLast'
  <2>1. /\ deployed < Len(args.config.contracts)
        /\ args.config.contracts \in Seq([id : Nat, path : Nat])
    BY ArgsAreTyped, Parts DEF IInv, ControlOK, DeployedInConfig, Deploy
  <2>2. deployed + 1 <= Len(args.config.contracts)
    BY <2>1, Numbers
  <2> QED BY <2>2 DEF Deploy, Goto, Raise, Leave, InDirectory, IInv,
     NothingDeployed, DeployedInConfig,
            NothingSubmitted, LastIsLast, HashIsOfLast, BeforeDirectory,
               BeforeCalls, WithHash
<1>4. StateIsOld' /\ BlockFirst'
  BY DEF IInv, Deploy, StateIsOld, BlockFirst, Goto, Raise, cluster, files,
     BeforeState, Leave, BeforeCalls, InDirectory, InCluster, BeforeDirectory
<1>5. SuccessHasBlock' /\ StateBesideBlock'
  BY DEF IInv, Deploy, SuccessHasBlock, StateBesideBlock, Goto, Raise,
     cluster, files, IsOfLast, Leave, InDirectory, InCluster
<1>6. ArtifactsAreGone'
  BY DEF IInv, Deploy, ArtifactsAreGone, Goto, Raise, cluster, files, Leave,
     InDirectory, InCluster
<1> QED BY <1>1, <1>2, <1>3, <1>4, <1>5, <1>6 DEF IInv

(* The call just made is the last one, and is of this run.                     *)
LEMMA CallKeeps == ASSUME IInv, Call PROVE IInv'
<1>1. TypeOK'
  <2>1. ControlOK'
    BY Frames, LeaveLeads, Parts DEF IInv, Call, Goto, Raise, ControlOK,
       Places, Outcomes, InDirectory, InCluster
  <2>2. ClusterOK'
    BY Frames DEF Call, cluster
  <2>3. ChainOK'
    <3>1. last' \in [tx : Nat, id : Nat, at : 0..Len(chain')]
      <4>1. last \in [tx : Nat, id : Nat, at : 0..Len(chain')]
        BY CallAppends, Parts DEF IInv, ChainOK
      <4>2. \A id \in Nat : \A at \in 0..Len(chain') :
                Called(id, at) \in [tx : Nat, id : Nat, at : 0..Len(chain')]
        BY Numbers DEF Called
      <4>3. 0 \in 0..Len(chain') /\ Len(chain') \in 0..Len(chain')
        BY CallAppends
      <4> QED BY <4>1, <4>2, <4>3, CallAppends
    <3>2. hash' \in 0..Len(chain')
      BY CallAppends, Numbers, Parts DEF IInv, ChainOK, Call
    <3>3. deployed' \in Nat /\ submitted' \in Nat
      BY CallAppends, Numbers DEF Call
    <3> QED BY <3>1, <3>2, <3>3, CallAppends DEF ChainOK
  <2>4. FilesOK'
    <3>1. \A f \in File : f \in File'
      BY CallAppends DEF File
    <3> QED BY <3>1, Parts DEF IInv, FilesOK, Call, files
  <2> QED BY <2>1, <2>2, <2>3, <2>4, PartsNext
<1>2. RunIsOn' /\ KilledIsIdle' /\ ModeIsKnown' /\ ConfigHasRoom'
  BY DEF IInv, Call, RunIsOn, KilledIsIdle, ModeIsKnown, ConfigHasRoom, Goto,
     Raise, cluster, files, Leave, InDirectory, InCluster
<1>3. /\ NothingDeployed' /\ DeployedInConfig' /\ NothingSubmitted'
      /\ LastIsLast' /\ HashIsOfLast'
  <2>1. CASE pc' = "rmtree"
    BY <2>1 DEF NothingDeployed, DeployedInConfig,
         NothingSubmitted, LastIsLast, HashIsOfLast, BeforeDirectory,
            BeforeCalls, WithHash
  <2>2. CASE pc' = "submit"
    <3>1. submitted' = submitted + 1 /\ UNCHANGED <<run, args>> /\ last'.tx = submitted + 1
      BY <2>2 DEF Call, Called, Raise, Leave, InDirectory
    <3>2. submitted + 1 <= Len(args.config.transactions)
      <4>1. /\ args.config.transactions \in Seq(Nat)
            /\ submitted < Len(args.config.transactions)
        BY ArgsAreTyped, Parts DEF IInv, ControlOK, Call
      <4> QED BY <4>1, Numbers
    <3>3. last'.at # 0 =>
             chain'[last'.at].run = run /\ chain'[last'.at].tx = submitted + 1
      <4>1. last' # last
        <5>1. CASE last' = last
          <6>1. last.tx = submitted /\ submitted + 1 # submitted
            BY Numbers DEF IInv, LastIsLast, Call
          <6> QED BY <3>1, <5>1, <6>1
        <5> QED BY <5>1
      <4> QED BY <4>1, CallAppends DEF Called
    <3> QED BY <2>2, <3>1, <3>2, <3>3 DEF NothingDeployed, DeployedInConfig,
              NothingSubmitted, LastIsLast, HashIsOfLast, BeforeDirectory,
                 BeforeCalls, WithHash
  <2> QED BY <2>1, <2>2 DEF Call, Goto, Raise, Leave, InDirectory
<1>4. StateIsOld' /\ BlockFirst'
  BY DEF IInv, Call, StateIsOld, BlockFirst, Goto, Raise, cluster, files,
     BeforeState, Leave, BeforeCalls, InDirectory, InCluster, BeforeDirectory
<1>5. SuccessHasBlock' /\ StateBesideBlock'
  BY DEF IInv, Call, SuccessHasBlock, StateBesideBlock, Goto, Raise, cluster,
     files, IsOfLast, Leave, InDirectory, InCluster
<1>6. ArtifactsAreGone'
  BY DEF IInv, Call, ArtifactsAreGone, Goto, Raise, cluster, files, Leave,
     InDirectory, InCluster
<1> QED BY <1>1, <1>2, <1>3, <1>4, <1>5, <1>6 DEF IInv

(* All transactions are submitted before the receipt is asked for.             *)
LEMMA SubmittedKeeps == ASSUME IInv, Submitted PROVE IInv'
<1>1. TypeOK'
  <2>1. ControlOK'
    BY Frames, LeaveLeads, Parts DEF IInv, Submitted, Goto, Raise, ControlOK,
       Places, Outcomes, InDirectory, InCluster
  <2>2. ClusterOK'
    BY Frames DEF Submitted, cluster
  <2>3. ChainOK'
    BY Frames DEF Submitted, local
  <2>4. FilesOK'
    BY Frames DEF Submitted, files
  <2> QED BY <2>1, <2>2, <2>3, <2>4, PartsNext
<1>2. RunIsOn' /\ KilledIsIdle' /\ ModeIsKnown' /\ ConfigHasRoom'
  BY DEF IInv, Submitted, RunIsOn, KilledIsIdle, ModeIsKnown, ConfigHasRoom,
     Goto, Raise, cluster, files, local, Leave, InDirectory, InCluster
<1>3. /\ NothingDeployed' /\ DeployedInConfig' /\ NothingSubmitted'
      /\ LastIsLast' /\ HashIsOfLast'
  BY DEF IInv, Submitted, NothingDeployed, DeployedInConfig, NothingSubmitted,
     LastIsLast, HashIsOfLast, Goto, Raise, cluster, files, local,
     BeforeDirectory, BeforeCalls, WithHash, IsOfLast, Leave, InDirectory, InCluster
<1>4. StateIsOld' /\ BlockFirst'
  BY DEF IInv, Submitted, StateIsOld, BlockFirst, Goto, Raise, cluster, files,
     local, BeforeState, Leave, BeforeCalls, InDirectory, InCluster, BeforeDirectory
<1>5. SuccessHasBlock' /\ StateBesideBlock'
  BY DEF IInv, Submitted, SuccessHasBlock, StateBesideBlock, Goto, Raise,
     cluster, files, local, IsOfLast, Leave, InDirectory, InCluster
<1>6. ArtifactsAreGone'
  BY DEF IInv, Submitted, ArtifactsAreGone, Goto, Raise, cluster, files,
     local, Leave, InDirectory, InCluster
<1> QED BY <1>1, <1>2, <1>3, <1>4, <1>5, <1>6 DEF IInv

(* The hash taken is that of a block of the last transaction of this run.      *)
LEMMA GetBlockHashKeeps == ASSUME IInv, GetBlockHash PROVE IInv'
<1>1. TypeOK'
  <2>1. ControlOK'
    BY Frames, LeaveLeads, Parts DEF IInv, GetBlockHash, Goto, Raise,
       ControlOK, Places, Outcomes, InDirectory, InCluster
  <2>2. ClusterOK'
    BY Frames DEF GetBlockHash, cluster
  <2>3. ChainOK'
    <3>1. hash' = hash \/ hash' = last.at
      BY DEF GetBlockHash
    <3> QED BY <3>1, Parts DEF IInv, ChainOK, GetBlockHash
  <2>4. FilesOK'
    BY Frames DEF GetBlockHash, files
  <2> QED BY <2>1, <2>2, <2>3, <2>4, PartsNext
<1>2. RunIsOn' /\ KilledIsIdle' /\ ModeIsKnown' /\ ConfigHasRoom'
  BY DEF IInv, GetBlockHash, RunIsOn, KilledIsIdle, ModeIsKnown,
     ConfigHasRoom, Goto, Raise, cluster, files, Leave, InDirectory, InCluster
<1>3. /\ NothingDeployed' /\ DeployedInConfig' /\ NothingSubmitted'
      /\ LastIsLast' /\ HashIsOfLast'
  <2>1. CASE pc' = "getBlock"
    <3>1. /\ last.at \in 0..Len(chain) /\ last.at # 0 /\ hash' = last.at
          /\ chain[last.at].run = run /\ chain[last.at].tx = Len(args.config.transactions)
      BY <2>1, Parts DEF IInv, ChainOK, GetBlockHash, IsExecution, LastIsLast,
         Raise, Leave, InDirectory
    <3>2. last.at \in 1..Len(chain)
      BY <3>1, Numbers
    <3> QED BY <2>1, <3>1, <3>2 DEF GetBlockHash, NothingDeployed, DeployedInConfig,
              NothingSubmitted, LastIsLast, HashIsOfLast, IsOfLast,
                 BeforeDirectory, BeforeCalls
  <2>2. CASE pc' = "rmtree"
    BY <2>2 DEF NothingDeployed, DeployedInConfig,
         NothingSubmitted, LastIsLast, HashIsOfLast, BeforeDirectory,
            BeforeCalls, WithHash
  <2> QED BY <2>1, <2>2 DEF GetBlockHash, Goto, Raise, Leave, InDirectory
<1>4. StateIsOld' /\ BlockFirst'
  BY DEF IInv, GetBlockHash, StateIsOld, BlockFirst, Goto, Raise, cluster,
     files, BeforeState, Leave, BeforeCalls, InDirectory, InCluster, BeforeDirectory
<1>5. SuccessHasBlock' /\ StateBesideBlock'
  BY DEF IInv, GetBlockHash, SuccessHasBlock, StateBesideBlock, Goto, Raise,
     cluster, files, IsOfLast, Leave, InDirectory, InCluster
<1>6. ArtifactsAreGone'
  BY DEF IInv, GetBlockHash, ArtifactsAreGone, Goto, Raise, cluster, files,
     Leave, InDirectory, InCluster
<1> QED BY <1>1, <1>2, <1>3, <1>4, <1>5, <1>6 DEF IInv

(* The file of the block is opened: no file of the state is of this run yet.   *)
LEMMA GetBlockKeeps == ASSUME IInv, GetBlock PROVE IInv'
<1>1. TypeOK'
  <2>1. ControlOK'
    BY Frames, LeaveLeads, Parts DEF IInv, GetBlock, Goto, Raise, ControlOK,
       Places, Outcomes, InDirectory, InCluster
  <2>2. ClusterOK'
    BY Frames DEF GetBlock, cluster
  <2>3. ChainOK'
    BY Frames DEF GetBlock, local
  <2>4. FilesOK'
    <3>1. Opened \in File
      BY Numbers DEF Opened, File
    <3> QED BY <3>1, Parts DEF IInv, FilesOK, File, GetBlock, local
  <2> QED BY <2>1, <2>2, <2>3, <2>4, PartsNext
<1>2. RunIsOn' /\ KilledIsIdle' /\ ModeIsKnown' /\ ConfigHasRoom'
  BY DEF IInv, GetBlock, RunIsOn, KilledIsIdle, ModeIsKnown, ConfigHasRoom,
     Goto, Raise, cluster, local, Leave, InDirectory, InCluster
<1>3. /\ NothingDeployed' /\ DeployedInConfig' /\ NothingSubmitted'
      /\ LastIsLast' /\ HashIsOfLast'
  BY DEF IInv, GetBlock, NothingDeployed, DeployedInConfig, NothingSubmitted,
     LastIsLast, HashIsOfLast, Goto, Raise, cluster, local, BeforeDirectory,
     BeforeCalls, WithHash, IsOfLast, Leave, InDirectory, InCluster
<1>4. StateIsOld' /\ BlockFirst'
  BY DEF IInv, GetBlock, StateIsOld, BlockFirst, Goto, Raise, cluster, local,
     BeforeState, Leave, BeforeCalls, InDirectory, InCluster, BeforeDirectory
<1>5. SuccessHasBlock' /\ StateBesideBlock'
  BY StateOfThisRun DEF GetBlock, Goto, Raise, Leave, InDirectory,
     SuccessHasBlock, StateBesideBlock, BeforeState
<1>6. ArtifactsAreGone'
  BY DEF IInv, GetBlock, ArtifactsAreGone, Goto, Raise, cluster, local, Leave,
     InDirectory, InCluster
<1> QED BY <1>1, <1>2, <1>3, <1>4, <1>5, <1>6 DEF IInv

(* The block is complete.                                                      *)
LEMMA DumpBlockKeeps == ASSUME IInv, DumpBlock PROVE IInv'
<1>1. TypeOK'
  <2>1. ControlOK'
    BY Frames, LeaveLeads, Parts DEF IInv, DumpBlock, Goto, Raise, ControlOK,
       Places, Outcomes, InDirectory, InCluster
  <2>2. ClusterOK'
    BY Frames DEF DumpBlock, cluster
  <2>3. ChainOK'
    BY Frames DEF DumpBlock, local
  <2>4. FilesOK'
    <3>1. Written(last.id) \in File
      BY Numbers, Parts DEF Written, IInv, ChainOK, File
    <3> QED BY <3>1, Parts DEF IInv, FilesOK, File, DumpBlock, local
  <2> QED BY <2>1, <2>2, <2>3, <2>4, PartsNext
<1>2. RunIsOn' /\ KilledIsIdle' /\ ModeIsKnown' /\ ConfigHasRoom'
  BY DEF IInv, DumpBlock, RunIsOn, KilledIsIdle, ModeIsKnown, ConfigHasRoom,
     Goto, Raise, cluster, local, Leave, InDirectory, InCluster
<1>3. /\ NothingDeployed' /\ DeployedInConfig' /\ NothingSubmitted'
      /\ LastIsLast' /\ HashIsOfLast'
  BY DEF IInv, DumpBlock, NothingDeployed, DeployedInConfig, NothingSubmitted,
     LastIsLast, HashIsOfLast, Goto, Raise, cluster, local, BeforeDirectory,
     BeforeCalls, WithHash, IsOfLast, Leave, InDirectory, InCluster
<1>4. StateIsOld' /\ BlockFirst'
  <2>1. stateFile.run < run /\ stateFile.run <= run
    BY DEF IInv, StateIsOld, DumpBlock, BeforeState
  <2> QED BY <2>1 DEF DumpBlock, Goto, Raise, Leave, InDirectory, local,
     Written, StateIsOld, BlockFirst
<1>5. SuccessHasBlock' /\ StateBesideBlock'
  BY StateOfThisRun DEF DumpBlock, Goto, Raise, Leave, InDirectory,
     SuccessHasBlock, StateBesideBlock, BeforeState
<1>6. ArtifactsAreGone'
  BY DEF IInv, DumpBlock, ArtifactsAreGone, Goto, Raise, cluster, local,
     Leave, InDirectory, InCluster
<1> QED BY <1>1, <1>2, <1>3, <1>4, <1>5, <1>6 DEF IInv

(* The state of this run is begun beside its complete block.                   *)
LEMMA GetStateKeeps == ASSUME IInv, GetState PROVE IInv'
<1>1. TypeOK'
  <2>1. ControlOK'
    BY Frames, LeaveLeads, Parts DEF IInv, GetState, Goto, Raise, ControlOK,
       Places, Outcomes, InDirectory, InCluster
  <2>2. ClusterOK'
    BY Frames DEF GetState, cluster
  <2>3. ChainOK'
    BY Frames DEF GetState, local
  <2>4. FilesOK'
    <3>1. Opened \in File
      BY Numbers DEF Opened, File
    <3> QED BY <3>1, Parts DEF IInv, FilesOK, File, GetState, local
  <2> QED BY <2>1, <2>2, <2>3, <2>4, PartsNext
<1>2. RunIsOn' /\ KilledIsIdle' /\ ModeIsKnown' /\ ConfigHasRoom'
  BY DEF IInv, GetState, RunIsOn, KilledIsIdle, ModeIsKnown, ConfigHasRoom,
     Goto, Raise, cluster, local, Leave, InDirectory, InCluster
<1>3. /\ NothingDeployed' /\ DeployedInConfig' /\ NothingSubmitted'
      /\ LastIsLast' /\ HashIsOfLast'
  BY DEF IInv, GetState, NothingDeployed, DeployedInConfig, NothingSubmitted,
     LastIsLast, HashIsOfLast, Goto, Raise, cluster, local, BeforeDirectory,
     BeforeCalls, WithHash, IsOfLast, Leave, InDirectory, InCluster
<1>4. StateIsOld' /\ BlockFirst'
  <2>1. stateFile.run <= run /\ run <= run
    BY Numbers DEF IInv, StateIsOld
  <2>2. stateFile' = stateFile \/ stateFile'.run = run
    BY DEF GetState, Opened
  <2> QED BY <2>1, <2>2 DEF GetState, Goto, Raise, Leave, InDirectory, local,
     IInv, StateIsOld, BlockFirst, BeforeState, BeforeCalls, BeforeDirectory
<1>5. SuccessHasBlock' /\ StateBesideBlock'
  <2>1. UNCHANGED <<run, args, blockFile, chain, hash>>
    BY DEF GetState, local
  <2>2. CASE exc' = "error" /\ UNCHANGED stateFile
    BY <2>1, <2>2 DEF IInv, SuccessHasBlock, StateBesideBlock
  <2>3. CASE exc' = exc
    <3>1. args.block =>
             /\ blockFile.kind = "complete" /\ blockFile.run = run
             /\ blockFile.hash = hash /\ IsOfLast(hash)
      BY DEF IInv, GetState, BlockFirst, HashIsOfLast, WithHash
    <3>2. SuccessHasBlock'
      BY <2>1, <3>1 DEF SuccessHasBlock, IsOfLast
    <3>3. /\ stateFile'.run = run /\ stateFile'.kind = "complete"
          /\ args.block /\ args.state
          => stateFile'.hash = hash
      BY StateOfThisRun, <2>3 DEF GetState, Opened, Raise, BeforeState, IInv,
         RunIsOn, StateBesideBlock, BlockFirst
    <3> QED BY <2>1, <3>1, <3>2, <3>3 DEF StateBesideBlock
  <2> QED BY <2>2, <2>3 DEF GetState, Goto, Raise
<1>6. ArtifactsAreGone'
  BY DEF IInv, GetState, ArtifactsAreGone, Goto, Raise, cluster, local, Leave,
     InDirectory, InCluster
<1> QED BY <1>1, <1>2, <1>3, <1>4, <1>5, <1>6 DEF IInv

(* The state gets the hash of the block.                                       *)
LEMMA DumpStateKeeps == ASSUME IInv, DumpState PROVE IInv'
<1>1. TypeOK'
  <2>1. ControlOK'
    BY Frames, LeaveLeads, Parts DEF IInv, DumpState, Goto, Raise, ControlOK,
       Places, Outcomes, InDirectory, InCluster
  <2>2. ClusterOK'
    BY Frames DEF DumpState, cluster
  <2>3. ChainOK'
    BY Frames DEF DumpState, local
  <2>4. FilesOK'
    <3>1. Written(last.id) \in File
      BY Numbers, Parts DEF Written, IInv, ChainOK, File
    <3> QED BY <3>1, Parts DEF IInv, FilesOK, File, DumpState, local
  <2> QED BY <2>1, <2>2, <2>3, <2>4, PartsNext
<1>2. RunIsOn' /\ KilledIsIdle' /\ ModeIsKnown' /\ ConfigHasRoom'
  BY DEF IInv, DumpState, RunIsOn, KilledIsIdle, ModeIsKnown, ConfigHasRoom,
     Goto, Raise, cluster, local, Leave, InDirectory, InCluster
<1>3. /\ NothingDeployed' /\ DeployedInConfig' /\ NothingSubmitted'
      /\ LastIsLast' /\ HashIsOfLast'
  BY DEF IInv, DumpState, NothingDeployed, DeployedInConfig, NothingSubmitted,
     LastIsLast, HashIsOfLast, Goto, Raise, cluster, local, BeforeDirectory,
     BeforeCalls, WithHash, IsOfLast, Leave, InDirectory, InCluster
<1>4. StateIsOld' /\ BlockFirst'
  <2>1. stateFile.run <= run /\ run <= run
    BY Numbers DEF IInv, StateIsOld
  <2>2. stateFile' = stateFile \/ stateFile'.run = run
    BY DEF DumpState, Written
  <2> QED BY <2>1, <2>2 DEF DumpState, Goto, Raise, Leave, InDirectory, local,
     IInv, StateIsOld, BlockFirst, BeforeState, BeforeCalls, BeforeDirectory
<1>5. SuccessHasBlock' /\ StateBesideBlock'
  <2>1. UNCHANGED <<run, args, blockFile, chain, hash>>
    BY DEF DumpState, local
  <2>2. CASE exc' = "error" /\ UNCHANGED stateFile
    BY <2>1, <2>2 DEF IInv, SuccessHasBlock, StateBesideBlock
  <2>3. CASE exc' = exc
    <3>1. args.block =>
             /\ blockFile.kind = "complete" /\ blockFile.run = run
             /\ blockFile.hash = hash /\ IsOfLast(hash)
      BY DEF IInv, DumpState, BlockFirst, HashIsOfLast, WithHash
    <3>2. SuccessHasBlock'
      BY <2>1, <3>1 DEF SuccessHasBlock, IsOfLast
    <3>3. /\ stateFile'.run = run /\ stateFile'.kind = "complete"
          /\ args.block /\ args.state
          => stateFile'.hash = hash
      BY StateOfThisRun, <2>3 DEF DumpState, Written, Raise, BeforeState,
         IInv, RunIsOn, StateBesideBlock, BlockFirst
    <3> QED BY <2>1, <3>1, <3>2, <3>3 DEF StateBesideBlock
  <2> QED BY <2>2, <2>3 DEF DumpState, Goto, Raise
<1>6. ArtifactsAreGone'
  BY DEF IInv, DumpState, ArtifactsAreGone, Goto, Raise, cluster, local,
     Leave, InDirectory, InCluster
<1> QED BY <1>1, <1>2, <1>3, <1>4, <1>5, <1>6 DEF IInv

(* The finally of temp_directory().                                            *)
LEMMA RemoveTreeKeeps == ASSUME IInv, RemoveTree PROVE IInv'
<1>1. TypeOK'
  <2>1. ControlOK'
    BY Frames, LeaveLeads, Parts DEF IInv, RemoveTree, Goto, Raise, ControlOK,
       Places, Outcomes, InDirectory, InCluster
  <2>2. ClusterOK'
    BY Frames DEF RemoveTree, cluster
  <2>3. ChainOK'
    BY Frames DEF RemoveTree, local
  <2>4. FilesOK'
    <3>1. artifacts' \in [exists : BOOLEAN, dirs : SUBSET Nat]
      BY Parts DEF IInv, RemoveTree, FilesOK, NoDirectory
    <3> QED BY <3>1, Parts DEF IInv, FilesOK, File, RemoveTree, files
  <2> QED BY <2>1, <2>2, <2>3, <2>4, PartsNext
<1>2. RunIsOn' /\ KilledIsIdle' /\ ModeIsKnown' /\ ConfigHasRoom'
  BY DEF IInv, RemoveTree, RunIsOn, KilledIsIdle, ModeIsKnown, ConfigHasRoom,
     cluster, files, local
<1>3. /\ NothingDeployed' /\ DeployedInConfig' /\ NothingSubmitted'
      /\ LastIsLast' /\ HashIsOfLast'
  BY DEF IInv, RemoveTree, NothingDeployed, DeployedInConfig,
     NothingSubmitted, LastIsLast, HashIsOfLast, cluster, files, local,
     BeforeDirectory, BeforeCalls, WithHash, IsOfLast
<1>4. StateIsOld' /\ BlockFirst'
  BY DEF IInv, RemoveTree, StateIsOld, BlockFirst, cluster, files, local,
     BeforeState, BeforeCalls, BeforeDirectory
<1>5. SuccessHasBlock' /\ StateBesideBlock'
  BY DEF IInv, RemoveTree, SuccessHasBlock, StateBesideBlock, cluster, files,
     local, IsOfLast
<1>6. ArtifactsAreGone'
  BY Parts DEF IInv, RemoveTree, ArtifactsAreGone, NoDirectory
<1> QED BY <1>1, <1>2, <1>3, <1>4, <1>5, <1>6 DEF IInv

(* The exit of ClusterProcess touches no file.                                 *)
LEMMA ShutdownKeeps == ASSUME IInv, Shutdown PROVE IInv'
<1>1. TypeOK'
  <2>1. ControlOK'
    BY Frames, LeaveLeads, Parts DEF IInv, Shutdown, Goto, Raise, ControlOK,
       Places, Outcomes, InDirectory, InCluster
  <2>2. ClusterOK'
    BY Parts DEF IInv, Shutdown, ClusterOK
  <2>3. ChainOK'
    BY Frames DEF Shutdown, local
  <2>4. FilesOK'
    BY Frames DEF Shutdown, files
  <2> QED BY <2>1, <2>2, <2>3, <2>4, PartsNext
<1>2. RunIsOn' /\ KilledIsIdle' /\ ModeIsKnown' /\ ConfigHasRoom'
  BY DEF IInv, Shutdown, RunIsOn, KilledIsIdle, ModeIsKnown, ConfigHasRoom,
     Goto, files, local
<1>3. /\ NothingDeployed' /\ DeployedInConfig' /\ NothingSubmitted'
      /\ LastIsLast' /\ HashIsOfLast'
  BY DEF IInv, Shutdown, NothingDeployed, DeployedInConfig, NothingSubmitted,
     LastIsLast, HashIsOfLast, Goto, files, local, BeforeDirectory,
     BeforeCalls, WithHash, IsOfLast
<1>4. StateIsOld' /\ BlockFirst'
  BY DEF IInv, Shutdown, StateIsOld, BlockFirst, Goto, files, local,
     BeforeState, BeforeCalls, BeforeDirectory
<1>5. SuccessHasBlock' /\ StateBesideBlock'
  BY DEF IInv, Shutdown, SuccessHasBlock, StateBesideBlock, Goto, files,
     local, IsOfLast
<1>6. ArtifactsAreGone'
  BY DEF IInv, Shutdown, ArtifactsAreGone, Goto, files, local
<1> QED BY <1>1, <1>2, <1>3, <1>4, <1>5, <1>6 DEF IInv

(* The end of the script.                                                      *)
LEMMA ExitKeeps == ASSUME IInv, Exit PROVE IInv'
<1>1. TypeOK'
  <2>1. ControlOK'
    BY Frames, LeaveLeads, Parts DEF IInv, Exit, Goto, Raise, ControlOK,
       Places, Outcomes, InDirectory, InCluster
  <2>2. ClusterOK'
    BY Frames DEF Exit, cluster
  <2>3. ChainOK'
    BY Frames DEF Exit, local
  <2>4. FilesOK'
    BY Frames DEF Exit, files
  <2> QED BY <2>1, <2>2, <2>3, <2>4, PartsNext
<1>2. RunIsOn' /\ KilledIsIdle' /\ ModeIsKnown' /\ ConfigHasRoom'
  BY DEF IInv, Exit, RunIsOn, KilledIsIdle, ModeIsKnown, ConfigHasRoom, Goto,
     cluster, files, local
<1>3. /\ NothingDeployed' /\ DeployedInConfig' /\ NothingSubmitted'
      /\ LastIsLast' /\ HashIsOfLast'
  BY DEF IInv, Exit, NothingDeployed, DeployedInConfig, NothingSubmitted,
     LastIsLast, HashIsOfLast, Goto, cluster, files, local, BeforeDirectory,
     BeforeCalls, WithHash, IsOfLast
<1>4. StateIsOld' /\ BlockFirst'
  BY DEF IInv, Exit, StateIsOld, BlockFirst, Goto, cluster, files, local,
     BeforeState, BeforeCalls, BeforeDirectory
<1>5. SuccessHasBlock' /\ StateBesideBlock'
  BY DEF IInv, Exit, SuccessHasBlock, StateBesideBlock, Goto, cluster, files,
     local, IsOfLast
<1>6. ArtifactsAreGone'
  BY DEF IInv, Exit, ArtifactsAreGone, Goto, cluster, files, local
<1> QED BY <1>1, <1>2, <1>3, <1>4, <1>5, <1>6 DEF IInv

(* An interrupt leaves the scopes: from inside of the directory's it is removed *)
(* next, from outside there is nothing deployed or it is gone.                 *)
LEMMA InterruptKeeps == ASSUME IInv, Interrupt PROVE IInv'
<1>1. TypeOK'
  <2>1. ControlOK'
    <3>1. orphans' \subseteq Runs
      BY Numbers, Parts DEF IInv, ControlOK, Interrupt
    <3>2. hit' \subseteq Places \ {"idle", "exit"}
      BY Parts DEF IInv, ControlOK, Interrupt
    <3>3. pc' \in Places /\ exc' \in Outcomes
      BY LeaveLeads DEF Interrupt, Raise, Places, Outcomes, InDirectory, InCluster
    <3> QED BY <3>1, <3>2, <3>3, Parts DEF IInv, ControlOK, Interrupt
  <2>2. ClusterOK'
    BY Parts DEF IInv, Interrupt, ClusterOK
  <2>3. ChainOK'
    BY Frames DEF Interrupt, local
  <2>4. FilesOK'
    BY Frames DEF Interrupt, files
  <2> QED BY <2>1, <2>2, <2>3, <2>4, PartsNext
<1>2. RunIsOn' /\ KilledIsIdle' /\ ModeIsKnown' /\ ConfigHasRoom'
  BY DEF IInv, Interrupt, RunIsOn, KilledIsIdle, ModeIsKnown, ConfigHasRoom,
     Raise, files, local, Leave, InDirectory, InCluster
<1>3. /\ NothingDeployed' /\ DeployedInConfig' /\ NothingSubmitted'
      /\ LastIsLast' /\ HashIsOfLast'
  BY DEF IInv, Interrupt, NothingDeployed, DeployedInConfig, NothingSubmitted,
     LastIsLast, HashIsOfLast, Raise, files, local, BeforeDirectory,
     BeforeCalls, WithHash, IsOfLast, Leave, InDirectory, InCluster
<1>4. StateIsOld' /\ BlockFirst'
  BY DEF IInv, Interrupt, StateIsOld, BlockFirst, Raise, files, local,
     BeforeState, Leave, BeforeCalls, InDirectory, InCluster, BeforeDirectory
<1>5. SuccessHasBlock' /\ StateBesideBlock'
  BY DEF IInv, Interrupt, SuccessHasBlock, StateBesideBlock, Raise, files,
     local, IsOfLast, Leave, InDirectory, InCluster
<1>6. ArtifactsAreGone'
  <2>1. /\ hit' = hit \cup {pc} /\ UNCHANGED <<deployed, artifacts, args, run>>
        /\ exc' = "interrupt"
    BY DEF Interrupt, Raise, local
  <2>2. CASE pc = "rmtree"
    BY <2>1, <2>2 DEF ArtifactsAreGone
  <2>3. CASE pc \in InDirectory
    BY <2>3 DEF ArtifactsAreGone, Interrupt, Raise, Leave, InDirectory
  <2>4. CASE pc \in BeforeDirectory
    <3>1. deployed = 0 /\ pc' \notin {"idle"}
      BY <2>4, LeaveLeads DEF IInv, NothingDeployed, Interrupt, Raise
    <3>2. CASE pc' = "exit"
      BY <2>1, <3>1, <3>2, FailsBefore
    <3>3. CASE pc' = "terminate"
      BY <2>1, <2>4, <3>3 DEF IInv, ModeIsKnown, ArtifactsAreGone, Interrupt,
         Raise, Leave, BeforeDirectory, InDirectory, InCluster
    <3>4. CASE pc' = "rmtree"
      BY <3>4 DEF ArtifactsAreGone
    <3> QED BY <3>2, <3>3, <3>4, LeaveLeads DEF Interrupt, Raise
  <2>5. CASE pc = "terminate"
    BY <2>1, <2>5 DEF IInv, KilledIsIdle, ArtifactsAreGone, Interrupt, Raise,
       Leave, local, InDirectory, InCluster
  <2> QED BY <2>2, <2>3, <2>4, <2>5, Parts DEF Interrupt, IInv, ControlOK,
     Places, BeforeDirectory, InDirectory, InCluster
<1> QED BY <1>1, <1>2, <1>3, <1>4, <1>5, <1>6 DEF IInv

(* A killed run leaves everything as it is.                                    *)
LEMMA KillKeeps == ASSUME IInv, Kill PROVE IInv'
<1>1. TypeOK'
  <2>1. ControlOK'
    <3>1. orphans' \subseteq Runs
      BY Numbers, Parts DEF IInv, ControlOK, Kill
    <3> QED BY <3>1, Parts DEF IInv, ControlOK, Kill, Places, Outcomes
  <2>2. ClusterOK'
    BY Frames DEF Kill, cluster
  <2>3. ChainOK'
    BY Frames DEF Kill, local
  <2>4. FilesOK'
    BY Frames DEF Kill, files
  <2> QED BY <2>1, <2>2, <2>3, <2>4, PartsNext
<1>2. RunIsOn' /\ KilledIsIdle' /\ ModeIsKnown' /\ ConfigHasRoom'
  BY DEF IInv, Kill, RunIsOn, KilledIsIdle, ModeIsKnown, ConfigHasRoom,
     cluster, files, local
<1>3. /\ NothingDeployed' /\ DeployedInConfig' /\ NothingSubmitted'
      /\ LastIsLast' /\ HashIsOfLast'
  BY DEF IInv, Kill, NothingDeployed, DeployedInConfig, NothingSubmitted,
     LastIsLast, HashIsOfLast, cluster, files, local, BeforeDirectory,
     BeforeCalls, WithHash, IsOfLast
<1>4. StateIsOld' /\ BlockFirst'
  BY DEF IInv, Kill, StateIsOld, BlockFirst, cluster, files, local,
     BeforeState, BeforeCalls, BeforeDirectory
<1>5. SuccessHasBlock' /\ StateBesideBlock'
  BY DEF IInv, Kill, SuccessHasBlock, StateBesideBlock, cluster, files, local,
     IsOfLast
<1>6. ArtifactsAreGone'
  BY DEF IInv, Kill, ArtifactsAreGone, cluster, files, local
<1> QED BY <1>1, <1>2, <1>3, <1>4, <1>5, <1>6 DEF IInv

(* The next run: the files are of earlier ones.                                *)
LEMMA StartKeeps == ASSUME IInv, Start PROVE IInv'
<1>1. TypeOK'
  <2>1. ControlOK'
    <3>1. run \in 0..MaxRuns /\ run < MaxRuns
      BY Numbers DEF Start
    <3>2. run + 1 \in 0..MaxRuns
      BY <3>1, BoundAssumption
    <3> QED BY <3>2, Parts DEF IInv, ControlOK, Start, Places, Outcomes
  <2>2. ClusterOK'
    BY Frames DEF Start, cluster
  <2>3. ChainOK'
    <3>1. NoMessage \in [tx : Nat, id : Nat, at : 0..Len(chain)]
      BY Numbers DEF NoMessage
    <3>2. UNCHANGED chain /\ deployed' = 0 /\ submitted' = 0 /\ last' = NoMessage /\ hash' = 0
      BY DEF Start
    <3> QED BY <3>1, <3>2, Numbers, Parts DEF IInv, ChainOK
  <2>4. FilesOK'
    BY Frames DEF Start, files
  <2> QED BY <2>1, <2>2, <2>3, <2>4, PartsNext
<1>2. RunIsOn' /\ KilledIsIdle' /\ ModeIsKnown' /\ ConfigHasRoom'
  <2>1. run' = run + 1
    BY DEF Start
  <2>2. run' # 0
    BY <2>1, Numbers
  <2> QED BY <2>2 DEF Start, RunIsOn, KilledIsIdle, ModeIsKnown, ConfigHasRoom
<1>3. /\ NothingDeployed' /\ DeployedInConfig' /\ NothingSubmitted'
      /\ LastIsLast' /\ HashIsOfLast'
  BY DEF IInv, Start, NothingDeployed, DeployedInConfig, NothingSubmitted,
     LastIsLast, HashIsOfLast, cluster, files, BeforeDirectory, BeforeCalls,
     WithHash, IsOfLast
<1>4. StateIsOld' /\ BlockFirst'
  <2>1. stateFile.run < run'
    <3>1. run' = run + 1
      BY DEF Start
    <3> QED BY <3>1, StateOfThisRun, Numbers
  <2>2. stateFile.run <= run' /\ UNCHANGED stateFile
    <3>1. run' = run + 1 /\ UNCHANGED stateFile
      BY DEF Start, files
    <3> QED BY <3>1, StateOfThisRun, Numbers
  <2> QED BY <2>1, <2>2 DEF Start, files, StateIsOld, BlockFirst
<1>5. SuccessHasBlock' /\ StateBesideBlock'
  <2>1. run' = run + 1 /\ UNCHANGED stateFile
    BY DEF Start, files
  <2>2. stateFile'.run # run'
    BY <2>1, StateOfThisRun, Numbers
  <2> QED BY <2>2 DEF Start, SuccessHasBlock, StateBesideBlock
<1>6. ArtifactsAreGone'
  BY DEF IInv, Start, ArtifactsAreGone, cluster, files
<1> QED BY <1>1, <1>2, <1>3, <1>4, <1>5, <1>6 DEF IInv

(* A nild that listens or ends is seen by no invariant of the run.             *)
LEMMA ClusterKeeps == ASSUME IInv, NEW r \in Runs, Listen(r) \/ End(r) PROVE IInv'
<1>1. UNCHANGED <<run, pc, args, exc, hit, orphans, chain, config, artifacts,
   files, local>>
  BY DEF Listen, End
<1>2. TypeOK'
  <2>1. ControlOK'
    BY <1>1, Parts DEF IInv, ControlOK
  <2>2. ClusterOK'
    <3>1. /\ port' \in {port, r, 0}
          /\ nild' = nild \/ nild' = [nild EXCEPT ![r] = "gone"]
      BY DEF Listen, End
    <3>2. r \in 0..MaxRuns /\ 0 \in 0..MaxRuns
      BY BoundAssumption DEF Runs
    <3> QED BY <1>1, <3>1, <3>2, Parts DEF IInv, ClusterOK
  <2>3. ChainOK'
    BY <1>1, Frames
  <2>4. FilesOK'
    BY <1>1, Frames
  <2> QED BY <2>1, <2>2, <2>3, <2>4, PartsNext
<1>3. /\ RunIsOn' /\ KilledIsIdle' /\ ModeIsKnown' /\ ConfigHasRoom' /\ NothingDeployed'
      /\ DeployedInConfig' /\ NothingSubmitted' /\ LastIsLast' /\ HashIsOfLast'
  BY <1>1 DEF IInv, RunIsOn, KilledIsIdle, ModeIsKnown, ConfigHasRoom,
     NothingDeployed,
     DeployedInConfig, NothingSubmitted, LastIsLast, HashIsOfLast, IsOfLast, local
<1>4. /\ StateIsOld' /\ BlockFirst' /\ SuccessHasBlock' /\ StateBesideBlock'
      /\ ArtifactsAreGone'
  BY <1>1 DEF IInv, StateIsOld, BlockFirst, SuccessHasBlock, StateBesideBlock,
     ArtifactsAreGone, IsOfLast, files, local
<1> QED BY <1>2, <1>3, <1>4 DEF IInv

(* A stutter keeps it.                                                         *)
LEMMA StutterKeeps == ASSUME IInv, UNCHANGED vars PROVE IInv'
<1>1. /\ UNCHANGED <<run, pc, args, exc, hit, orphans>>
      /\ UNCHANGED <<chain, config, artifacts>>
      /\ UNCHANGED <<cluster, files, local>>
  BY DEF vars
<1>2. TypeOK'
  BY <1>1, Frames, PartsNext, Parts DEF IInv, ControlOK
<1>3. /\ RunIsOn' /\ KilledIsIdle' /\ ModeIsKnown' /\ ConfigHasRoom' /\ NothingDeployed'
      /\ DeployedInConfig' /\ NothingSubmitted' /\ LastIsLast' /\ HashIsOfLast'
  BY <1>1 DEF IInv, RunIsOn, KilledIsIdle, ModeIsKnown, ConfigHasRoom,
     NothingDeployed,
     DeployedInConfig, NothingSubmitted, LastIsLast, HashIsOfLast, IsOfLast, local
<1>4. /\ StateIsOld' /\ BlockFirst' /\ SuccessHasBlock' /\ StateBesideBlock'
      /\ ArtifactsAreGone'
  BY <1>1 DEF IInv, StateIsOld, BlockFirst, SuccessHasBlock, StateBesideBlock,
     ArtifactsAreGone, IsOfLast, files, local
<1> QED BY <1>2, <1>3, <1>4 DEF IInv

(* The invariant holds before the first run.                                   *)
LEMMA InitIsGood == Init => IInv
<1> SUFFICES ASSUME Init PROVE IInv
  OBVIOUS
<1>1. TypeOK
  <2>1. ControlOK
    <3>1. 0 \in 0..MaxRuns
      BY BoundAssumption
    <3> QED BY <3>1 DEF Init, ControlOK, Places, Outcomes
  <2>2. ClusterOK
    <3>1. 0 \in 0..MaxRuns /\ 0 \in 0..4
      BY BoundAssumption
    <3> QED BY <3>1 DEF Init, ClusterOK
  <2>3. Len(chain) \in Nat /\ 0 \in 0..Len(chain)
    <3>1. chain = <<>>
      BY DEF Init
    <3>2. Len(<<>>) = 0 /\ 0 \in Nat /\ 0 \in 0..0
      OBVIOUS
    <3> QED BY <3>1, <3>2
  <2>4. ChainOK
    <3>1. NoMessage \in [tx : Nat, id : Nat, at : 0..Len(chain)]
      BY <2>3 DEF NoMessage
    <3>2. chain = <<>> /\ deployed = 0 /\ submitted = 0 /\ hash = 0 /\ last = NoMessage
      BY DEF Init
    <3>3. chain \in Seq([run : Runs, tx : Nat, id : Nat])
      BY <3>2
    <3> QED BY <2>3, <3>1, <3>2, <3>3 DEF ChainOK
  <2>5. FilesOK
    <3>1. Absent \in File
      BY <2>3, BoundAssumption DEF Absent, File
    <3>2. NoDirectory \in [exists : BOOLEAN, dirs : SUBSET Nat]
      BY DEF NoDirectory
    <3> QED BY <3>1, <3>2 DEF Init, FilesOK
  <2> QED BY <2>1, <2>2, <2>4, <2>5, Parts
<1>2. run = 0 /\ pc = "idle" /\ exc = "" /\ deployed = 0
  BY DEF Init
<1>3. /\ RunIsOn /\ KilledIsIdle /\ ModeIsKnown /\ ConfigHasRoom /\ NothingDeployed
      /\ DeployedInConfig /\ NothingSubmitted /\ LastIsLast /\ HashIsOfLast
  BY <1>2 DEF RunIsOn, KilledIsIdle, ModeIsKnown, ConfigHasRoom, NothingDeployed,
     DeployedInConfig, NothingSubmitted, LastIsLast, HashIsOfLast, BeforeDirectory,
     BeforeCalls, WithHash
<1>4. StateIsOld /\ BlockFirst /\ SuccessHasBlock /\ StateBesideBlock
  <2>1. stateFile.run = run
    BY DEF Init, Absent
  <2>2. run <= run
    <3>1. run \in Nat
      BY <1>2
    <3> QED BY <3>1
  <2> QED BY <1>2, <2>1, <2>2 DEF StateIsOld, BlockFirst, SuccessHasBlock,
     StateBesideBlock,
           BeforeState, BeforeCalls, BeforeDirectory
<1>5. ArtifactsAreGone
  BY DEF Init, ArtifactsAreGone, NoDirectory
<1> QED BY <1>1, <1>3, <1>4, <1>5 DEF IInv

(* Every step keeps it.                                                        *)
LEMMA NextKeeps == IInv /\ [Next]_vars => IInv'
<1> SUFFICES ASSUME IInv, [Next]_vars PROVE IInv'
  OBVIOUS
<1>1. CASE Start
  BY <1>1, StartKeeps
<1>2. CASE Step
  <2>1. CASE ParseArguments \/ ValidateJson \/ RemoveConfig \/ InitConfig \/ Launch \/ Sleep
    BY <2>1, ParseArgumentsKeeps, ValidateJsonKeeps, RemoveConfigKeeps,
       InitConfigKeeps,
       LaunchKeeps, SleepKeeps
  <2>2. CASE NewWallet \/ MakeDirectory \/ SolcCompile \/ Deploy \/ Call \/ Submitted
    BY <2>2, NewWalletKeeps, MakeDirectoryKeeps, SolcCompileKeeps,
       DeployKeeps, CallKeeps,
       SubmittedKeeps
  <2>3. CASE GetBlockHash \/ GetBlock \/ DumpBlock \/ GetState \/ DumpState
    BY <2>3, GetBlockHashKeeps, GetBlockKeeps, DumpBlockKeeps, GetStateKeeps,
       DumpStateKeeps
  <2>4. CASE RemoveTree \/ Shutdown \/ Exit
    BY <2>4, RemoveTreeKeeps, ShutdownKeeps, ExitKeeps
  <2> QED BY <1>2, <2>1, <2>2, <2>3, <2>4 DEF Step
<1>3. CASE Interrupt \/ Kill
  BY <1>3, InterruptKeeps, KillKeeps
<1>4. CASE \E r \in Runs : Listen(r) \/ End(r)
  BY <1>4, ClusterKeeps
<1>5. CASE UNCHANGED vars
  BY <1>5, StutterKeeps
<1> QED BY <1>1, <1>2, <1>3, <1>4, <1>5 DEF Next

--------------------------------------------------------------------------------

(* The inductive invariant.                                                    *)
THEOREM Invariance == Spec => []IInv
<1>1. Init => IInv
  BY InitIsGood
<1>2. IInv /\ [Next]_vars => IInv'
  BY NextKeeps
<1> QED BY <1>1, <1>2, PTL DEF Spec

(* The variables keep their types, over all configs, arguments and runs.       *)
THEOREM TypeCorrect == Spec => []TypeOK
<1>1. IInv => TypeOK
  BY DEF IInv
<1> QED BY <1>1, Invariance, PTL

(* However a run of generate-block ends, it leaves no directory of artifacts   *)
(* and removes the one it finds, unless it is killed, interrupted in rmtree or *)
(* fails before it gets to mkdir: the finally of temp_directory.               *)
THEOREM ArtifactsRemoved == Spec => []ArtifactsAreGone
<1>1. IInv => ArtifactsAreGone
  BY DEF IInv
<1> QED BY <1>1, Invariance, PTL

(* The state of a run is written beside the complete block of the same run, of *)
(* the same place in the chain, and a run that succeeds has written the block  *)
(* of its last transaction, whatever other runs left in the files.             *)
THEOREM FilesAreOfOneRun == Spec => []FilesBelongTogether
<1>1. IInv => FilesBelongTogether
  BY DEF IInv, SuccessHasBlock, StateBesideBlock, IsOfLast, FilesBelongTogether
<1> QED BY <1>1, Invariance, PTL
================================================================================
