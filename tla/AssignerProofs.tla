---------------------------- MODULE AssignerProofs -----------------------------
(* What holds of every run of the assigner, for all options, codes, blocks and *)
(* replies: an account is fetched once and keeps what was done to it, so that  *)
(* the code that is evaluated is the code of the account before the block.     *)
EXTENDS Assigner, TLAPS, NaturalsInduction, WellFoundedInduction

Running == {"host", "message", "copy", "evaluate"}

\* Nothing is known or done before the block and the accounts are loaded.
NothingYet ==
    pc \in {"options", "block", "accounts"} =>
        DOMAIN accounts = {} /\ table = <<>> /\ next = 1

\* The parent is known to the host.
ParentIsKnown ==
    pc \in Running \cup {"accounts"} /\ opts.source # "unparented" => prevBlock = Parent

\* No account of the state file is fetched.
FileIsLoaded ==
    pc \in Running /\ opts.state = "file" =>
        DOMAIN Loaded(opts.entries) \subseteq DOMAIN accounts

\* The host has every account as it was before the block.
AccountsAreBefore ==
    opts.source # "unparented" =>
        \A a \in DOMAIN accounts : accounts[a].code = CodeBefore(a)

\* The size taken is the size of the code that will be found, or there is none
\* to be found.
SizeIsKnown ==
    pc = "copy" =>
        LET to == messages[next].to IN
        \/ to \in DOMAIN accounts /\ size = Size[accounts[to].code]
        \/ to \in errors /\ size = 0

\* The code to be evaluated next.
CodeIsBefore ==
    pc = "evaluate" /\ opts.source # "unparented" =>
        LET to == messages[next].to IN
        \/ code = CodeBefore(to)
        \/ code = Empty /\ to \in errors

TableIsOfMessages == \A i \in DOMAIN table : table[i].message \in 1..Len(messages)

TablesAreWritten ==
    /\ pc \in {"artifacts", "check"} => DOMAIN files = Tables
    /\ SuccessIsWritten

IInv ==
    /\ TypeOK /\ NothingYet /\ ParentIsKnown /\ FileIsLoaded /\ AccountsAreBefore
    /\ SizeIsKnown /\ CodeIsBefore /\ TableIsOfMessages /\ EvaluatesCodeBefore
    /\ TablesAreWritten

--------------------------------------------------------------------------------

(* Among the entries of a state file for one address there is a last one:      *)
(* account_storage[account_address] = account leaves that one.                 *)
LEMMA LastEntry ==
    ASSUME NEW entries \in Seq(Address \X Code), NEW k \in DOMAIN entries
    PROVE  \E i \in DOMAIN entries :
              /\ entries[i][1] = entries[k][1]
              /\ \A j \in DOMAIN entries : entries[j][1] = entries[k][1] => j <= i
<1> DEFINE At == {i \in DOMAIN entries : entries[i][1] = entries[k][1]}
           Left == {Len(entries) - i : i \in At}
<1>1. Len(entries) \in Nat /\ DOMAIN entries = 1..Len(entries)
  OBVIOUS
<1>2. Left \subseteq Nat /\ Left # {}
  BY <1>1
<1>3. \E x \in Left : \A y \in Left : ~(<<y, x>> \in OpToRel(<, Nat))
  <2> HIDE DEF Left
  <2> QED BY <1>2, NatLessThanWellFounded, WFMin, Zenon
<1>4. PICK x \in Left : \A y \in Left : ~(<<y, x>> \in OpToRel(<, Nat))
  BY <1>3
<1>5. \A y \in Left : x <= y
  <2> SUFFICES ASSUME NEW y \in Left PROVE x <= y
    OBVIOUS
  <2>1. x \in Nat /\ y \in Nat
    BY <1>2
  <2>2. ~(y < x)
    BY <1>4, <2>1 DEF OpToRel
  <2> QED BY <2>1, <2>2
<1>6. PICK i \in At : x = Len(entries) - i
  OBVIOUS
<1>7. ASSUME NEW j \in At PROVE j <= i
  <2>1. Len(entries) - j \in Left
    OBVIOUS
  <2>2. Len(entries) - i <= Len(entries) - j
    BY <1>5, <1>6, <2>1
  <2>3. i \in Nat /\ j \in Nat
    BY <1>1
  <2> QED BY <1>1, <2>2, <2>3
<1> QED BY <1>6, <1>7

(* init_account_storage() gives the host well-formed accounts.                 *)
LEMMA LoadedIsTyped ==
    ASSUME NEW entries \in Seq(Address \X Code)
    PROVE  /\ DOMAIN Loaded(entries) \subseteq Address
           /\ \A a \in DOMAIN Loaded(entries) :
                 Loaded(entries)[a] \in
                     [code : Code, origin : BlockHash \cup {"file"}, writes : Nat]
<1> DEFINE Last(a) == CHOOSE i \in DOMAIN entries :
              /\ entries[i][1] = a
              /\ \A j \in DOMAIN entries : entries[j][1] = a => j <= i
<1>1. DOMAIN Loaded(entries) = {entries[i][1] : i \in DOMAIN entries}
  BY DEF Loaded
<1>2. \A i \in DOMAIN entries : entries[i][1] \in Address /\ entries[i][2] \in Code
  OBVIOUS
<1>3. ASSUME NEW a \in DOMAIN Loaded(entries)
      PROVE  Loaded(entries)[a] \in
                 [code : Code, origin : BlockHash \cup {"file"}, writes : Nat]
  <2>1. PICK k \in DOMAIN entries : entries[k][1] = a
    BY <1>1, <1>3
  <2>2. Last(a) \in DOMAIN entries
    BY <2>1, LastEntry
  <2>3. Loaded(entries)[a] = NewAccount(entries[Last(a)][2], "file")
    BY <1>1, <1>3 DEF Loaded
  <2> QED BY <1>2, <2>2, <2>3 DEF NewAccount
<1> QED BY <1>1, <1>2, <1>3

(* get_account() keeps the accounts known, adds at most the one asked for, in  *)
(* its state at the parent block, or logs its error.                           *)
LEMMA GetAccountKeeps ==
    ASSUME AccountsOK, prevBlock \in BlockHash, NEW a \in Address, GetAccount(a)
    PROVE  /\ AccountsOK'
           /\ errors \subseteq errors'
           /\ DOMAIN accounts \subseteq DOMAIN accounts'
           /\ DOMAIN accounts' \subseteq DOMAIN accounts \cup {a}
           /\ \A b \in DOMAIN accounts : accounts'[b] = accounts[b]
           /\ a \in DOMAIN accounts' \/ a \in errors'
           /\ a \in DOMAIN accounts' /\ a \notin DOMAIN accounts =>
                 accounts'[a].code = CodeAt[prevBlock][a]
<1>1. CASE UNCHANGED accounts /\ (UNCHANGED errors \/ errors' = errors \cup {a})
  BY <1>1 DEF AccountsOK, GetAccount, Fetch
<1>2. CASE /\ a \notin DOMAIN accounts
           /\ CodeAt[prevBlock][a] # Absent
           /\ accounts' = [b \in DOMAIN accounts \cup {a} |->
                 IF b = a THEN NewAccount(CodeAt[prevBlock][a], prevBlock) ELSE accounts[b]]
           /\ UNCHANGED errors
  <2>1. CodeAt[prevBlock][a] \in Code
    BY <1>2, AssignerAssumption
  <2>2. NewAccount(CodeAt[prevBlock][a], prevBlock) \in
            [code : Code, origin : BlockHash \cup {"file"}, writes : Nat]
    BY <2>1 DEF NewAccount
  <2>3. accounts'[a] = NewAccount(CodeAt[prevBlock][a], prevBlock)
    BY <1>2
  <2>4. \A b \in DOMAIN accounts : accounts'[b] = accounts[b]
    BY <1>2
  <2>5. DOMAIN accounts' = DOMAIN accounts \cup {a}
    BY <1>2
  <2>6. accounts'[a].code = CodeAt[prevBlock][a]
    BY <2>3 DEF NewAccount
  <2> QED BY <1>2, <2>2, <2>3, <2>4, <2>5, <2>6 DEF AccountsOK
<1> QED BY <1>1, <1>2 DEF GetAccount, Fetch

(* A call of get_account() by the evaluation keeps what is said of accounts.   *)
LEMMA GetAccountIsBefore ==
    ASSUME TypeOK, AccountsAreBefore, FileIsLoaded, ParentIsKnown,
           pc \in Running, UNCHANGED opts, NEW a \in Address, GetAccount(a)
    PROVE  AccountsAreBefore' /\ (pc' \in Running => FileIsLoaded')
<1> USE DEF Running
<1>1. prevBlock \in BlockHash /\ AccountsOK
  BY DEF TypeOK
<1>2. /\ DOMAIN accounts \subseteq DOMAIN accounts'
      /\ DOMAIN accounts' \subseteq DOMAIN accounts \cup {a}
      /\ \A b \in DOMAIN accounts : accounts'[b] = accounts[b]
      /\ a \in DOMAIN accounts' /\ a \notin DOMAIN accounts =>
            accounts'[a].code = CodeAt[prevBlock][a]
  BY <1>1, GetAccountKeeps
<1>3. pc' \in Running => FileIsLoaded'
  BY <1>2 DEF FileIsLoaded
<1>4. ASSUME opts.source # "unparented", NEW b \in DOMAIN accounts'
      PROVE  accounts'[b].code = CodeBefore(b)
  <2>1. CASE b \in DOMAIN accounts
    BY <1>2, <1>4, <2>1 DEF AccountsAreBefore
  <2>2. CASE b = a /\ a \notin DOMAIN accounts
    <3>1. opts.state = "file" => a \notin DOMAIN Loaded(opts.entries)
      BY <2>2 DEF FileIsLoaded
    <3>2. prevBlock = Parent
      BY <1>4 DEF ParentIsKnown
    <3> QED BY <1>2, <1>4, <2>2, <3>1, <3>2 DEF CodeBefore
  <2> QED BY <1>2, <1>4, <2>1, <2>2
<1>5. \A b : CodeBefore(b)' = CodeBefore(b)
  BY DEF CodeBefore
<1> QED BY <1>3, <1>4, <1>5 DEF AccountsAreBefore

--------------------------------------------------------------------------------

(* The runner is constructed without block, messages or accounts.              *)
LEMMA InitIsInv == Init => IInv
<1> SUFFICES ASSUME Init PROVE IInv
  OBVIOUS
<1> USE DEF Init
<1>1. opts.source # "unparented" => DOMAIN accounts = {}
  OBVIOUS
<1>2. TypeOK
  BY AssignerAssumption DEF TypeOK, AccountsOK, Ended
<1>3. NothingYet /\ ParentIsKnown /\ FileIsLoaded /\ SizeIsKnown /\ CodeIsBefore
  BY DEF NothingYet, ParentIsKnown, FileIsLoaded, SizeIsKnown, CodeIsBefore, Running
<1>4. AccountsAreBefore /\ TableIsOfMessages /\ EvaluatesCodeBefore /\ TablesAreWritten
  BY DEF AccountsAreBefore, TableIsOfMessages, EvaluatesCodeBefore, TablesAreWritten,
         SuccessIsWritten
<1> QED BY <1>2, <1>3, <1>4 DEF IInv

(* The steps of main() up to the first message.                                *)
LEMMA LoadingKeepsInv ==
    ASSUME IInv, ParseOptions \/ LoadBlock \/ LoadAccounts PROVE IInv'
<1> USE DEF IInv
<1>1. UNCHANGED opts /\ UNCHANGED <<message, table, output, errors>>
  BY DEF ParseOptions, LoadBlock, LoadAccounts
<1>2. \A b : CodeBefore(b)' = CodeBefore(b)
  BY <1>1 DEF CodeBefore
<1>3. opts \in Options /\ opts.entries \in Seq(Address \X Code)
  BY AssignerAssumption DEF TypeOK
<1>4. pc \in {"options", "block", "accounts"} /\ DOMAIN accounts = {} /\ table = <<>> /\ next = 1
  BY DEF ParseOptions, LoadBlock, LoadAccounts, NothingYet
<1>5. TypeOK'
  <2>1. CASE ParseOptions
    BY <2>1 DEF TypeOK, AccountsOK, ParseOptions, Go, Ended, block, message, output
  <2>2. CASE LoadBlock
    <3>1. \A content \in Contents : content.price \in Nat /\ content.messages \in Seq(Message)
      BY AssignerAssumption
    <3>2. block' = block \/ (price' \in Nat /\ messages' \in Seq(Message))
      BY <2>2, <3>1 DEF LoadBlock
    <3>3. prevBlock' \in BlockHash
      BY <2>2, AssignerAssumption DEF LoadBlock, TypeOK, block
    <3>4. pc' \in Ended \cup {"block", "accounts"} /\ accounts' = accounts
      BY <2>2 DEF LoadBlock, Go, Ended
    <3>5. next' \in 1..Len(messages)' + 1
      BY <1>1, <1>4, <3>2 DEF message, block, TypeOK
    <3> QED BY <1>1, <3>2, <3>3, <3>4, <3>5 DEF TypeOK, AccountsOK, Ended, block, message, output
  <2>3. CASE LoadAccounts
    <3>1. accounts' = accounts \/ accounts' = Loaded(opts.entries)
      BY <2>3 DEF LoadAccounts
    <3>2. AccountsOK'
      BY <1>1, <1>3, <3>1, LoadedIsTyped DEF AccountsOK, TypeOK
    <3>3. pc' \in Ended \cup {"accounts", "host"} /\ UNCHANGED block
      BY <2>3 DEF LoadAccounts, Go, Ended
    <3> QED BY <1>1, <3>2, <3>3 DEF TypeOK, Ended, block, message, output
  <2> QED BY <2>1, <2>2, <2>3
<1>6. pc' \notin {"copy", "evaluate", "artifacts", "check"}
  BY DEF ParseOptions, LoadBlock, LoadAccounts, Go
<1>7. NothingYet'
  BY <1>1, <1>4 DEF NothingYet, ParseOptions, LoadBlock, LoadAccounts, Go, message
<1>8. ParentIsKnown'
  BY DEF ParentIsKnown, ParseOptions, LoadBlock, LoadAccounts, Go, Running, block
<1>9. FileIsLoaded'
  BY <1>1 DEF FileIsLoaded, ParseOptions, LoadBlock, LoadAccounts, Go, Running
<1>10. AccountsAreBefore'
  <2>1. CASE accounts' = accounts
    BY <1>1, <1>2, <1>4, <2>1 DEF AccountsAreBefore
  <2>2. CASE opts.state = "file" /\ accounts' = Loaded(opts.entries)
    BY <1>1, <1>2, <2>2 DEF AccountsAreBefore, CodeBefore
  <2> QED BY <2>1, <2>2 DEF ParseOptions, LoadBlock, LoadAccounts
<1>11. SizeIsKnown' /\ CodeIsBefore'
  BY <1>6 DEF SizeIsKnown, CodeIsBefore
<1>12. TableIsOfMessages' /\ EvaluatesCodeBefore'
  BY <1>1, <1>4 DEF TableIsOfMessages, EvaluatesCodeBefore
<1>13. TablesAreWritten'
  <2>1. pc' = "exit0" => opts.line = "help" \/ opts.curve \in {"vesta", "ed25519"}
    BY DEF ParseOptions, LoadBlock, LoadAccounts, Go, AsksForHelp
  <2> QED BY <1>1, <1>6, <2>1 DEF TablesAreWritten, SuccessIsWritten, Supported
<1> QED BY <1>5, <1>7, <1>8, <1>9, <1>10, <1>11, <1>12, <1>13

(* A change of one account that is known, by set_storage and the like.         *)
LEMMA WriteKeeps ==
    ASSUME AccountsOK, NEW a \in DOMAIN accounts, UNCHANGED errors,
           accounts' = [accounts EXCEPT ![a].writes = @ + 1]
    PROVE  /\ AccountsOK'
           /\ DOMAIN accounts' = DOMAIN accounts
           /\ \A b \in DOMAIN accounts :
                 /\ accounts'[b].code = accounts[b].code
                 /\ accounts'[b].origin = accounts[b].origin
                 /\ accounts'[b].writes >= accounts[b].writes
<1> USE DEF AccountsOK
<1>1. DOMAIN accounts' = DOMAIN accounts
  OBVIOUS
<1>2. ASSUME NEW b \in DOMAIN accounts
      PROVE  /\ accounts'[b] \in
                   [code : Code, origin : BlockHash \cup {"file"}, writes : Nat]
             /\ accounts'[b].code = accounts[b].code
             /\ accounts'[b].origin = accounts[b].origin
             /\ accounts'[b].writes >= accounts[b].writes
  <2>1. CASE b = a
    <3>1. accounts'[b] = [accounts[a] EXCEPT !.writes = @ + 1]
      BY <2>1
    <3>2. accounts[a] \in [code : Code, origin : BlockHash \cup {"file"}, writes : Nat]
      OBVIOUS
    <3> QED BY <2>1, <3>1, <3>2
  <2>2. CASE b # a
    <3>1. accounts'[b] = accounts[b]
      BY <2>2
    <3>2. accounts[b] \in [code : Code, origin : BlockHash \cup {"file"}, writes : Nat]
      OBVIOUS
    <3> QED BY <3>1, <3>2
  <2> QED BY <2>1, <2>2
<1> QED BY <1>1, <1>2

(* What get_code_size() says is what copy_code() will find.                    *)
LEMMA TakeMessageKeepsInv == ASSUME IInv, TakeMessage PROVE IInv'
<1> USE DEF IInv
<1> DEFINE to == messages[next].to
<1>1. UNCHANGED <<opts, prevBlock, price, messages, next, code, table, files, exported>>
  BY DEF TakeMessage, block, output
<1>2. /\ pc = "message" /\ pc' = "copy" /\ next <= Len(messages)
      /\ gas' \in Nat /\ size' = Size[CodeOf(accounts', to)]
      /\ GetAccount(to)
  BY AssignerAssumption DEF TakeMessage, Go
<1>3. to \in Address
  <2>1. messages[next] \in Message
    BY <1>2 DEF TypeOK
  <2> QED BY <2>1 DEF Message
<1>4. AccountsOK /\ prevBlock \in BlockHash
  BY DEF TypeOK
<1>5. /\ AccountsOK' /\ errors \subseteq errors'
      /\ to \in DOMAIN accounts' \/ to \in errors'
  BY <1>2, <1>3, <1>4, GetAccountKeeps
<1>6. AccountsAreBefore' /\ FileIsLoaded'
  BY <1>1, <1>2, <1>3, GetAccountIsBefore DEF Running
<1>7. CodeOf(accounts', to) \in Code /\ size' \in Nat
  BY <1>2, <1>5, AssignerAssumption DEF CodeOf, AccountsOK
<1>8. TypeOK'
  BY <1>1, <1>2, <1>5, <1>7 DEF TypeOK, Ended
<1>9. SizeIsKnown'
  BY <1>1, <1>2, <1>5, AssignerAssumption DEF SizeIsKnown, CodeOf
<1>10. \A b : CodeBefore(b)' = CodeBefore(b)
  BY <1>1 DEF CodeBefore
<1>11. TableIsOfMessages' /\ EvaluatesCodeBefore'
  BY <1>1, <1>5, <1>10 DEF TableIsOfMessages, EvaluatesCodeBefore
<1>12. NothingYet' /\ ParentIsKnown' /\ CodeIsBefore' /\ TablesAreWritten'
  BY <1>1, <1>2 DEF NothingYet, ParentIsKnown, CodeIsBefore, TablesAreWritten,
                    SuccessIsWritten, Running
<1> QED BY <1>6, <1>8, <1>9, <1>11, <1>12

(* copy_code() finds as much code as was announced.                            *)
LEMMA CopyCodeKeepsInv == ASSUME IInv, CopyCode PROVE IInv' /\ pc' = "evaluate"
<1> USE DEF IInv
<1> DEFINE to == messages[next].to
           found == CodeOf(accounts', to)
<1>1. UNCHANGED <<opts, prevBlock, price, messages, next, size, gas, table, files, exported>>
  BY DEF CopyCode, block, output
<1>2. /\ pc = "copy" /\ next <= Len(messages)
      /\ code' = IF size = 0 THEN Empty ELSE found
      /\ pc' = IF Size[found] >= size THEN "evaluate" ELSE "binary"
      /\ GetAccount(to)
  BY DEF CopyCode, Go, TypeOK
<1>3. to \in Address
  <2>1. messages[next] \in Message
    BY <1>2 DEF TypeOK
  <2> QED BY <2>1 DEF Message
<1>4. AccountsOK /\ prevBlock \in BlockHash
  BY DEF TypeOK
<1>5. /\ AccountsOK' /\ errors \subseteq errors'
      /\ DOMAIN accounts \subseteq DOMAIN accounts'
      /\ \A b \in DOMAIN accounts : accounts'[b] = accounts[b]
  BY <1>2, <1>3, <1>4, GetAccountKeeps
<1>6. found \in Code
  BY <1>5, AssignerAssumption DEF CodeOf, AccountsOK
<1>7. \/ to \in DOMAIN accounts /\ size = Size[accounts[to].code]
      \/ to \in errors /\ size = 0
  BY <1>2 DEF SizeIsKnown
<1>8. pc' = "evaluate"
  <2>1. Size[found] \in Nat
    BY <1>6, AssignerAssumption
  <2>2. to \in DOMAIN accounts => found = accounts[to].code
    BY <1>5 DEF CodeOf
  <2> QED BY <1>2, <1>7, <2>1, <2>2
<1>9. AccountsAreBefore' /\ FileIsLoaded'
  BY <1>1, <1>2, <1>3, <1>8, GetAccountIsBefore DEF Running
<1>10. \A b : CodeBefore(b)' = CodeBefore(b)
  BY <1>1 DEF CodeBefore
<1>11. CodeIsBefore'
  <2>1. CASE to \in DOMAIN accounts /\ size = Size[accounts[to].code]
    <3>1. accounts[to].code \in Code
      BY <1>4, <2>1 DEF AccountsOK
    <3>2. code' = accounts[to].code
      BY <1>2, <1>5, <2>1, <3>1, AssignerAssumption DEF CodeOf
    <3> QED BY <1>1, <1>10, <2>1, <3>2 DEF CodeIsBefore, AccountsAreBefore
  <2>2. CASE to \in errors /\ size = 0
    BY <1>1, <1>2, <1>5, <2>2 DEF CodeIsBefore
  <2> QED BY <1>7, <2>1, <2>2
<1>12. TypeOK'
  BY <1>1, <1>2, <1>5, <1>6, <1>8, AssignerAssumption DEF TypeOK, Ended
<1>13. TableIsOfMessages' /\ EvaluatesCodeBefore'
  BY <1>1, <1>5, <1>10 DEF TableIsOfMessages, EvaluatesCodeBefore
<1>14. NothingYet' /\ ParentIsKnown' /\ SizeIsKnown' /\ TablesAreWritten'
  BY <1>1, <1>2, <1>8 DEF NothingYet, ParentIsKnown, SizeIsKnown, TablesAreWritten,
                    SuccessIsWritten, Running
<1> QED BY <1>8, <1>9, <1>11, <1>12, <1>13, <1>14

(* The EVM leaves the codes of the accounts alone.                             *)
LEMMA CallHostKeepsInv == ASSUME IInv, CallHost PROVE IInv'
<1> USE DEF IInv
<1> DEFINE to == messages[next].to
<1>1. UNCHANGED <<opts, pc, prevBlock, price, messages, next, size, code, table, files, exported>>
  BY DEF CallHost, block, output
<1>2. pc = "evaluate" /\ next <= Len(messages) /\ gas' \in Nat
  BY DEF CallHost, TypeOK
<1>3. AccountsOK /\ prevBlock \in BlockHash
  BY DEF TypeOK
<1>4. \A b : CodeBefore(b)' = CodeBefore(b)
  BY <1>1 DEF CodeBefore
<1>5. AccountsOK' /\ errors \subseteq errors' /\ AccountsAreBefore' /\ FileIsLoaded'
  <2>1. ASSUME NEW a \in Address, GetAccount(a)
        PROVE  AccountsOK' /\ errors \subseteq errors' /\ AccountsAreBefore' /\ FileIsLoaded'
    <3>1. AccountsOK' /\ errors \subseteq errors'
      BY <1>3, <2>1, GetAccountKeeps
    <3>2. AccountsAreBefore' /\ FileIsLoaded'
      BY <1>1, <1>2, <2>1, GetAccountIsBefore DEF Running
    <3> QED BY <3>1, <3>2
  <2>2. ASSUME NEW a \in DOMAIN accounts, UNCHANGED errors,
               accounts' = [accounts EXCEPT ![a].writes = @ + 1]
        PROVE  AccountsOK' /\ errors \subseteq errors' /\ AccountsAreBefore' /\ FileIsLoaded'
    <3>1. /\ AccountsOK'
          /\ DOMAIN accounts' = DOMAIN accounts
          /\ \A b \in DOMAIN accounts : accounts'[b].code = accounts[b].code
      BY <1>3, <2>2, WriteKeeps
    <3>2. AccountsAreBefore'
      BY <1>1, <1>4, <3>1 DEF AccountsAreBefore
    <3>3. FileIsLoaded'
      BY <1>1, <3>1 DEF FileIsLoaded
    <3> QED BY <2>2, <3>1, <3>2, <3>3
  <2> QED BY <2>1, <2>2 DEF CallHost
<1>6. TypeOK'
  BY <1>1, <1>2, <1>5 DEF TypeOK
<1>7. CodeIsBefore' /\ TableIsOfMessages' /\ EvaluatesCodeBefore'
  BY <1>1, <1>4, <1>5 DEF CodeIsBefore, TableIsOfMessages, EvaluatesCodeBefore
<1>8. NothingYet' /\ ParentIsKnown' /\ SizeIsKnown' /\ TablesAreWritten'
  BY <1>1, <1>2 DEF NothingYet, ParentIsKnown, SizeIsKnown, TablesAreWritten,
                    SuccessIsWritten
<1> QED BY <1>5, <1>6, <1>7, <1>8

(* The elements of a sequence with one more element.                           *)
LEMMA Appended ==
    ASSUME NEW S, NEW s \in Seq(S), NEW e \in S
    PROVE  /\ Append(s, e) \in Seq(S)
           /\ \A i \in DOMAIN Append(s, e) :
                 (i \in DOMAIN s /\ Append(s, e)[i] = s[i]) \/ Append(s, e)[i] = e
OBVIOUS

(* The result of evaluate() is that of the code it was given.                  *)
LEMMA EvaluatedKeepsInv == ASSUME IInv, Evaluated PROVE IInv'
<1> USE DEF IInv
<1> DEFINE to == messages[next].to
           row == [message |-> next, kind |-> CallKind(messages[next]), code |-> code]
<1>1. /\ UNCHANGED <<opts, prevBlock, price, messages, accounts, size, code, gas>>
      /\ UNCHANGED <<files, exported, errors>>
      /\ next' = next + 1 /\ pc' = "message"
      /\ table' = Append(table, row) \/ table' = table
  BY DEF Evaluated, block, output, Go
<1>2. pc = "evaluate" /\ next \in 1..Len(messages)
  BY DEF Evaluated, TypeOK
<1>3. /\ row \in [message : Nat, kind : Kinds, code : Code]
      /\ table \in Seq([message : Nat, kind : Kinds, code : Code])
  BY <1>2 DEF TypeOK, CallKind, Kinds
<1>4. /\ table' \in Seq([message : Nat, kind : Kinds, code : Code])
      /\ \A i \in DOMAIN table' :
            (i \in DOMAIN table /\ table'[i] = table[i]) \/ table'[i] = row
  <2> DEFINE S == [message : Nat, kind : Kinds, code : Code]
  <2>1. table \in Seq(S) /\ row \in S
    BY <1>3
  <2> HIDE DEF row, S
  <2>2. /\ Append(table, row) \in Seq(S)
        /\ \A i \in DOMAIN Append(table, row) :
              \/ i \in DOMAIN table /\ Append(table, row)[i] = table[i]
              \/ Append(table, row)[i] = row
    BY <2>1, Appended
  <2>3. /\ table' \in Seq(S)
        /\ \A i \in DOMAIN table' :
              (i \in DOMAIN table /\ table'[i] = table[i]) \/ table'[i] = row
    BY <1>1, <2>1, <2>2, Zenon
  <2> QED BY <2>3 DEF S
<1>5. \A b : CodeBefore(b)' = CodeBefore(b)
  BY <1>1 DEF CodeBefore
<1>6. TypeOK'
  <2>1. table' \in Seq([message : Nat, kind : Kinds, code : Code])
    BY <1>4
  <2>2. next' \in 1..Len(messages)' + 1
    BY <1>1, <1>2 DEF TypeOK
  <2> QED BY <1>1, <2>1, <2>2 DEF TypeOK, AccountsOK, Ended
<1>7. TableIsOfMessages'
  BY <1>1, <1>2, <1>4 DEF TableIsOfMessages
<1>8. EvaluatesCodeBefore'
  <2> SUFFICES ASSUME opts.source # "unparented", NEW i \in DOMAIN table'
               PROVE  LET r == messages[table'[i].message].to IN
                      \/ table'[i].code = CodeBefore(r)
                      \/ table'[i].code = Empty /\ r \in errors
    BY <1>1, <1>5 DEF EvaluatesCodeBefore
  <2>1. CASE i \in DOMAIN table /\ table'[i] = table[i]
    BY <2>1 DEF EvaluatesCodeBefore
  <2>2. CASE table'[i] = row
    BY <1>2, <2>2 DEF CodeIsBefore
  <2> QED BY <1>4, <2>1, <2>2
<1>9. AccountsAreBefore' /\ FileIsLoaded' /\ ParentIsKnown'
  BY <1>1, <1>2, <1>5 DEF AccountsAreBefore, FileIsLoaded, ParentIsKnown, Running
<1>10. NothingYet' /\ SizeIsKnown' /\ CodeIsBefore' /\ TablesAreWritten'
  BY <1>1 DEF NothingYet, SizeIsKnown, CodeIsBefore, TablesAreWritten, SuccessIsWritten
<1> QED BY <1>6, <1>7, <1>8, <1>9, <1>10

(* The steps that leave the block, the accounts and the table as they are.     *)
LEMMA OutputKeepsInv ==
    ASSUME IInv,
           \/ MakeHost \/ SkipMessage \/ DivideByZero \/ HostThrows \/ EndOfMessages
           \/ WriteBinary \/ WriteArtifacts \/ Check \/ UNCHANGED vars
    PROVE  IInv'
<1> USE DEF IInv
<1> DEFINE Step == \/ MakeHost \/ SkipMessage \/ DivideByZero \/ HostThrows \/ EndOfMessages
                   \/ WriteBinary \/ WriteArtifacts \/ Check \/ UNCHANGED vars
<1>1. UNCHANGED <<opts, prevBlock, price, messages, accounts, size, code, gas, table, errors>>
  BY DEF MakeHost, SkipMessage, DivideByZero, HostThrows, EndOfMessages, WriteBinary,
         WriteArtifacts, Check, vars, block, message, output
<1>2. \/ pc' = pc /\ next' = next
      \/ pc = "host" /\ pc' = "message" /\ next' = next
      \/ pc' = pc /\ pc = "message" /\ next <= Len(messages) /\ next' = next + 1
      \/ /\ pc \in Running \cup {"binary", "artifacts", "check"} /\ next' = next
         /\ pc' \in Ended \cup {"binary", "artifacts", "check"}
  BY DEF MakeHost, SkipMessage, DivideByZero, HostThrows, EndOfMessages, WriteBinary,
         WriteArtifacts, Check, vars, message, Running, Ended, Go
<1>3. \A b : CodeBefore(b)' = CodeBefore(b)
  BY <1>1 DEF CodeBefore
<1>4. exported' \subseteq {"bytecode"}
  <2>1. exported' = exported \/ exported' \subseteq Tables
    BY DEF MakeHost, SkipMessage, DivideByZero, HostThrows, EndOfMessages, WriteBinary,
           WriteArtifacts, Check, vars, output
  <2> QED BY <2>1 DEF TypeOK, Tables, InitializeBytecode
<1>5. TypeOK'
  <2>1. next' \in 1..Len(messages)' + 1 /\ (pc' \in {"copy", "evaluate"} => next' <= Len(messages)')
    BY <1>1, <1>2 DEF TypeOK, Ended, Running
  <2>2. pc' \in Ended \cup {"options", "block", "accounts", "host", "message", "copy",
                          "evaluate", "binary", "artifacts", "check"}
    BY <1>2 DEF TypeOK
  <2> QED BY <1>1, <1>4, <2>1, <2>2 DEF TypeOK, AccountsOK
<1>6. /\ NothingYet' /\ ParentIsKnown' /\ FileIsLoaded' /\ AccountsAreBefore'
      /\ SizeIsKnown' /\ CodeIsBefore'
  <2>1. NothingYet' /\ ParentIsKnown'
    BY <1>1, <1>2 DEF NothingYet, ParentIsKnown, Running, Ended
  <2>2. FileIsLoaded' /\ AccountsAreBefore'
    BY <1>1, <1>2, <1>3 DEF FileIsLoaded, AccountsAreBefore, Running, Ended
  <2>3. SizeIsKnown' /\ CodeIsBefore'
    BY <1>1, <1>2, <1>3 DEF SizeIsKnown, CodeIsBefore, Running, Ended
  <2> QED BY <2>1, <2>2, <2>3
<1>7. TableIsOfMessages' /\ EvaluatesCodeBefore'
  BY <1>1, <1>3 DEF TableIsOfMessages, EvaluatesCodeBefore
<1>8. TablesAreWritten'
  <2>1. Tables' = Tables /\ Supported' = Supported /\ (Tables # {} => Tables = {"bytecode"})
    BY <1>1 DEF Tables, InitializeBytecode, Circuits, Supported
  <2>2. CASE WriteBinary
    BY <2>1, <2>2 DEF WriteBinary, TablesAreWritten, SuccessIsWritten, Go
  <2>3. CASE Check
    BY <2>1, <2>3 DEF Check, TablesAreWritten, SuccessIsWritten, Go, output
  <2>4. CASE WriteArtifacts
    BY <2>1, <2>4 DEF WriteArtifacts, TablesAreWritten, SuccessIsWritten, Go
  <2>5. CASE MakeHost \/ SkipMessage \/ DivideByZero \/ HostThrows \/ EndOfMessages \/ UNCHANGED vars
    BY <2>1, <2>5 DEF MakeHost, SkipMessage, DivideByZero, HostThrows, EndOfMessages, vars,
                      TablesAreWritten, SuccessIsWritten, Go, output
  <2> QED BY <2>2, <2>3, <2>4, <2>5
<1> QED BY <1>5, <1>6, <1>7, <1>8

(* The invariant is inductive.                                                 *)
LEMMA StepKeepsInv == IInv /\ [Next]_vars => IInv'
<1> SUFFICES ASSUME IInv, [Next]_vars PROVE IInv'
  OBVIOUS
<1>1. CASE ParseOptions \/ LoadBlock \/ LoadAccounts
  BY <1>1, LoadingKeepsInv
<1>2. CASE TakeMessage
  BY <1>2, TakeMessageKeepsInv
<1>3. CASE CopyCode
  BY <1>3, CopyCodeKeepsInv
<1>4. CASE CallHost
  BY <1>4, CallHostKeepsInv
<1>5. CASE Evaluated
  BY <1>5, EvaluatedKeepsInv
<1>6. CASE \/ MakeHost \/ SkipMessage \/ DivideByZero \/ HostThrows \/ EndOfMessages
           \/ WriteBinary \/ WriteArtifacts \/ Check \/ Done \/ UNCHANGED vars
  BY <1>6, OutputKeepsInv DEF Done
<1> QED BY <1>1, <1>2, <1>3, <1>4, <1>5, <1>6 DEF Next

(* The invariant holds in every state of every run.                            *)
LEMMA Invariant == Spec => []IInv
BY InitIsInv, StepKeepsInv, PTL DEF Spec

--------------------------------------------------------------------------------

(* The variables of the assigner keep their types.                             *)
THEOREM TypeCorrect == Spec => []TypeOK
<1>1. IInv => TypeOK
  BY DEF IInv
<1> QED BY <1>1, Invariant, PTL

(* Every message is evaluated with the code its recipient had before the block *)
(* (that of the state file, or of the node's state at the parent), or with     *)
(* none and an error in the log: nothing that happens between the lookups and  *)
(* the calls of fill_assignments() changes that.                               *)
THEOREM CodeIsThatBefore == Spec => []EvaluatesCodeBefore
<1>1. IInv => EvaluatesCodeBefore
  BY DEF IInv
<1> QED BY <1>1, Invariant, PTL

(* Exit code 0 of a supported curve means that the binary table was written.   *)
THEOREM SuccessMeansWritten == Spec => []SuccessIsWritten
<1>1. IInv => SuccessIsWritten
  BY DEF IInv, TablesAreWritten
<1> QED BY <1>1, Invariant, PTL

(* fill_assignments() never returns the error that run() would ignore.         *)
THEOREM FillDoesNotFail == Spec => FillNeverFails
<1>1. IInv /\ [Next]_vars => [pc = "copy" => pc' # "binary"]_vars
  <2> SUFFICES ASSUME IInv, Next, pc = "copy" PROVE pc' # "binary"
    OBVIOUS
  <2>1. CASE CopyCode
    BY <2>1, CopyCodeKeepsInv
  <2>2. CASE HostThrows
    BY <2>2 DEF HostThrows, Go
  <2> QED BY <2>1, <2>2 DEF Next, ParseOptions, LoadBlock, LoadAccounts, MakeHost, SkipMessage,
          TakeMessage, DivideByZero, CallHost, Evaluated, EndOfMessages, WriteBinary,
          WriteArtifacts, Check, Done, Ended
<1> QED BY <1>1, Invariant, PTL DEF Spec, FillNeverFails

(* No account is fetched a second time over what the messages did to it.       *)
THEOREM NoEffectIsLost == Spec => EffectsAreKept
<1> DEFINE Kept == \A a \in DOMAIN accounts :
              /\ a \in DOMAIN accounts'
              /\ accounts'[a].origin = accounts[a].origin
              /\ accounts'[a].writes >= accounts[a].writes
<1>1. IInv /\ [Next]_vars => [Kept]_vars
  <2> SUFFICES ASSUME IInv, Next PROVE Kept
    OBVIOUS
  <2>1. AccountsOK /\ prevBlock \in BlockHash
    BY DEF IInv, TypeOK
  <2>2. \A a \in DOMAIN accounts : accounts[a].writes \in Nat
    BY <2>1 DEF AccountsOK
  <2>3. ASSUME NEW a \in Address, GetAccount(a) PROVE Kept
    BY <2>1, <2>2, <2>3, GetAccountKeeps
  <2>4. CASE TakeMessage \/ CopyCode
    <3>1. GetAccount(messages[next].to)
      BY <2>4 DEF TakeMessage, CopyCode
    <3>2. next \in 1..Len(messages) /\ messages \in Seq(Message)
      BY <2>4 DEF TakeMessage, CopyCode, IInv, TypeOK
    <3>3. messages[next] \in Message
      BY <3>2
    <3>4. messages[next].to \in Address
      BY <3>3 DEF Message
    <3> QED BY <2>3, <3>1, <3>4
  <2>5. CASE CallHost
    <3>1. ASSUME NEW a \in DOMAIN accounts, UNCHANGED errors,
                 accounts' = [accounts EXCEPT ![a].writes = @ + 1]
          PROVE  Kept
      BY <2>1, <3>1, WriteKeeps
    <3> QED BY <2>3, <2>5, <3>1 DEF CallHost
  <2>6. CASE LoadAccounts
    BY <2>6 DEF LoadAccounts, IInv, NothingYet
  <2>7. CASE UNCHANGED accounts
    BY <2>2, <2>7
  <2> QED BY <2>4, <2>5, <2>6, <2>7 DEF Next, ParseOptions, LoadBlock, MakeHost, SkipMessage,
          DivideByZero, HostThrows, Evaluated, EndOfMessages, WriteBinary,
          WriteArtifacts, Check, Done, vars
<1> QED BY <1>1, Invariant, PTL DEF Spec, EffectsAreKept
--------------------------------------------------------------------------------

\* The table is that of the messages the loop has passed, and files are copies of it
\* made once it has passed them all.
TableCovers == TargetCircuit = "bytecode" => CoverMessages(table, next - 1)

AllPassed == pc = "binary" => next = Len(messages) + 1

FilesAreTables ==
    \/ DOMAIN files = {}
    \/ /\ pc \in {"artifacts", "check"} \cup Ended /\ next = Len(messages) + 1
       /\ \A t \in DOMAIN files : files[t] = table

\* No message is evaluated that is to be skipped.
NoneToSkip == pc \in {"copy", "evaluate"} => ~Skipped(messages[next])

CoverInv == TableCovers /\ AllPassed /\ FilesAreTables /\ NoneToSkip

(* A row for the message the loop is at goes after those of the ones before.   *)
LEMMA RowIsAdded ==
    ASSUME NEW S, NEW rows \in Seq(S), NEW row \in S, NEW n \in Nat,
           \A r \in S : r.message \in Nat,
           row.message = n + 1, ~Skipped(messages[n + 1]), CoverMessages(rows, n)
    PROVE  CoverMessages(Append(rows, row), n + 1)
<1> DEFINE more == Append(rows, row)
<1>1. /\ more \in Seq(S) /\ DOMAIN more = 1..(Len(rows) + 1) /\ DOMAIN rows = 1..Len(rows)
      /\ Len(rows) \in Nat /\ more[Len(rows) + 1] = row
      /\ \A i \in 1..Len(rows) : more[i] = rows[i]
  OBVIOUS
<1> HIDE DEF more
<1>2. \A i \in 1..Len(rows) : rows[i].message \in 1..n
  BY <1>1 DEF CoverMessages
<1>3. ASSUME NEW i \in DOMAIN more, NEW j \in DOMAIN more, i < j
      PROVE  more[i].message < more[j].message
  <2>1. CASE j \in 1..Len(rows)
    <3>1. i \in 1..Len(rows)
      BY <1>1, <1>3, <2>1
    <3> QED BY <1>1, <1>3, <2>1, <3>1 DEF CoverMessages
  <2>2. CASE j = Len(rows) + 1
    <3>1. i \in 1..Len(rows)
      BY <1>1, <1>3, <2>2
    <3>2. more[i].message \in 1..n /\ more[j].message = n + 1
      BY <1>1, <1>2, <2>2, <3>1
    <3> QED BY <3>2
  <2> QED BY <1>1, <2>1, <2>2
<1>4. {more[i].message : i \in DOMAIN more} = {rows[i].message : i \in DOMAIN rows} \cup {n + 1}
  BY <1>1
<1>5. {m \in 1..(n + 1) : ~Skipped(messages[m])}
          = {m \in 1..n : ~Skipped(messages[m])} \cup {n + 1}
  OBVIOUS
<1> QED BY <1>3, <1>4, <1>5 DEF CoverMessages, more

(* A message that is skipped needs no row.                                     *)
LEMMA NoRowIsNeeded ==
    ASSUME NEW rows, NEW n \in Nat, Skipped(messages[n + 1]), CoverMessages(rows, n)
    PROVE  CoverMessages(rows, n + 1)
<1>1. {m \in 1..(n + 1) : ~Skipped(messages[m])} = {m \in 1..n : ~Skipped(messages[m])}
  OBVIOUS
<1> QED BY <1>1 DEF CoverMessages

(* An empty table is one of no messages.                                       *)
LEMMA NoRows == CoverMessages(<<>>, 0)
BY DEF CoverMessages

LEMMA InitCovers == Init => CoverInv
BY NoRows DEF Init, CoverInv, TableCovers, AllPassed, FilesAreTables, NoneToSkip

(* Every step keeps that: the rows come one by one, in the order of the block, *)
(* and what is written is the whole table.                                     *)
LEMMA StepKeepsCover == ASSUME IInv, CoverInv, [Next]_vars PROVE CoverInv'
<1> USE DEF CoverInv
<1>1. TypeOK /\ NothingYet
  BY DEF IInv
<1>2. next \in Nat \ {0} /\ next - 1 \in Nat /\ (next - 1) + 1 = next
  BY <1>1 DEF TypeOK
<1>3. CASE ParseOptions \/ LoadBlock \/ LoadAccounts
  <2>1. /\ UNCHANGED <<opts, next, table, files>> /\ next = 1 /\ table = <<>>
        /\ pc \in {"options", "block", "accounts"} /\ pc' # "binary"
    BY <1>1, <1>3 DEF ParseOptions, LoadBlock, LoadAccounts, NothingYet, message, output, Go
  <2>2. DOMAIN files = {} /\ pc' \notin {"copy", "evaluate"}
    BY <1>3, <2>1 DEF FilesAreTables, Ended, ParseOptions, LoadBlock, LoadAccounts, Go
  <2>3. CoverMessages(table, next - 1)'
    BY <2>1 DEF CoverMessages
  <2> QED BY <2>1, <2>2, <2>3 DEF TableCovers, AllPassed, FilesAreTables, NoneToSkip
<1>4. CASE SkipMessage
  <2>1. /\ UNCHANGED <<opts, pc, messages, table, files>>
        /\ pc = "message" /\ next' = next + 1 /\ Skipped(messages[next])
    BY <1>4 DEF SkipMessage, block, output
  <2>2. TargetCircuit = "bytecode" => CoverMessages(table, (next - 1) + 1)
    BY <1>2, <2>1, NoRowIsNeeded DEF TableCovers
  <2>3. next' - 1 = (next - 1) + 1
    BY <1>2, <2>1
  <2>4. TableCovers'
    BY <2>1, <2>2, <2>3 DEF TableCovers, CoverMessages, TargetCircuit, Circuits
  <2> QED BY <2>1, <2>4 DEF AllPassed, FilesAreTables, NoneToSkip, Ended
<1>5. CASE Evaluated
  <2> DEFINE S == [message : Nat, kind : Kinds, code : Code]
             row == [message |-> next, kind |-> CallKind(messages[next]), code |-> code]
  <2>1. /\ UNCHANGED <<opts, messages, files>> /\ next' = next + 1
        /\ pc = "evaluate" /\ pc' = "message"
        /\ TargetCircuit = "bytecode" => table' = Append(table, row)
    BY <1>5 DEF Evaluated, block, output, Go
  <2>2. table \in Seq(S) /\ row \in S /\ row.message = next /\ \A r \in S : r.message \in Nat
    BY <1>1, <1>2 DEF TypeOK, CallKind, Kinds
  <2>3. ~Skipped(messages[next])
    BY <2>1 DEF NoneToSkip
  <2> HIDE DEF row, S
  <2>4. TargetCircuit = "bytecode" => CoverMessages(Append(table, row), (next - 1) + 1)
    BY <1>2, <2>2, <2>3, RowIsAdded DEF TableCovers
  <2>5. next' - 1 = (next - 1) + 1
    BY <1>2, <2>1
  <2>6. TableCovers'
    BY <2>1, <2>4, <2>5 DEF TableCovers, CoverMessages, TargetCircuit, Circuits
  <2> QED BY <2>1, <2>6 DEF AllPassed, FilesAreTables, NoneToSkip, Ended
<1>6. CASE \/ MakeHost \/ TakeMessage \/ DivideByZero \/ CopyCode \/ CallHost \/ HostThrows
           \/ EndOfMessages \/ WriteBinary \/ WriteArtifacts \/ Check \/ Done \/ UNCHANGED vars
  <2>1. UNCHANGED <<opts, messages, next, table>>
    BY <1>6 DEF MakeHost, TakeMessage, DivideByZero, CopyCode, CallHost, HostThrows,
       EndOfMessages, WriteBinary, WriteArtifacts, Check, Done, vars, block, message, output
  <2>2. TableCovers'
    BY <2>1 DEF TableCovers, CoverMessages, TargetCircuit, Circuits
  <2>3. AllPassed' /\ NoneToSkip'
    <3>1. CASE CopyCode
      BY <2>1, <3>1, CopyCodeKeepsInv DEF AllPassed, NoneToSkip, CopyCode
    <3>2. CASE EndOfMessages
      BY <1>1, <2>1, <3>2 DEF AllPassed, NoneToSkip, EndOfMessages, Go, TypeOK
    <3> QED BY <1>6, <2>1, <3>1, <3>2 DEF AllPassed, NoneToSkip, MakeHost, TakeMessage,
             DivideByZero, CallHost, HostThrows, WriteBinary, WriteArtifacts, Check, Done,
             vars, Go, Ended
  <2>4. FilesAreTables'
    <3>1. CASE WriteBinary
      <4>1. CASE files' = [t \in Tables |-> table] /\ pc' = "artifacts"
        BY <2>1, <3>1, <4>1 DEF FilesAreTables, AllPassed, WriteBinary
      <4>2. CASE UNCHANGED files
        BY <2>1, <3>1, <4>2 DEF FilesAreTables, WriteBinary, Ended
      <4> QED BY <3>1, <4>1, <4>2 DEF WriteBinary, Go
    <3>2. CASE WriteArtifacts \/ Check
      BY <2>1, <3>2 DEF FilesAreTables, WriteArtifacts, Check, output, Go, Ended
    <3> QED BY <1>6, <2>1, <3>1, <3>2 DEF FilesAreTables, MakeHost, TakeMessage, DivideByZero,
             CopyCode, CallHost, HostThrows, EndOfMessages, Done, vars, output, Ended
  <2> QED BY <2>2, <2>3, <2>4
<1> QED BY <1>3, <1>4, <1>5, <1>6 DEF Next

(* A binary file holds a row for every message of the block that is not to be  *)
(* skipped, in the order of the block: nothing that fails on the way leaves a  *)
(* file of some of them.                                                       *)
THEOREM FilesHoldTheBlock == Spec => []FilesAreComplete
<1>1. IInv /\ CoverInv => FilesAreComplete
  <2> SUFFICES ASSUME IInv, CoverInv, TargetCircuit = "bytecode", NEW t \in DOMAIN files
               PROVE  CoverMessages(files[t], Len(messages))
    BY DEF FilesAreComplete
  <2>1. next = Len(messages) + 1 /\ files[t] = table /\ CoverMessages(table, next - 1)
    BY DEF CoverInv, FilesAreTables, TableCovers
  <2>2. Len(messages) \in Nat
    BY DEF IInv, TypeOK
  <2>3. next - 1 = Len(messages)
    BY <2>1, <2>2
  <2> QED BY <2>1, <2>3
<1> QED BY <1>1, Invariant, InitCovers, StepKeepsCover, PTL DEF Spec

================================================================================
