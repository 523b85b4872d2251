-------------------------------- MODULE Loader --------------------------------
(*****************************************************************************)
(* The reading of blocks and accounts: parse_json, the schemas, the handlers *)
(* of block_parser.cpp and state_parser.cpp for files, and the two loaders   *)
(* for replies of the node.  A JSON value is a record tagged with what it    *)
(* is; a text in it is known by its form, by the number it reads as and by   *)
(* what its digits stand for.                                                *)
(*****************************************************************************)
EXTENDS Integers, Sequences, SequencesExt, FiniteSets, Functions

CONSTANTS
    Inputs,     \* what is loaded: records [kind, stream, doc]
    Json,       \* the text of a JSON document, a sequence of pieces
    Nul,        \* a piece that is the character 0
    Chunk,      \* how many pieces read() asks for
    Address,
    Byte,
    HashSize,   \* the bytes of a Hash
    WordMax,    \* the greatest unsigned long long
    WideMax     \* the greatest uint256

Kinds == {"block", "state", "raw block", "raw account"}
Flag == {"Internal", "Deploy", "Refund", "Bounce"}

\* Digits after 0x, an even number of them, in capitals or not, or an odd
\* number; decimal digits; nothing; something else.
Form == {"hex", "HEX", "odd", "decimal", "", "other"}

ASSUME LoaderAssumption ==
    /\ {HashSize, WordMax, WideMax} \subseteq Nat /\ WordMax <= WideMax
    /\ Chunk \in Nat \ {0}
    /\ Json \in Seq(STRING) /\ Nul \notin Range(Json)
    /\ \A input \in Inputs :
          /\ input.kind \in Kinds
          /\ input.stream \in [opens : BOOLEAN, fails : BOOLEAN, text : Seq(STRING)]

\* What the parser makes of a value, each of its parts being of one sort; its
\* signed numbers are not beyond the unsigned ones.
Node(v, Part(_)) ==
    /\ v.is = "object" => \A k \in DOMAIN v.at : Part(v.at[k])
    /\ v.is = "array" => /\ Len(v.items) \in Nat
                         /\ v.items = [i \in 1..Len(v.items) |-> v.items[i]]
                         /\ \A i \in DOMAIN v.items : Part(v.items[i])
    /\ v.is = "string" => v.form \in Form /\ v.num \in Nat /\ (v.form = "" => v.num = 0)
    /\ v.is = "int64" => v.num \in Int /\ v.num <= WordMax

\* As deep as the loader looks: from a key or value of a storage up to the
\* document.
AnyPart(v)  == TRUE
Depth1(v)   == Node(v, AnyPart)
Depth2(v)   == Node(v, Depth1)
Depth3(v)   == Node(v, Depth2)
Depth4(v)   == Node(v, Depth3)
Depth5(v)   == Node(v, Depth4)
Document(v) == Node(v, Depth5)

-------------------------------------------------------------------------------
(* The types of core: the members that the program works with; a log shows   *)
(* the others.                                                               *)

Hash == [1..HashSize -> Byte]
Uint64 == 0..WordMax
Value == 0..WideMax
Contract == [address : Address, balance : Value]
Block == [id : Uint64, parent : Hash, timestamp : Uint64, price : Value]

IsMessage(m) ==
    /\ DOMAIN m = {"flags", "from", "to", "credit", "value", "data"}
    /\ m.flags \subseteq Flag /\ {m.from, m.to} \subseteq Address
    /\ {m.credit, m.value} \subseteq Value

-------------------------------------------------------------------------------
VARIABLES
    input,
    pc,
    rest,       \* what is left of the stream
    eof,        \* its flag
    fed,        \* what the parser has got
    item,       \* the message or account the loop is at
    slot,       \* the element of a storage the loop is at
    block,
    messages,
    account,    \* the account that is read
    accounts

stream == <<rest, eof, fed>>
loaded == <<block, messages, account, accounts>>
vars == <<input, pc, stream, item, slot, loaded>>

Ended == {"loaded", "error", "crashed"}

NoAccount == [code |-> <<>>, balance |-> 0, storage |-> <<>>]

\* The block of the runner is one that nobody has initialised; only its Value
\* has a constructor.
Init ==
    /\ input \in Inputs
    /\ pc = "open"
    /\ rest = input.stream.text /\ eof = FALSE /\ fed = <<>>
    /\ item = 1 /\ slot = 1
    /\ block \in {b \in Block : b.price = 0}
    /\ messages = <<>> /\ account = NoAccount /\ accounts = <<>>

doc == input.doc

\* A file that cannot be opened is an error; a reply is a stream in memory.
Open ==
    /\ pc = "open"
    /\ pc' = IF input.stream.opens THEN "read" ELSE "error"
    /\ UNCHANGED <<input, stream, item, slot, loaded>>

-------------------------------------------------------------------------------
(* parse_json                                                                *)

\* A C string ends at the first character 0.
CString(chunk) ==
    IF Nul \in ToSet(chunk) THEN SubSeq(chunk, 1, SelectInSeq(chunk, LAMBDA c : c = Nul) - 1)
    ELSE chunk

\* Takes a read of less than a chunk, but of something, for the end.
ReadUntilShort ==
    /\ pc = "read" /\ ~eof /\ ~input.stream.fails
    /\ LET chunk == SubSeq(rest, 1, Min({Chunk, Len(rest)}))
       IN  /\ rest' = SubSeq(rest, Len(chunk) + 1, Len(rest))
           /\ eof' = (Len(chunk) \in 1..(Chunk - 1))
           /\ fed' = fed \o CString(chunk)
           /\ pc' = IF IsPrefix(fed', Json) THEN "read" ELSE "error"
    /\ UNCHANGED <<input, item, slot, loaded>>

\* The parser refuses what cannot be the beginning of a document.
Read ==
    /\ pc = "read" /\ ~eof /\ ~input.stream.fails
    /\ LET chunk == SubSeq(rest, 1, Min({Chunk, Len(rest)}))
       IN  /\ rest' = SubSeq(rest, Len(chunk) + 1, Len(rest))
           /\ eof' = (Len(chunk) < Chunk)
           /\ fed' = fed \o CString(chunk)
           /\ pc' = IF IsPrefix(fed', Json) THEN "read" ELSE "error"
    /\ UNCHANGED <<input, item, slot, loaded>>

\* A stream that opens and whose reads fail, as a directory: no eof, no data.
ReadFails ==
    /\ pc = "read" /\ ~eof /\ input.stream.fails
    /\ UNCHANGED vars

FinishParsing ==
    /\ pc = "read" /\ eof
    /\ pc' = IF fed # Json THEN "error" ELSE IF input.kind \in {"block", "state"}
                                        THEN "validate" ELSE input.kind
    /\ UNCHANGED <<input, stream, item, slot, loaded>>

-------------------------------------------------------------------------------
(* block_schema.json and state_schema.json                                   *)

Has(v, keys) == v.is = "object" /\ keys \subseteq DOMAIN v.at
Text(v, forms) == v.is = "string" /\ v.form \in forms
LowerHex(v) == Text(v, {"hex", "odd"})
AnyHex(v) == Text(v, {"hex", "odd", "HEX"})
Decimal(v) == Text(v, {"decimal"})
AddressText(v) == Text(v, {"hex", "HEX"}) /\ v.of \in Address    \* of 42 characters

\* Two digits of a hash are a byte.
ASSUME DocumentAssumption ==
    \A in \in Inputs :
        /\ Document(in.doc)
        /\ /\ in.kind = "block" /\ Has(in.doc, {"parentHash"})
           /\ Text(in.doc.at.parentHash, {"hex"})
           => in.doc.at.parentHash.of \in Seq(Byte)

\* An array without two items that are equal.
UniqueItems(v) == v.is = "array" /\ IsInjective(v.items)

ValidMessage(v) ==
    /\ Has(v, {"flags", "from", "to", "feeCredit", "value", "data"})
    /\ v.at.flags.is = "array"
    /\ \A i \in DOMAIN v.at.flags.items :
          v.at.flags.items[i].is = "string" /\ v.at.flags.items[i].of \in Flag
    /\ AddressText(v.at.from) /\ AddressText(v.at.to)
    /\ Decimal(v.at.feeCredit) /\ v.at.value.is = "string" /\ AnyHex(v.at.data)

ValidBlock(v) ==
    /\ Has(v, {"number", "parentHash", "gasPrice", "messages"})
    /\ v.at.number.is \in {"int64", "uint64", "double"}
    /\ LowerHex(v.at.parentHash) /\ Decimal(v.at.gasPrice)
    /\ UniqueItems(v.at.messages)
    /\ \A i \in DOMAIN v.at.messages.items : ValidMessage(v.at.messages.items[i])

\* A key has 2 to 64 digits.
ValidSlot(v) ==
    /\ v.is = "object" /\ DOMAIN v.at = {"Key", "Val"}
    /\ AnyHex(v.at.Key) /\ v.at.Key.num <= WideMax /\ Decimal(v.at.Val)

\* The values of a storage may be of any form.
ValidAccountWithAnyValues(v) ==
    /\ v.is = "object" /\ DOMAIN v.at = {"code", "contract", "proof", "storage"}
    /\ LowerHex(v.at.code) /\ AnyHex(v.at.contract) /\ LowerHex(v.at.proof)
    /\ v.at.storage.is = "array"
    /\ \A i \in DOMAIN v.at.storage.items : Has(v.at.storage.items[i], {"Key", "Val"})

ValidAccount(v) ==
    /\ v.is = "object" /\ DOMAIN v.at = {"code", "contract", "proof", "storage"}
    /\ LowerHex(v.at.code) /\ AnyHex(v.at.contract) /\ LowerHex(v.at.proof)
    /\ v.at.storage.is = "array"
    /\ \A i \in DOMAIN v.at.storage.items : ValidSlot(v.at.storage.items[i])

ValidState(v) ==
    /\ v.is = "object" /\ DOMAIN v.at = {"accounts"} /\ UniqueItems(v.at.accounts)
    /\ \A i \in DOMAIN v.at.accounts.items : ValidAccount(v.at.accounts.items[i])

Valid == IF input.kind = "block" THEN ValidBlock(doc) ELSE ValidState(doc)

Validate ==
    /\ pc = "validate"
    /\ pc' = IF Valid THEN input.kind ELSE "error"
    /\ UNCHANGED <<input, stream, item, slot, loaded>>

-------------------------------------------------------------------------------
(* Conversions: their possible results, Throw for an exception.              *)

Throw == -1

\* std::stoull reads digits as far as there are any: the 0 of 0x.
Stoull(t) ==
    IF t.form = "decimal" /\ t.num <= WordMax THEN {t.num}
    ELSE IF t.form \in {"hex", "HEX", "odd"} THEN {0} ELSE {Throw}

\* intx::from_string; it may miss that a long decimal number overflows.
FromString(t) ==
    IF t.form = "" THEN {0}
    ELSE IF t.form = "other" THEN {Throw}
    ELSE IF t.num <= WideMax THEN {t.num}
    ELSE {Throw} \cup (IF t.form = "decimal" THEN {t.num % (WideMax + 1)} ELSE {})

\* to_bytes goes without 0x, too: with the decimal numbers here, of an even number
\* of digits.
Unhexable(t) == t.form \in {"hex", "HEX", "decimal", ""}

\* ssz::deserialize throws on bytes that are none of the type.
Deserializable(t, type) ==
    \/ type = "block"    /\ t.of \in Block
    \/ type = "contract" /\ t.of \in Contract
    \/ type = "message"  /\ IsMessage(t.of)

Fail == pc' = "error"
Crash == pc' = "crashed"

-------------------------------------------------------------------------------
(* load_block_with_messages: handle_block and handle_message                 *)

Messages == doc.at.messages.items

\* The bytes of the text, as far as there are any; an error is dropped.
ParentHash(t) ==
    IF Unhexable(t)
    THEN [i \in 1..HashSize |-> IF i <= Len(t.of) THEN t.of[i] ELSE block.parent[i]]
    ELSE block.parent

\* A number that is no int64 throws; a negative one becomes an uint64.  A file has
\* no timestamp: the one of the block stays, which nobody has set.
HandleBlock ==
    /\ pc = "block"
    /\ IF doc.at.number.is # "int64" THEN Crash /\ UNCHANGED block
       ELSE \E price \in Stoull(doc.at.gasPrice) :
              /\ block' = [block EXCEPT !.id = doc.at.number.num % (WordMax + 1),
                                        !.parent = ParentHash(doc.at.parentHash),
                                        !.price = IF price = Throw THEN @ ELSE price]
              /\ pc' = IF price = Throw THEN "crashed" ELSE "messages"
    /\ UNCHANGED <<input, stream, item, slot, messages, account, accounts>>

\* A hash that is too long is written over what follows m_prev_block.
OverrunHash ==
    /\ pc = "block" /\ doc.at.number.is = "int64"
    /\ Unhexable(doc.at.parentHash) /\ Len(doc.at.parentHash.of) > HashSize
    /\ Crash
    /\ UNCHANGED <<input, stream, item, slot, loaded>>

FlagsOf(v) == {v.items[i].of : i \in DOMAIN v.items} \cap Flag

MessageOf(m, credit, value) ==
    [flags |-> FlagsOf(m.flags), from |-> m.from.of, to |-> m.to.of,
     credit |-> credit, value |-> value, data |-> m.data.of]

\* Goes on with the message after the next.
HandleMessageTwice ==
    /\ pc = "messages" /\ item <= Len(Messages)
    /\ LET m == Messages[item].at
       IN  \E credit \in Stoull(m.feeCredit), value \in FromString(m.value) :
              IF Throw \in {credit, value} THEN Crash /\ UNCHANGED <<messages, item>>
              ELSE IF ~Unhexable(m.data) THEN Fail /\ UNCHANGED <<messages, item>>
              ELSE /\ messages' = Append(messages, MessageOf(m, credit, value))
                   /\ item' = item + 2 /\ UNCHANGED pc
    /\ UNCHANGED <<input, stream, slot, block, account, accounts>>

\* Addresses have passed the schema; the numbers come before the data.
HandleMessage ==
    /\ pc = "messages" /\ item <= Len(Messages)
    /\ LET m == Messages[item].at
       IN  \E credit \in Stoull(m.feeCredit), value \in FromString(m.value) :
              IF Throw \in {credit, value} THEN Crash /\ UNCHANGED <<messages, item>>
              ELSE IF ~Unhexable(m.data) THEN Fail /\ UNCHANGED <<messages, item>>
              ELSE /\ messages' = Append(messages, MessageOf(m, credit, value))
                   /\ item' = item + 1 /\ UNCHANGED pc
    /\ UNCHANGED <<input, stream, slot, block, account, accounts>>

EndOfMessages ==
    /\ \/ pc = "messages" /\ item > Len(Messages)
       \/ pc = "raw messages" /\ item > Len(doc.at.result.at.inMessages.items)
    /\ pc' = "loaded"
    /\ UNCHANGED <<input, stream, item, slot, loaded>>

-------------------------------------------------------------------------------
(* load_raw_block_with_messages and load_account_with_storage: contains() is *)
(* asked for the names, nothing for the types.                               *)

\* Where doc["result"][name] leads: to a value, or out of the loader.
Section(name) ==
    IF doc.is # "object" THEN "crashed"
    ELSE IF "result" \notin DOMAIN doc.at THEN "error"
    ELSE IF doc.at.result.is # "object" THEN "crashed"
    ELSE IF name \notin DOMAIN doc.at.result.at THEN "error" ELSE "found"

\* The same for a text of SSZ, or of plain bytes.
Payload(name, type) ==
    IF Section(name) # "found" THEN Section(name)
    ELSE LET v == doc.at.result.at[name]
         IN  IF v.is # "string" THEN "crashed"
             ELSE IF ~Unhexable(v) THEN "error"
             ELSE IF type # "bytes" /\ ~Deserializable(v, type) THEN "crashed" ELSE "found"

LoadRawBlock ==
    /\ pc = "raw block"
    /\ IF Payload("content", "block") # "found"
       THEN pc' = Payload("content", "block") /\ UNCHANGED block
       ELSE /\ block' = doc.at.result.at.content.of
            /\ pc' = IF Section("inMessages") # "found" THEN Section("inMessages")
                     ELSE IF doc.at.result.at.inMessages.is # "array" THEN "crashed"
                     ELSE "raw messages"
    /\ UNCHANGED <<input, stream, item, slot, messages, account, accounts>>

LoadRawMessage ==
    /\ pc = "raw messages" /\ item <= Len(doc.at.result.at.inMessages.items)
    /\ LET v == doc.at.result.at.inMessages.items[item]
       IN  IF v.is # "string" THEN Crash /\ UNCHANGED <<messages, item>>
           ELSE IF ~Unhexable(v) THEN Fail /\ UNCHANGED <<messages, item>>
           ELSE IF ~Deserializable(v, "message") THEN Crash /\ UNCHANGED <<messages, item>>
           ELSE messages' = Append(messages, v.of) /\ item' = item + 1 /\ UNCHANGED pc
    /\ UNCHANGED <<input, stream, slot, block, account, accounts>>

\* The code stays in the account when the contract cannot be read, and both
\* when there is no storage.
LoadRawAccount ==
    /\ pc = "raw account"
    /\ LET code == Payload("code", "bytes")
           contract == Payload("contract", "contract")
       IN  IF code # "found" THEN pc' = code /\ UNCHANGED account
           ELSE IF contract # "found"
           THEN pc' = contract /\ account' = [account EXCEPT !.code = doc.at.result.at.code.of]
           ELSE /\ account' = [account EXCEPT
                        !.code = doc.at.result.at.code.of,
                        !.balance = doc.at.result.at.contract.of.balance]
                /\ pc' = IF Section("storage") # "found" THEN Section("storage")
                         ELSE IF doc.at.result.at.storage.is # "array" THEN "crashed"
                         ELSE "storage"
    /\ UNCHANGED <<input, stream, item, slot, block, messages, accounts>>

-------------------------------------------------------------------------------
(* init_account_storage: handle_code, handle_account and handle_storage, the *)
(* last of which serves the replies as well.                                 *)

Entries == doc.at.accounts.items

\* The account is made anew for each entry.
HandleAccount ==
    /\ pc = "state" /\ item <= Len(Entries)
    /\ LET code == Entries[item].at.code
           contract == Entries[item].at.contract
       IN  IF ~Unhexable(code) \/ ~Unhexable(contract) THEN Fail /\ UNCHANGED account
           ELSE IF ~Deserializable(contract, "contract") THEN Crash /\ UNCHANGED account
           ELSE /\ account' = [code |-> code.of, balance |-> contract.of.balance,
                               storage |-> <<>>]
                /\ pc' = "storage"
    /\ UNCHANGED <<input, stream, item, slot, block, messages, accounts>>

Storage == IF input.kind = "state" THEN Entries[item].at.storage.items
                                   ELSE doc.at.result.at.storage.items

\* emplace() does not replace the value of a key, an assignment does.
Emplace(f, key, val) == [k \in DOMAIN f \cup {key} |-> IF k \in DOMAIN f THEN f[k] ELSE val]
Assign(f, key, val)  == [k \in DOMAIN f \cup {key} |-> IF k = key THEN val ELSE f[k]]

HandleStorage ==
    /\ pc = "storage" /\ slot <= Len(Storage)
    /\ LET v == Storage[slot]
       IN  IF v.is # "object" THEN Crash /\ UNCHANGED <<account, slot>>
           ELSE IF ~Has(v, {"Key", "Val"}) THEN Fail /\ UNCHANGED <<account, slot>>
           ELSE IF "string" \notin {v.at.Key.is} \cap {v.at.Val.is}
           THEN Crash /\ UNCHANGED <<account, slot>>
           ELSE \E key \in FromString(v.at.Key), val \in FromString(v.at.Val) :
                   IF Throw \in {key, val} THEN Crash /\ UNCHANGED <<account, slot>>
                   ELSE /\ account' = [account EXCEPT !.storage = Emplace(@, key, val)]
                        /\ slot' = slot + 1 /\ UNCHANGED pc
    /\ UNCHANGED <<input, stream, item, block, messages, accounts>>

AddressOf(entry) == entry.at.contract.of.address

\* Keeps the first of two accounts at one address.
KeepFirstAccount ==
    /\ pc = "storage" /\ input.kind = "state" /\ slot > Len(Storage)
    /\ accounts' = Emplace(accounts, AddressOf(Entries[item]), account)
    /\ account' = NoAccount /\ item' = item + 1 /\ slot' = 1 /\ pc' = "state"
    /\ UNCHANGED <<input, stream, block, messages>>

KeepAccount ==
    /\ pc = "storage" /\ input.kind = "state" /\ slot > Len(Storage)
    /\ accounts' = Assign(accounts, AddressOf(Entries[item]), account)
    /\ account' = NoAccount /\ item' = item + 1 /\ slot' = 1 /\ pc' = "state"
    /\ UNCHANGED <<input, stream, block, messages>>

EndOfAccounts ==
    /\ \/ pc = "state" /\ item > Len(Entries)
       \/ pc = "storage" /\ input.kind = "raw account" /\ slot > Len(Storage)
    /\ pc' = "loaded"
    /\ UNCHANGED <<input, stream, item, slot, loaded>>

Done == pc \in Ended /\ UNCHANGED vars

Next ==
    \/ Open \/ Read \/ ReadFails \/ FinishParsing \/ Validate
    \/ HandleBlock \/ OverrunHash \/ HandleMessage \/ EndOfMessages
    \/ LoadRawBlock \/ LoadRawMessage \/ LoadRawAccount
    \/ HandleAccount \/ HandleStorage \/ KeepAccount \/ EndOfAccounts
    \/ Done

Spec == Init /\ [][Next]_vars /\ WF_vars(Next)

-------------------------------------------------------------------------------
(* Properties.                                                               *)

AccountType(a) ==
    /\ DOMAIN a = {"code", "balance", "storage"}
    /\ a.balance \in Value
    /\ DOMAIN a.storage \subseteq Value /\ Range(a.storage) \subseteq Value

(* Whatever the documents hold, what is loaded has the types of the C++ objects:
   no number leaves the width of its field, and no loop its array. *)
TypeOK ==
    /\ pc \in Ended \cup Kinds \cup {"open", "read", "validate", "messages", "raw messages",
                                     "storage"}
    /\ eof \in BOOLEAN /\ slot \in Nat
    /\ block \in Block
    /\ \A m \in Range(messages) : IsMessage(m)
    /\ AccountType(account)
    /\ DOMAIN accounts \subseteq Address /\ \A a \in DOMAIN accounts : AccountType(accounts[a])
    /\ pc = "messages" => item \in 1..Len(Messages) + 1
    /\ pc = "state" => item \in 1..Len(Entries) + 1
    /\ pc = "storage" => slot \in 1..Len(Storage) + 1

Fits(t) == t.num <= WideMax

(* The numbers of a document are those of the fields they are for, its bytes
   are whole and as many. *)
InRange ==
    IF input.kind = "block"
    THEN /\ doc.at.number.is = "int64" /\ doc.at.number.num >= 0
         /\ doc.at.parentHash.form = "hex" /\ Len(doc.at.parentHash.of) = HashSize
         /\ doc.at.gasPrice.num <= WordMax
         /\ \A m \in Range(Messages) :
               /\ m.at.feeCredit.num <= WordMax
               /\ m.at.value.form # "other" /\ Fits(m.at.value)
               /\ m.at.data.form # "odd"
    ELSE \A e \in Range(Entries) :
               /\ e.at.code.form # "odd" /\ e.at.contract.form # "odd"
               /\ Deserializable(e.at.contract, "contract")
               /\ \A v \in Range(e.at.storage.items) : Fits(v.at.Val)

(* A file that satisfies its schema, and whose numbers and bytes fit, is loaded:
   the handlers look for nothing that the schemas let be missing or otherwise. *)
ValidFilesLoad ==
    input.kind \in {"block", "state"} /\ pc \in {"error", "crashed"} =>
        \/ ~input.stream.opens \/ input.stream.text # Json
        \/ ~Valid \/ ~InRange

KeyOf(v) == v.at.Key.num
ValOf(v) == v.at.Val.num

DescribedStorage(items) ==
    [k \in {KeyOf(items[i]) : i \in DOMAIN items} |->
        ValOf(items[CHOOSE i \in DOMAIN items :
            KeyOf(items[i]) = k /\ \A j \in 1..(i - 1) : KeyOf(items[j]) # k])]

DescribedAccount(e) ==
    [code |-> e.at.code.of, balance |-> e.at.contract.of.balance,
     storage |-> DescribedStorage(e.at.storage.items)]

DescribedAccounts(entries) ==
    [a \in {AddressOf(entries[i]) : i \in DOMAIN entries} |->
        DescribedAccount(entries[CHOOSE i \in DOMAIN entries :
            AddressOf(entries[i]) = a
            /\ \A j \in (i + 1)..Len(entries) : AddressOf(entries[j]) # a])]

DescribedMessages(items) ==
    [i \in DOMAIN items |->
        LET m == items[i].at IN MessageOf(m, m.feeCredit.num, m.value.num)]

(* At every moment, after an error or exception too, the messages and accounts
   are those that the part of the file before the loop describes, whole: the
   last account of an address, with the first value of each key of its storage.
   At the end it is the whole file or reply, which has been read to its end. *)
LoadedIsDescribed ==
    /\ input.kind = "block" /\ Valid =>
          LET before == SubSeq(Messages, 1, item - 1)
          IN  /\ (\A m \in Range(before) : Fits(m.at.value))
                    => messages = DescribedMessages(before)
              /\ pc \in {"messages", "loaded"} /\ InRange =>
                    /\ block.id = doc.at.number.num /\ block.price = doc.at.gasPrice.num
                    /\ block.parent = doc.at.parentHash.of
              /\ pc = "loaded" => item > Len(Messages)
    /\ input.kind = "state" /\ Valid =>
          LET before == SubSeq(Entries, 1, item - 1)
          IN  /\ (\A e \in Range(before) : \A v \in Range(e.at.storage.items) : Fits(v.at.Val))
                    => accounts = DescribedAccounts(before)
              /\ pc = "loaded" => item > Len(Entries)
    /\ input.kind = "raw block" /\ pc = "loaded" =>
          /\ block = doc.at.result.at.content.of
          /\ messages = [i \in DOMAIN doc.at.result.at.inMessages.items |->
                            doc.at.result.at.inMessages.items[i].of]
    /\ input.kind = "raw account" /\ pc = "loaded" =>
          /\ account.code = doc.at.result.at.code.of
          /\ account.balance = doc.at.result.at.contract.of.balance
          /\ (\A v \in Range(Storage) : Fits(v.at.Key) /\ Fits(v.at.Val))
                => account.storage = DescribedStorage(Storage)
    /\ pc = "loaded" /\ Nul \notin Range(input.stream.text) => input.stream.text = Json

(* Loading ends, unless the reads of the stream fail. *)
LoadEnds == ~input.stream.fails ~> pc \in Ended

===============================================================================
