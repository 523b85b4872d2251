---------------------------- MODULE HttpClientProofs ----------------------------
(*****************************************************************************)
(* What holds of every call by RPC, for all responses, any number of         *)
(* addresses and all sizes of the buffers: its socket is closed once,        *)
(* whichever way the call ends; an error of the connection means that        *)
(* nothing was sent; a response that says how long it is has that much       *)
(* content when it reaches the assigner; and the content is what was sent,   *)
(* in the order it was sent.                                                 *)
(*                                                                           *)
(* The first part follows the socket, the second says what the text of a     *)
(* response may be turned into, the third counts the content, and the last   *)
(* follows it through the buffers.                                           *)
(*****************************************************************************)
EXTENDS HttpClient, Recursion, TLAPS

\* ------------------------------------------------------------------ the socket

\* Where the call has no socket, one that is not yet connected, a connected one.
Without == {"idle", "made", "resolve", "socket", "return", "destroy", "killed"}
Opening == {"connect", "wait"}
Reading == {"status", "continue", "header", "chunk", "chunkEnd", "trailer"}
Connecting == Opening \cup {"resolve", "socket"}
With == Reading \cup {"connected", "writable", "send", "line", "content", "data", "drain",
                      "handle"}

ConnectionErrors == {"Connection", "ConnectionTimeout"}

PlaceIsKnown ==
    /\ pc \in Without \cup Opening \cup With \cup {"finish"}
    /\ point \in Reading

SocketIsKnown ==
    /\ pc \in Without => ~ held /\ open = 0
    /\ pc \in Opening => ~ held /\ open = 1
    /\ pc \in With => held /\ open = 1
    /\ pc = "finish" => held \in BOOLEAN /\ open = IF held THEN 1 ELSE 0

\* The error of an address that failed is gone once another is connected.
ErrorIsKnown ==
    /\ pc \in With => error = "Success"
    /\ pc \in Connecting => sent = NewRequest
    /\ error \in ConnectionErrors => sent = NewRequest

AnswerIsKnown ==
    answer.kind \in ConnectionErrors => pc \in {"destroy", "idle"} /\ sent = NewRequest

IInv == PlaceIsKnown /\ SocketIsKnown /\ ErrorIsKnown /\ AnswerIsKnown

--------------------------------------------------------------------------------

(* The one call of close_socket that counts: a held socket is closed, and one  *)
(* that is not held is left alone.                                             *)
LEMMA CloseSocketCloses ==
    ASSUME held \in BOOLEAN, open = IF held THEN 1 ELSE 0, CloseSocket
    PROVE  ~ held' /\ open' = 0
  BY DEF CloseSocket

(* What is sent and received in between touches neither socket nor error, and  *)
(* ends in With or in finish.                                                  *)
LEMMA ExchangeKeeps ==
    ASSUME IInv, pc \in With, UNCHANGED <<open, held, answer>>, point' \in Reading,
           \/ pc' \in With /\ UNCHANGED error
           \/ pc' = "finish" /\ error' \in {"Success", "Read", "Write"}
    PROVE  IInv'
<1>1. PlaceIsKnown'
  BY DEF PlaceIsKnown
<1>2. SocketIsKnown'
  BY DEF IInv, SocketIsKnown, With, Reading, Without, Opening
<1>3. error' \notin ConnectionErrors /\ pc' \notin Connecting
  BY DEF IInv, ErrorIsKnown, With, Reading, Connecting, Opening, ConnectionErrors
<1>4. ErrorIsKnown'
  BY <1>3 DEF IInv, ErrorIsKnown, With, Reading
<1>5. AnswerIsKnown'
  BY DEF IInv, AnswerIsKnown, With, Reading
<1> QED BY <1>1, <1>2, <1>4, <1>5 DEF IInv

(* A new call begins without a socket and without an error.                    *)
LEMMA BeginKeeps == ASSUME IInv, MakeClient \/ Post \/ Resolve PROVE IInv'
<1>1. CASE MakeClient
  BY <1>1 DEF MakeClient, Client!Pending, conn, IInv, PlaceIsKnown, SocketIsKnown,
     ErrorIsKnown, AnswerIsKnown, Without, Opening, With, Reading, Connecting,
     ConnectionErrors
<1>2. CASE Post
  BY <1>2 DEF Post, conn, IInv, PlaceIsKnown, SocketIsKnown, ErrorIsKnown, AnswerIsKnown,
     Without, Opening, With, Reading, Connecting, ConnectionErrors
<1>3. CASE Resolve
  BY <1>3 DEF Resolve, IInv, PlaceIsKnown, SocketIsKnown, ErrorIsKnown, AnswerIsKnown,
     Without, Opening, With, Reading, Connecting, ConnectionErrors
<1> QED BY <1>1, <1>2, <1>3

(* The loop over the addresses: nothing is sent, and a socket that could not   *)
(* be connected is closed before the next.                                     *)
LEMMA ConnectKeeps ==
    ASSUME IInv, OpenSocket \/ Connect \/ WaitUntilReady \/ NoSocket
    PROVE  IInv'
<1>1. CASE OpenSocket
  <2>1. open = 0 /\ ~ held /\ UNCHANGED <<held, sent, error, answer, point>>
    BY <1>1 DEF OpenSocket, IInv, SocketIsKnown, Without
  <2>2. \/ pc' = "connect" /\ open' = open + 1
        \/ pc' = "socket" /\ open' = open
    BY <1>1 DEF OpenSocket
  <2>3. open + 1 = 1
    BY <2>1
  <2> QED BY <1>1, <2>1, <2>2, <2>3 DEF OpenSocket, IInv, PlaceIsKnown, SocketIsKnown, ErrorIsKnown,
           AnswerIsKnown, Without, Opening, With, Reading, Connecting, ConnectionErrors
<1>2. CASE Connect \/ WaitUntilReady
  <2>1. /\ pc \in Opening /\ open = 1 /\ ~ held
        /\ UNCHANGED <<sent, answer, point>> /\ sent = NewRequest
    BY <1>2 DEF Connect, WaitUntilReady, IInv, SocketIsKnown, ErrorIsKnown, Opening, Connecting
  <2>2. \/ pc' = "connected" /\ error' = "Success" /\ held' = TRUE /\ UNCHANGED open
        \/ pc' = "socket" /\ open' = open - 1 /\ UNCHANGED held
        \/ pc' = "wait" /\ UNCHANGED <<open, held>>
    BY <1>2 DEF Connect, WaitUntilReady, Connected, ConnectFails, conn
  <2>3. open - 1 = 0
    BY <2>1
  <2> QED BY <2>1, <2>2, <2>3 DEF IInv, PlaceIsKnown, SocketIsKnown, ErrorIsKnown,
           AnswerIsKnown, Without, Opening, With, Reading, Connecting, ConnectionErrors
<1>3. CASE NoSocket
  BY <1>3 DEF NoSocket, conn, IInv, PlaceIsKnown, SocketIsKnown, ErrorIsKnown, AnswerIsKnown,
     Without, Opening, With, Reading, Connecting, ConnectionErrors
<1> QED BY <1>1, <1>2, <1>3

(* The request and the response.                                               *)
LEMMA TransferKeeps ==
    ASSUME IInv,
           \/ ProcessSocket \/ IsWritable \/ Send \/ SendFails
           \/ GetLine \/ ReadResponseLine \/ ReadHeaders \/ ReadContent
           \/ ReadContentWithLength \/ ReadContentWithoutLength
           \/ ReadChunk \/ EndChunk \/ ReadTrailer
    PROVE  IInv'
<1> DEFINE Exchange ==
      /\ pc \in With /\ UNCHANGED <<open, held, answer>> /\ point' \in Reading
      /\ \/ pc' \in With /\ UNCHANGED error
         \/ pc' = "finish" /\ error' \in {"Success", "Read", "Write"}
<1>1. CASE ProcessSocket \/ IsWritable \/ Send \/ SendFails
  <2>1. Exchange
    BY <1>1 DEF ProcessSocket, IsWritable, Send, SendFails, Fail, conn, IInv, PlaceIsKnown,
       With, Reading
  <2> QED BY <2>1, ExchangeKeeps
<1>2. CASE GetLine
  <2>1. Exchange
    BY <1>2 DEF GetLine, Fail, conn, IInv, PlaceIsKnown, With, Reading
  <2> QED BY <2>1, ExchangeKeeps
<1>3. CASE ReadResponseLine \/ ReadHeaders
  <2>1. Exchange
    BY <1>3 DEF ReadResponseLine, ReadHeaders, NextLine, Fail, conn, IInv, PlaceIsKnown,
       With, Reading
  <2> QED BY <2>1, ExchangeKeeps
<1>4. CASE ReadContent
  <2>1. Exchange
    BY <1>4 DEF ReadContent, NextLine, Succeed, Fail, conn, IInv, PlaceIsKnown, With, Reading
  <2> QED BY <2>1, ExchangeKeeps
<1>5. CASE ReadContentWithLength \/ ReadContentWithoutLength
  <2>1. Exchange
    BY <1>5 DEF ReadContentWithLength, ReadContentWithoutLength, NextLine, Succeed, Fail,
       conn, IInv, PlaceIsKnown, With, Reading
  <2> QED BY <2>1, ExchangeKeeps
<1>6. CASE ReadChunk \/ EndChunk \/ ReadTrailer
  <2>1. Exchange
    BY <1>6 DEF ReadChunk, EndChunk, ReadTrailer, NextLine, Succeed, Fail, conn, IInv,
       PlaceIsKnown, With, Reading
  <2> QED BY <2>1, ExchangeKeeps
<1> QED BY <1>1, <1>2, <1>3, <1>4, <1>5, <1>6

(* A broken pipe ends the process, and with it its socket.                     *)
LEMMA BrokenPipeKeeps == ASSUME IInv, BrokenPipe PROVE IInv'
  BY DEF BrokenPipe, Client!Killed, IInv, PlaceIsKnown, SocketIsKnown, ErrorIsKnown,
     AnswerIsKnown, Without, Opening, With, Reading, Connecting, ConnectionErrors

(* The end of a call: the socket is closed in handle_request, if the node says *)
(* that it closes, or else when send_ is left.                                 *)
LEMMA EndKeeps ==
    ASSUME IInv, HandleResponse \/ FinishRequest \/ Return \/ DestroyClient
    PROVE  IInv'
<1>1. CASE HandleResponse
  <2>1. held \in BOOLEAN /\ open = IF held THEN 1 ELSE 0
    BY <1>1 DEF HandleResponse, IInv, SocketIsKnown, With
  <2>2. CloseSocket \/ UNCHANGED <<held, open>>
    BY <1>1 DEF HandleResponse
  <2>3. held' \in BOOLEAN /\ open' = IF held' THEN 1 ELSE 0
    <3>1. CASE CloseSocket
      <4>1. ~ held' /\ open' = 0 /\ held' = FALSE
        BY <2>1, <3>1, CloseSocketCloses DEF CloseSocket
      <4> QED BY <4>1
    <3>2. CASE UNCHANGED <<held, open>>
      BY <2>1, <3>2
    <3> QED BY <2>2, <3>1, <3>2
  <2> QED BY <1>1, <2>3 DEF HandleResponse, IInv, PlaceIsKnown, SocketIsKnown, ErrorIsKnown,
           AnswerIsKnown, Without, Opening, With, Reading, Connecting, ConnectionErrors
<1>2. CASE FinishRequest
  <2>1. CloseSocket
    BY <1>2 DEF FinishRequest, Settings
  <2>2. ~ held' /\ open' = 0
    BY <1>2, <2>1, CloseSocketCloses DEF FinishRequest, IInv, SocketIsKnown
  <2> QED BY <1>2, <2>2 DEF FinishRequest, IInv, PlaceIsKnown, SocketIsKnown, ErrorIsKnown,
           AnswerIsKnown, Without, Opening, With, Reading, Connecting, ConnectionErrors
<1>3. CASE Return
  <2>1. answer'.kind \in ConnectionErrors => error \in ConnectionErrors
    BY <1>3 DEF Return, Result, Client!Ok, Client!Err, ConnectionErrors
  <2> QED BY <1>3, <2>1 DEF Return, conn, IInv, PlaceIsKnown, SocketIsKnown, ErrorIsKnown,
           AnswerIsKnown, Without, Opening, With, Reading, Connecting, ConnectionErrors
<1>4. CASE DestroyClient
  <2>1. ~ held /\ open = 0
    BY <1>4 DEF DestroyClient, IInv, SocketIsKnown, Without
  <2>2. ~ held' /\ open' = 0
    BY <1>4, <2>1 DEF DestroyClient, CloseSocket
  <2> QED BY <1>4, <2>2 DEF DestroyClient, IInv, PlaceIsKnown, SocketIsKnown, ErrorIsKnown,
           AnswerIsKnown, Without, Opening, With, Reading, Connecting, ConnectionErrors
<1> QED BY <1>1, <1>2, <1>3, <1>4

(* Nothing the node does reaches what the client holds.                        *)
LEMMA PeerKeeps ==
    ASSUME IInv, Deliver \/ PeerCloses \/ PeerResets \/ UNCHANGED vars
    PROVE  IInv'
<1>1. UNCHANGED <<pc, point, open, held, error, sent, answer>>
  BY DEF Deliver, PeerCloses, PeerResets, vars, conn
<1> QED BY <1>1 DEF IInv, PlaceIsKnown, SocketIsKnown, ErrorIsKnown, AnswerIsKnown

--------------------------------------------------------------------------------

(* The inductive invariant.                                                    *)
THEOREM Invariance == Spec => []IInv
<1>1. Init => IInv
  BY DEF Init, Client!None, IInv, PlaceIsKnown, SocketIsKnown, ErrorIsKnown, AnswerIsKnown,
     Without, Opening, With, Reading, Connecting, ConnectionErrors
<1>2. IInv /\ [Next]_vars => IInv'
  BY BeginKeeps, ConnectKeeps, TransferKeeps, BrokenPipeKeeps, EndKeeps, PeerKeeps
     DEF Next, Step
<1> QED BY <1>1, <1>2, PTL DEF Spec

(* Between calls the process has no socket open, and during one no more than   *)
(* that one: scope_exit of send_, the loop of create_socket, ~ClientImpl.      *)
THEOREM NoSocketIsLeft == Spec => []NoSocketLeft
<1>1. IInv => NoSocketLeft
  BY DEF IInv, PlaceIsKnown, SocketIsKnown, NoSocketLeft, Without, Opening, With
<1> QED BY <1>1, Invariance, PTL

(* An answer that says the connection failed means that nothing of the request *)
(* was sent: create_client_socket clears the error once it is connected.       *)
THEOREM ConnectionErrorsAreClean == Spec => []ConnectionErrorIsClean
<1>1. IInv => ConnectionErrorIsClean
  BY DEF IInv, AnswerIsKnown, ConnectionErrorIsClean, ConnectionErrors
<1> QED BY <1>1, Invariance, PTL

\* ------------------------------------------------------ the text of a response

(* The longest beginning of a text that has only bytes of S.                   *)
LEMMA SpanExists ==
    ASSUME NEW s \in Text, NEW S \in SUBSET Byte
    PROVE  /\ Span(S)[s] \in 0..Len(s)
           /\ \A i \in 1..Span(S)[s] : s[i] \in S
<1> DEFINE Is(n) == /\ \A i \in 1..n : s[i] \in S
                    /\ n < Len(s) => s[n + 1] \notin S
           Ends == {n \in 0..Len(s) : n < Len(s) => s[n + 1] \notin S}
<1>1. Len(s) \in Nat
  BY DEF Text
<1>2. PICK n \in Ends : \A k \in Ends : n <= k
  <2>1. Ends \subseteq Nat /\ Len(s) \in Ends
    BY <1>1
  <2> HIDE DEF Ends
  <2> QED BY <2>1, LeastExists
<1>3. Is(n)
  <2>1. n \in 0..Len(s) /\ (n < Len(s) => s[n + 1] \notin S)
    OBVIOUS
  <2>2. ASSUME NEW i \in 1..n PROVE s[i] \in S
    <3>1. i - 1 \in 0..Len(s) /\ i - 1 < Len(s) /\ (i - 1) + 1 = i /\ ~ (n <= i - 1)
      BY <1>1, <2>1
    <3>2. i - 1 \notin Ends
      BY <1>2, <3>1
    <3>3. ~ (i - 1 < Len(s) => s[(i - 1) + 1] \notin S)
      BY <3>1, <3>2
    <3> QED BY <3>1, <3>3
  <2> QED BY <2>1, <2>2
<1>4. Span(S)[s] = CHOOSE k \in 0..Len(s) : Is(k)
  <2> DEFINE f == [t \in Text |-> CHOOSE k \in 0..Len(t) :
                                    /\ \A i \in 1..k : t[i] \in S
                                    /\ k < Len(t) => t[k + 1] \notin S]
  <2>1. Span(S) = f
    BY Zenon DEF Span
  <2>2. f[s] = CHOOSE k \in 0..Len(s) : Is(k)
    BY Zenon
  <2> QED BY <2>1, <2>2
<1>5. \E k \in 0..Len(s) : Is(k)
  BY <1>3
<1> DEFINE m == CHOOSE k \in 0..Len(s) : Is(k)
<1>6. m \in 0..Len(s) /\ Is(m)
  BY <1>5, Zenon
<1> QED BY <1>4, <1>6

LEMMA DropIsText == ASSUME NEW s \in Text, NEW n \in Nat PROVE Drop(s, n) \in Text
  BY DEF Drop, Text

LEMMA HexValues ==
    /\ \A c \in HexDigits : HexValue(c) \in 0..15
    /\ Digits \subseteq HexDigits /\ HexDigits \subseteq Byte /\ Digits \subseteq Byte
  BY DEF HexDigits, HexValue, Digits, Byte

(* The loop of from_hex_to_i(), and of strtoull(): what the first digits write. *)
LEMMA NumberExists ==
    ASSUME NEW ds \in Seq(HexDigits), NEW base \in {10, 16}
    PROVE  \E v \in [0..Len(ds) -> Nat] :
              /\ v[0] = 0
              /\ \A n \in 1..Len(ds) : v[n] = base * v[n - 1] + HexValue(ds[n])
              /\ Number(base)[ds] = v[Len(ds)]
<1> DEFINE N == Len(ds)
           step == [k \in 1..N |-> [x \in Nat |-> base * x + HexValue(ds[k])]]
<1>1. /\ N \in Nat /\ 0 \in Nat /\ \A k \in 1..N : HexValue(ds[k]) \in Nat
      /\ base \in Nat
  <2>1. \A k \in 1..N : ds[k] \in HexDigits
    OBVIOUS
  <2> QED BY <2>1, HexValues
<1>2. ASSUME NEW k \in 1..N, NEW x \in Nat PROVE base * x + HexValue(ds[k]) \in Nat
  <2>1. HexValue(ds[k]) \in Nat
    BY <1>1
  <2>2. base * x \in Nat
    OBVIOUS
  <2> HIDE DEF N
  <2> QED BY <2>1, <2>2
<1>3. PICK g : Iterates(g, step, 0, Nat, N)
  <2>1. StepsStay(step, Nat, N)
    BY <1>2 DEF StepsStay
  <2> HIDE DEF N, step
  <2> QED BY <1>1, <2>1, RecursionUpTo
<1>4. g = [n \in 0..N |-> IF n = 0 THEN 0 ELSE base * g[n - 1] + HexValue(ds[n])]
  <2>1. /\ g \in [0..N -> Nat] /\ g[0] = 0
        /\ \A k \in 1..N : g[k] = step[k][g[k - 1]]
    BY <1>3 DEF Iterates
  <2>2. ASSUME NEW n \in 0..N
        PROVE  g[n] = IF n = 0 THEN 0 ELSE base * g[n - 1] + HexValue(ds[n])
    <3>1. CASE n = 0
      BY <2>1, <3>1
    <3>2. CASE n # 0
      <4>1. n \in 1..N /\ n - 1 \in 0..N
        BY <1>1, <3>2
      <4>2. g[n] = step[n][g[n - 1]] /\ g[n - 1] \in Nat
        BY <2>1, <4>1
      <4> QED BY <3>2, <4>1, <4>2
    <3> QED BY <3>1, <3>2
  <2> QED BY <2>1, <2>2
<1> DEFINE v == CHOOSE f : f = [n \in 0..N |-> IF n = 0 THEN 0
                                             ELSE base * f[n - 1] + HexValue(ds[n])]
<1>5. Number(base)[ds] = v[N]
  BY Zenon DEF Number
<1>6. v = [n \in 0..N |-> IF n = 0 THEN 0 ELSE base * v[n - 1] + HexValue(ds[n])]
  BY <1>4, Zenon
<1> HIDE DEF v
<1>7. v[0] = 0 /\ \A n \in 1..N : v[n] = base * v[n - 1] + HexValue(ds[n])
  <2>1. 0 \in 0..N /\ \A n \in 1..N : n # 0 /\ n \in 0..N
    BY <1>1
  <2> QED BY <1>6, <2>1
<1>8. v \in [0..N -> Nat]
  <2>1. DOMAIN v = 0..N /\ v = [n \in DOMAIN v |-> v[n]] /\ v[0] \in Nat
    BY <1>6, <1>7
  <2>2. \A n \in 1..N : v[n - 1] \in Nat => v[n] \in Nat
    BY <1>2, <1>7
  <2> HIDE DEF N
  <2> QED BY <1>1, <2>1, <2>2, RecursionStays
<1> QED BY <1>5, <1>7, <1>8

(* Two digits of 16 write a byte, four what 16 bits hold.                      *)
LEMMA NumberIsNat ==
    ASSUME NEW ds \in Seq(HexDigits), NEW base \in {10, 16}
    PROVE  /\ Number(base)[ds] \in Nat
           /\ base = 16 /\ Len(ds) = 2 => Number(base)[ds] < 256
           /\ base = 16 /\ Len(ds) = 4 => Number(base)[ds] < 65536
<1>1. PICK v \in [0..Len(ds) -> Nat] :
              /\ v[0] = 0
              /\ \A n \in 1..Len(ds) : v[n] = base * v[n - 1] + HexValue(ds[n])
              /\ Number(base)[ds] = v[Len(ds)]
  BY NumberExists
<1>2. Len(ds) \in Nat /\ Len(ds) \in 0..Len(ds)
  OBVIOUS
<1>3. \A n \in 1..Len(ds) : HexValue(ds[n]) \in 0..15
  <2>1. \A n \in 1..Len(ds) : ds[n] \in HexDigits
    OBVIOUS
  <2> QED BY <2>1, HexValues
<1> DEFINE v1 == v[1]  v2 == v[2]  v3 == v[3]  v4 == v[4]
           d1 == HexValue(ds[1])  d2 == HexValue(ds[2])
           d3 == HexValue(ds[3])  d4 == HexValue(ds[4])
<1>4. ASSUME base = 16, Len(ds) = 2 PROVE v2 < 256
  <2>1. 1 \in 1..Len(ds) /\ 2 \in 1..Len(ds) /\ 1 - 1 = 0 /\ 2 - 1 = 1
    BY <1>4
  <2>2. v1 = 16 * 0 + d1 /\ v2 = 16 * v1 + d2 /\ d1 \in 0..15 /\ d2 \in 0..15
    BY <1>1, <1>3, <1>4, <2>1
  <2> HIDE DEF v1, v2, d1, d2
  <2> QED BY <2>2
<1>5. ASSUME base = 16, Len(ds) = 4 PROVE v4 < 65536
  <2>1. /\ 1 \in 1..Len(ds) /\ 2 \in 1..Len(ds) /\ 1 - 1 = 0 /\ 2 - 1 = 1
        /\ 3 \in 1..Len(ds) /\ 4 \in 1..Len(ds) /\ 3 - 1 = 2 /\ 4 - 1 = 3
    BY <1>5
  <2>2. /\ v1 = 16 * 0 + d1 /\ v2 = 16 * v1 + d2 /\ v3 = 16 * v2 + d3 /\ v4 = 16 * v3 + d4
        /\ d1 \in 0..15 /\ d2 \in 0..15 /\ d3 \in 0..15 /\ d4 \in 0..15
    BY <1>1, <1>3, <1>5, <2>1
  <2> HIDE DEF v1, v2, v3, v4, d1, d2, d3, d4
  <2> QED BY <2>2
<1>6. v[Len(ds)] \in Nat
  BY <1>1, <1>2
<1>7. Number(base)[ds] = v[Len(ds)]
  BY <1>1
<1> DEFINE x == Number(base)[ds]
<1>8. (Len(ds) = 2 => x = v2) /\ (Len(ds) = 4 => x = v4) /\ x \in Nat
  BY <1>6, <1>7
<1> HIDE DEF x, v1, v2, v3, v4
<1>9. base = 16 /\ Len(ds) = 2 => x < 256
  BY <1>4, <1>8
<1>10. base = 16 /\ Len(ds) = 4 => x < 65536
  BY <1>5, <1>8
<1>11. Number(base)[ds] = x
  BY Zenon DEF x
<1> QED BY <1>8, <1>9, <1>10, <1>11

(* from_hex_to_i() finds what so many digits write, and only within the text.  *)
LEMMA HexNumber ==
    ASSUME NEW s \in Text, NEW i \in Nat \ {0}
    PROVE  /\ FromHexToI(s, i, 2) # NotHex =>
                 FromHexToI(s, i, 2) \in 0..255 /\ i + 1 <= Len(s)
           /\ FromHexToI(s, i, 4) # NotHex =>
                 FromHexToI(s, i, 4) \in Nat /\ FromHexToI(s, i, 4) < 65536 /\ i + 3 <= Len(s)
<1>1. ASSUME NEW cnt \in {2, 4}, FromHexToI(s, i, cnt) # NotHex
      PROVE  /\ i + cnt - 1 <= Len(s)
             /\ SubSeq(s, i, i + cnt - 1) \in Seq(HexDigits)
             /\ Len(SubSeq(s, i, i + cnt - 1)) = cnt
             /\ FromHexToI(s, i, cnt) = Number(16)[SubSeq(s, i, i + cnt - 1)]
  <2>1. /\ i + cnt - 1 <= Len(s) /\ \A j \in i..(i + cnt - 1) : s[j] \in HexDigits
        /\ FromHexToI(s, i, cnt) = Number(16)[SubSeq(s, i, i + cnt - 1)]
    BY <1>1, Zenon DEF FromHexToI, IsHex
  <2> DEFINE ds == SubSeq(s, i, i + cnt - 1)
  <2>2. s \in Seq(Byte)
    BY DEF Text
  <2>3. ds \in Seq(Byte) /\ Len(ds) = cnt /\ \A j \in 1..cnt : ds[j] = s[i + j - 1]
    BY <2>1, <2>2
  <2> HIDE DEF ds
  <2>4. \A j \in 1..cnt : ds[j] \in HexDigits
    <3>1. \A j \in 1..cnt : i + j - 1 \in i..(i + cnt - 1)
      OBVIOUS
    <3> QED BY <2>1, <2>3, <3>1
  <2>5. ds \in Seq(HexDigits)
    BY <2>3, <2>4
  <2> QED BY <2>1, <2>3, <2>5 DEF ds
<1>2. ASSUME FromHexToI(s, i, 2) # NotHex PROVE FromHexToI(s, i, 2) \in 0..255
  <2>1. FromHexToI(s, i, 2) = Number(16)[SubSeq(s, i, i + 2 - 1)]
    BY <1>1, <1>2
  <2> DEFINE ds == SubSeq(s, i, i + 2 - 1)
  <2>2. ds \in Seq(HexDigits) /\ Len(ds) = 2 /\ 16 \in {10, 16}
    BY <1>1, <1>2
  <2> HIDE DEF ds
  <2>3. Number(16)[ds] \in Nat /\ Number(16)[ds] < 256
    BY <2>2, NumberIsNat
  <2> QED BY <2>1, <2>3 DEF ds
<1>3. ASSUME FromHexToI(s, i, 4) # NotHex PROVE FromHexToI(s, i, 4) \in Nat /\ FromHexToI(s, i, 4) < 65536
  <2>1. FromHexToI(s, i, 4) = Number(16)[SubSeq(s, i, i + 4 - 1)]
    BY <1>1, <1>3
  <2> DEFINE ds == SubSeq(s, i, i + 4 - 1)
  <2>2. ds \in Seq(HexDigits) /\ Len(ds) = 4 /\ 16 \in {10, 16}
    BY <1>1, <1>3
  <2> HIDE DEF ds
  <2>3. Number(16)[ds] \in Nat /\ Number(16)[ds] < 65536
    BY <2>2, NumberIsNat
  <2> QED BY <2>1, <2>3 DEF ds
<1>4. i + 2 - 1 = i + 1 /\ i + 4 - 1 = i + 3
  OBVIOUS
<1> QED BY <1>1, <1>2, <1>3, <1>4

LEMMA SixBits == ASSUME NEW n \in Nat PROVE n % 64 \in 0..63 /\ n \div 64 \in Nat
  OBVIOUS

LEMMA Utf8IsText ==
    ASSUME NEW code \in Nat, code < 65536 PROVE ToUtf8(code) \in Text
<1> DEFINE q == code \div 64
           x == code \div 4096
           y == q % 64
           z == code % 64
<1>1. q \in Nat /\ y \in 0..63 /\ z \in 0..63
  BY SixBits
<1>2. x < 16
  OBVIOUS
<1>3. x \in Nat
  OBVIOUS
<1>4. code < 2048 => q < 64
  OBVIOUS
<1>5. \/ code < 128 /\ ToUtf8(code) = <<code>>
      \/ code < 2048 /\ ToUtf8(code) = <<192 + q, 128 + z>>
      \/ ToUtf8(code) = <<>>
      \/ ToUtf8(code) = <<224 + x, 128 + y, 128 + z>>
  BY SMT DEF ToUtf8
<1> HIDE DEF q, x, y, z
<1>6. /\ code < 2048 => 192 + q \in Byte
      /\ code < 128 => code \in Byte
      /\ 224 + x \in Byte /\ 128 + y \in Byte /\ 128 + z \in Byte
  BY <1>1, <1>2, <1>3, <1>4, SMT DEF Byte
<1>7. /\ \A u \in Byte : <<u>> \in Text
      /\ \A u, v \in Byte : <<u, v>> \in Text
      /\ \A u, v, w \in Byte : <<u, v, w>> \in Text
      /\ <<>> \in Text
  BY SMT DEF Text
<1> QED BY <1>5, <1>6, <1>7, SMT

\* One round of decode_url(): what the text gives from i on, g being what it
\* gives behind.
Decoded(s, i, g) ==
    IF i < Len(s) /\ s[i] = Percent /\ s[i + 1] = 117 /\ FromHexToI(s, i + 2, 4) # NotHex
    THEN ToUtf8(FromHexToI(s, i + 2, 4)) \o g[i + 6]
    ELSE IF i < Len(s) /\ s[i] = Percent /\ s[i + 1] # 117 /\ FromHexToI(s, i + 1, 2) # NotHex
    THEN <<FromHexToI(s, i + 1, 2)>> \o g[i + 3]
    ELSE <<s[i]>> \o g[i + 1]

(* It looks at most six places ahead, and never beyond the end.                *)
LEMMA DecodedIsText ==
    ASSUME NEW s \in Text, NEW i \in 1..Len(s), NEW g,
           \A j \in (i + 1)..(Len(s) + 1) : g[j] \in Text
    PROVE  /\ Decoded(s, i, g) \in Text
           /\ \A h : (\A j \in (i + 1)..(Len(s) + 1) : g[j] = h[j])
                        => Decoded(s, i, g) = Decoded(s, i, h)
<1> DEFINE wide == FromHexToI(s, i + 2, 4)
           byte == FromHexToI(s, i + 1, 2)
<1>1. /\ Len(s) \in Nat /\ i \in Nat /\ i + 1 \in Nat \ {0} /\ i + 2 \in Nat \ {0}
      /\ s[i] \in Byte
  BY DEF Text
<1>2. wide # NotHex => ToUtf8(wide) \in Text /\ i + 6 \in (i + 1)..(Len(s) + 1)
  <2>1. wide # NotHex => wide \in Nat /\ wide < 65536 /\ i + 2 + 3 <= Len(s)
    BY <1>1, HexNumber
  <2> HIDE DEF wide
  <2>2. wide # NotHex => ToUtf8(wide) \in Text
    BY <2>1, Utf8IsText
  <2> QED BY <1>1, <2>1, <2>2
<1>3. byte # NotHex => byte \in Byte /\ i + 3 \in (i + 1)..(Len(s) + 1)
  <2>1. byte # NotHex => byte \in 0..255 /\ i + 1 + 1 <= Len(s)
    BY <1>1, HexNumber
  <2> HIDE DEF byte
  <2> QED BY <1>1, <2>1 DEF Byte
<1>4. i + 1 \in (i + 1)..(Len(s) + 1)
  BY <1>1
<1>5. \A c \in Byte : <<c>> \in Text
  BY DEF Text
<1>6. \A x, y : x \in Text /\ y \in Text => x \o y \in Text
  BY DEF Text
<1> HIDE DEF wide, byte
<1>7. /\ wide # NotHex => ToUtf8(wide) \o g[i + 6] \in Text
      /\ byte # NotHex => <<byte>> \o g[i + 3] \in Text
      /\ <<s[i]>> \o g[i + 1] \in Text
  BY <1>1, <1>2, <1>3, <1>4, <1>5, <1>6, Zenon
<1>8. Decoded(s, i, g) \in Text
  BY <1>7, Zenon DEF Decoded, wide, byte
<1>9. ASSUME NEW h, \A j \in (i + 1)..(Len(s) + 1) : g[j] = h[j]
      PROVE  Decoded(s, i, g) = Decoded(s, i, h)
  <2>1. /\ wide # NotHex => g[i + 6] = h[i + 6]
        /\ byte # NotHex => g[i + 3] = h[i + 3]
        /\ g[i + 1] = h[i + 1]
    BY <1>2, <1>3, <1>4, <1>9, Zenon
  <2> QED BY <2>1, Zenon DEF Decoded, wide, byte
<1> QED BY <1>8, <1>9

(* What decode_url() makes of a text is a text.                                *)
LEMMA DecodeUrlIsText == ASSUME NEW s \in Text PROVE DecodeUrl[s] \in Text
<1> DEFINE N == Len(s)
           step == [i \in 1..N |-> [g \in [1..(N + 1) -> Text] |-> Decoded(s, i, g)]]
<1>1. N \in Nat /\ <<>> \in Text /\ N + 1 \in 1..(N + 1) /\ 1 \in 1..(N + 1)
  BY DEF Text
<1>2. LooksUp(step, Text, N)
  <2>1. ASSUME NEW i \in 1..N, NEW g \in [1..(N + 1) -> Text]
        PROVE  /\ step[i][g] \in Text
               /\ \A h \in [1..(N + 1) -> Text] :
                     (\A j \in (i + 1)..(N + 1) : g[j] = h[j]) => step[i][g] = step[i][h]
    <3>1. \A j \in (i + 1)..(N + 1) : g[j] \in Text
      BY <1>1
    <3>2. \A h \in [1..(N + 1) -> Text] : step[i][h] = Decoded(s, i, h)
      OBVIOUS
    <3>3. /\ Decoded(s, i, g) \in Text
          /\ \A h : (\A j \in (i + 1)..(N + 1) : g[j] = h[j])
                        => Decoded(s, i, g) = Decoded(s, i, h)
      BY <3>1, DecodedIsText
    <3> HIDE DEF step, N
    <3> QED BY <3>2, <3>3
  <2> HIDE DEF step, N
  <2> QED BY <2>1 DEF LooksUp
<1>3. PICK g : Descends(g, step, <<>>, Text, N, 1)
  <2> HIDE DEF step, N
  <2> QED BY <1>1, <1>2, RecursionDownTo
<1>4. g = [i \in 1..(N + 1) |-> IF i > N THEN <<>> ELSE Decoded(s, i, g)]
  <2>1. /\ g \in [1..(N + 1) -> Text] /\ g[N + 1] = <<>>
        /\ \A i \in 1..N : g[i] = step[i][g]
    BY <1>3 DEF Descends
  <2>2. ASSUME NEW i \in 1..(N + 1)
        PROVE  g[i] = IF i > N THEN <<>> ELSE Decoded(s, i, g)
    <3>1. CASE i > N
      <4>1. i = N + 1
        BY <1>1, <3>1
      <4> QED BY <2>1, <3>1, <4>1
    <3>2. CASE ~ (i > N)
      <4>1. i \in 1..N
        BY <1>1, <3>2
      <4>2. step[i][g] = Decoded(s, i, g)
        BY <2>1, <4>1
      <4> QED BY <2>1, <3>2, <4>1, <4>2
    <3> QED BY <3>1, <3>2
  <2> QED BY <2>1, <2>2
<1> DEFINE from == CHOOSE f : f = [i \in 1..(N + 1) |->
                                      IF i > N THEN <<>> ELSE Decoded(s, i, f)]
<1>5. DecodeUrl[s] = from[1]
  BY Zenon DEF DecodeUrl, Decoded
<1>6. from = [i \in 1..(N + 1) |-> IF i > N THEN <<>> ELSE Decoded(s, i, from)]
  BY <1>4, Zenon
<1> HIDE DEF from
<1>7. from \in [1..(N + 1) -> Text]
  <2>1. DOMAIN from = 1..(N + 1) /\ from = [i \in DOMAIN from |-> from[i]]
    BY <1>6
  <2>2. from[N + 1] \in Text
    <3>1. N + 1 > N
      BY <1>1
    <3> QED BY <1>1, <1>6, <3>1
  <2>3. ASSUME NEW i \in 1..N, \A j \in (i + 1)..(N + 1) : from[j] \in Text
        PROVE  from[i] \in Text
    <3>1. ~ (i > N) /\ i \in 1..(N + 1)
      BY <1>1
    <3>2. from[i] = Decoded(s, i, from)
      BY <1>6, <3>1
    <3> QED BY <2>3, <3>2, DecodedIsText
  <2> HIDE DEF N
  <2> QED BY <1>1, <2>1, <2>2, <2>3, RecursionStaysDown
<1> QED BY <1>1, <1>5, <1>7

LEMMA PartIsText ==
    ASSUME NEW s \in Text, NEW m \in Nat \ {0}, NEW n \in Int, n <= Len(s)
    PROVE  SubSeq(s, m, n) \in Text
  BY PartIsSeq DEF Text

LEMMA AfterSpacesIsText == ASSUME NEW s \in Text PROVE AfterSpaces[s] \in Text
<1>1. Spaces \in SUBSET Byte
  BY DEF Spaces, Byte
<1>2. Span(Spaces)[s] \in Nat
  <2>1. Span(Spaces)[s] \in 0..Len(s)
    BY <1>1, SpanExists
  <2> QED BY <2>1
<1>3. AfterSpaces[s] = Drop(s, Span(Spaces)[s])
  BY Zenon DEF AfterSpaces
<1> QED BY <1>2, <1>3, DropIsText

(* The beginning of a text that Span() finds has nothing but bytes of the set. *)
LEMMA SpannedPart ==
    ASSUME NEW s \in Text, NEW S \in SUBSET Byte
    PROVE  SubSeq(s, 1, Span(S)[s]) \in Seq(S)
<1> DEFINE n == Span(S)[s]
<1>1. n \in 0..Len(s) /\ \A i \in 1..n : s[i] \in S
  BY SpanExists
<1> HIDE DEF n
<1>2. s \in Seq(Byte)
  BY DEF Text
<1> DEFINE p == SubSeq(s, 1, n)
<1>3. p \in Seq(Byte) /\ Len(p) = n /\ \A i \in 1..n : p[i] = s[i]
  BY <1>1, <1>2
<1> HIDE DEF p
<1>4. p \in Seq(S)
  BY <1>1, <1>3
<1> QED BY <1>4 DEF p, n

(* What strtoull() takes for digits are digits.                                *)
LEMMA DigitsAreHex ==
    ASSUME NEW s \in Text, NEW base \in {10, 16}
    PROVE  DigitsOf(base)[s] \in Seq(HexDigits)
<1> DEFINE u == Drop(s, IF Signed(s) THEN 1 ELSE 0)
           w == IF Len(u) > 2 /\ u[1] = 48 /\ u[2] \in {88, 120} /\ IsHex(u[3])
                THEN Drop(u, 2) ELSE u
<1>1. u \in Text
  <2>1. (IF Signed(s) THEN 1 ELSE 0) \in Nat
    OBVIOUS
  <2> QED BY <2>1, DropIsText
<1>2. DigitsOf(base)[s] = IF base = 10 THEN SubSeq(u, 1, Span(Digits)[u])
                          ELSE SubSeq(w, 1, Span(HexDigits)[w])
  BY Zenon DEF DigitsOf
<1> HIDE DEF u
<1>3. w \in Text
  <2>1. Drop(u, 2) \in Text
    BY <1>1, 2 \in Nat, DropIsText
  <2> QED BY <1>1, <2>1
<1> HIDE DEF w
<1>4. SubSeq(u, 1, Span(Digits)[u]) \in Seq(Digits)
  BY <1>1, SpannedPart, HexValues
<1>5. SubSeq(w, 1, Span(HexDigits)[w]) \in Seq(HexDigits)
  BY <1>3, SpannedPart, HexValues
<1>6. Seq(Digits) \subseteq Seq(HexDigits)
  BY HexValues
<1> QED BY <1>2, <1>4, <1>5, <1>6, Zenon

LEMMA Wraps == ASSUME NEW v \in Nat, NEW M \in Nat \ {0} PROVE (0 - v) % (M + 1) \in Nat
  OBVIOUS

(* Whatever a line or a header says, it is taken for a natural number.         *)
LEMMA UnsignedIsNat ==
    ASSUME NEW s \in Text, NEW base \in {10, 16}
    PROVE  Unsigned(base)[s].value \in Nat
<1> DEFINE t == AfterSpaces[s]
           ds == DigitsOf(base)[t]
           v == Number(base)[ds]
           n == IF v > MaxUnsigned THEN MaxUnsigned
                ELSE IF Negative(t) THEN (0 - v) % (MaxUnsigned + 1) ELSE v
<1>1. ds \in Seq(HexDigits)
  BY AfterSpacesIsText, DigitsAreHex
<1>2. Unsigned(base)[s] = [found |-> ds # <<>>, value |-> n]
  BY Zenon DEF Unsigned
<1> HIDE DEF ds
<1>3. v \in Nat
  BY <1>1, NumberIsNat
<1> HIDE DEF v, t
<1>4. (0 - v) % (MaxUnsigned + 1) \in Nat
  BY <1>3, Wraps, MaxUnsignedAssumption
<1>5. n \in Nat
  BY <1>3, <1>4, MaxUnsignedAssumption
<1> QED BY <1>2, <1>5

\* A member of Headers.
Field == [key : Text, val : Text]

(* parse_header() makes of a line a header, or nothing.                        *)
LEMMA ParsedHeader == ASSUME NEW text \in Text PROVE ParseHeader(text) \in Seq(Field)
<1> DEFINE t == SubSeq(text, 1, Len(text) - Span(Blanks)[Reverse(text)])
           n == Span(Byte \ {Colon})[t]
           rest == Drop(t, n + 1)
           value == Drop(rest, Span(Blanks)[rest])
           key == SubSeq(t, 1, n)
           val == IF CompareCaseIgnore(key, LocationKey) THEN value ELSE DecodeUrl[value]
<1>1. Blanks \in SUBSET Byte /\ Byte \ {Colon} \in SUBSET Byte
  BY DEF Blanks, Byte
<1>2. Reverse(text) \in Text /\ Len(Reverse(text)) = Len(text)
  BY DEF Reverse, Text
<1>3. t \in Text
  <2>1. Span(Blanks)[Reverse(text)] \in 0..Len(text)
    BY <1>1, <1>2, SpanExists
  <2> DEFINE m == Len(text) - Span(Blanks)[Reverse(text)]
  <2>2. Len(text) \in Nat
    BY DEF Text
  <2>3. m \in Int /\ m <= Len(text) /\ 1 \in Nat \ {0}
    BY <2>1, <2>2
  <2> HIDE DEF m
  <2>4. SubSeq(text, 1, m) \in Text
    BY <2>3, PartIsText
  <2> QED BY <2>4 DEF m
<1> HIDE DEF t
<1>4. n \in 0..Len(t) /\ Len(t) \in Nat
  BY <1>1, <1>3, SpanExists DEF Text
<1> HIDE DEF n
<1>5. key \in Text
  <2>1. n \in Int /\ n <= Len(t) /\ 1 \in Nat \ {0}
    BY <1>4
  <2> QED BY <1>3, <2>1, PartIsText
<1>6. rest \in Text
  <2>1. n + 1 \in Nat
    BY <1>4
  <2> QED BY <1>3, <2>1, DropIsText
<1> HIDE DEF rest
<1>7. value \in Text
  <2>1. Span(Blanks)[rest] \in 0..Len(rest)
    BY <1>1, <1>6, SpanExists
  <2>2. Span(Blanks)[rest] \in Nat
    BY <2>1
  <2> QED BY <1>6, <2>2, DropIsText
<1> HIDE DEF value, key
<1>8. val \in Text
  BY <1>7, DecodeUrlIsText
<1>9. ParseHeader(text) = IF n = Len(t) \/ value = <<>> \/ key = <<>> THEN <<>>
                          ELSE <<[key |-> key, val |-> val]>>
  BY Zenon DEF ParseHeader, t, n, rest, value, key
<1> HIDE DEF val
<1>10. <<>> \in Seq(Field) /\ <<[key |-> key, val |-> val]>> \in Seq(Field)
  <2>1. [key |-> key, val |-> val] \in Field
    BY <1>5, <1>8 DEF Field
  <2>2. \A x \in Field : <<x>> \in Seq(Field)
    OBVIOUS
  <2> QED BY <2>1, <2>2
<1> QED BY <1>9, <1>10, Zenon

\* Which of the headers get_header_value() takes: the first of that name.
First(hs, key, j) ==
    /\ j \in DOMAIN hs /\ SameKey(hs[j].key, key)
    /\ \A k \in 1..(j - 1) : ~ SameKey(hs[k].key, key)

LEMMA FirstExists ==
    ASSUME NEW hs \in Seq(Field), NEW key, HasHeader(hs, key)
    PROVE  \E j : First(hs, key, j)
<1> DEFINE S == {j \in DOMAIN hs : SameKey(hs[j].key, key)}
<1>1. S \subseteq Nat /\ S # {} /\ DOMAIN hs = 1..Len(hs) /\ Len(hs) \in Nat
  BY DEF HasHeader
<1>2. PICK j \in S : \A k \in S : j <= k
  <2> HIDE DEF S
  <2> QED BY <1>1, LeastExists
<1>3. ASSUME NEW k \in 1..(j - 1) PROVE ~ SameKey(hs[k].key, key)
  <2>1. j \in 1..Len(hs)
    BY <1>1
  <2>2. k \in DOMAIN hs /\ ~ (j <= k)
    BY <1>1, <2>1
  <2> QED BY <1>2, <2>2
<1> QED BY <1>2, <1>3 DEF First

LEMMA FirstIsOne ==
    ASSUME NEW hs \in Seq(Field), NEW key, NEW i, First(hs, key, i), NEW j, First(hs, key, j)
    PROVE  i = j
<1>1. i \in 1..Len(hs) /\ j \in 1..Len(hs) /\ Len(hs) \in Nat
  BY DEF First
<1>2. i \notin 1..(j - 1) /\ j \notin 1..(i - 1)
  BY DEF First
<1> QED BY <1>1, <1>2

LEMMA HeaderValue ==
    ASSUME NEW hs \in Seq(Field), NEW key, NEW j, First(hs, key, j)
    PROVE  GetHeaderValue(hs, key) = SubSeq(hs[j].val, 1, Span(Byte \ {0})[hs[j].val])
<1>1. HasHeader(hs, key)
  BY DEF First, HasHeader
<1> DEFINE i == CHOOSE x \in DOMAIN hs :
                    /\ SameKey(hs[x].key, key)
                    /\ \A k \in 1..(x - 1) : ~ SameKey(hs[k].key, key)
<1>2. GetHeaderValue(hs, key) = SubSeq(hs[i].val, 1, Span(Byte \ {0})[hs[i].val])
  BY <1>1, Zenon DEF GetHeaderValue
<1>3. First(hs, key, i)
  BY Zenon DEF First
<1> HIDE DEF i
<1>4. i = j
  BY <1>3, FirstIsOne
<1> QED BY <1>2, <1>4

LEMMA HeaderValueIsText ==
    ASSUME NEW hs \in Seq(Field), NEW key PROVE GetHeaderValue(hs, key) \in Text
<1>1. CASE HasHeader(hs, key)
  <2>1. PICK j : First(hs, key, j)
    BY <1>1, FirstExists
  <2>2. hs[j].val \in Text
    <3>1. hs[j] \in Field
      BY <2>1 DEF First
    <3> QED BY <3>1 DEF Field
  <2> DEFINE v == hs[j].val
             n == Span(Byte \ {0})[v]
  <2>3. n \in 0..Len(v)
    BY <2>2, SpanExists
  <2>4. GetHeaderValue(hs, key) = SubSeq(v, 1, n)
    BY <2>1, HeaderValue
  <2> HIDE DEF v, n
  <2>5. v \in Text /\ Len(v) \in Nat
    BY <2>2 DEF v, Text
  <2>6. n \in Int /\ n <= Len(v) /\ 1 \in Nat \ {0}
    BY <2>3, <2>5
  <2>7. SubSeq(v, 1, n) \in Text
    BY <2>5, <2>6, PartIsText
  <2> QED BY <2>4, <2>7
<1>2. CASE ~ HasHeader(hs, key)
  <2>1. GetHeaderValue(hs, key) = <<>> /\ <<>> \in Text
    BY <1>2 DEF GetHeaderValue, Text
  <2> QED BY <2>1
<1> QED BY <1>1, <1>2

LEMMA ContentLengthIsNat ==
    ASSUME NEW hs \in Seq(Field) PROVE ContentLength(hs) \in Nat
<1>1. GetHeaderValue(hs, ContentLengthKey) \in Text
  BY HeaderValueIsText
<1>2. 10 \in {10, 16}
  OBVIOUS
<1> QED BY <1>1, <1>2, UnsignedIsNat DEF ContentLength

(* Trailers come behind the headers, and do not change what was found there.   *)
LEMMA ValueStays ==
    ASSUME NEW hs \in Seq(Field), NEW more \in Seq(Field), NEW key, HasHeader(hs, key)
    PROVE  GetHeaderValue(hs \o more, key) = GetHeaderValue(hs, key)
<1>1. PICK j : First(hs, key, j)
  BY FirstExists
<1> DEFINE all == hs \o more
<1>2. /\ all \in Seq(Field) /\ \A i \in DOMAIN hs : i \in DOMAIN all /\ all[i] = hs[i]
      /\ DOMAIN hs = 1..Len(hs) /\ Len(hs) \in Nat
  OBVIOUS
<1> HIDE DEF all
<1>3. First(all, key, j)
  <2>1. j \in DOMAIN hs /\ SameKey(hs[j].key, key)
    BY <1>1 DEF First
  <2>2. \A k \in 1..(j - 1) : k \in DOMAIN hs /\ ~ SameKey(hs[k].key, key)
    BY <1>1, <1>2, <2>1 DEF First
  <2> QED BY <1>2, <2>1, <2>2 DEF First
<1>4. all[j] = hs[j]
  BY <1>1, <1>2 DEF First
<1>5. GetHeaderValue(hs, key) = SubSeq(hs[j].val, 1, Span(Byte \ {0})[hs[j].val])
  BY <1>1, HeaderValue
<1>6. GetHeaderValue(all, key) = SubSeq(all[j].val, 1, Span(Byte \ {0})[all[j].val])
  BY <1>2, <1>3, HeaderValue
<1>7. GetHeaderValue(all, key) = GetHeaderValue(hs, key)
  BY <1>4, <1>5, <1>6, Zenon
<1> QED BY <1>7 DEF all

LEMMA ChunkedStays ==
    ASSUME NEW hs \in Seq(Field), NEW more \in Seq(Field), IsChunked(hs)
    PROVE  IsChunked(hs \o more)
<1>1. HasHeader(hs, TransferEncodingKey)
  <2>1. Len(GetHeaderValue(hs, TransferEncodingKey)) = 7
    <3>1. Len(Chunked) = 7
      BY DEF Chunked
    <3> QED BY <3>1 DEF IsChunked, CompareCaseIgnore
  <2>2. Len(<<>>) = 0
    OBVIOUS
  <2> QED BY <2>1, <2>2 DEF GetHeaderValue
<1> QED BY <1>1, ValueStays DEF IsChunked

LEMMA StatusLineTypes ==
    ASSUME NEW b \in Text, IsStatusLine(b)
    PROVE  /\ StatusLine(b).minor \in Int /\ StatusLine(b).status \in Int
           /\ StatusLine(b).reason \in Text
<1>1. Len(b) \in Nat /\ Len(b) >= 14
  BY DEF Text, IsStatusLine
<1>2. ASSUME NEW i \in 1..14 PROVE b[i] \in Int
  <2>1. i \in 1..Len(b)
    BY <1>1
  <2>2. b \in Seq(Byte)
    BY DEF Text
  <2>3. b[i] \in Byte
    BY <2>1, <2>2
  <2> QED BY <2>3 DEF Byte
<1>3. SubSeq(b, 14, Len(b) - 2) \in Text
  <2>1. Len(b) - 2 \in Int /\ Len(b) - 2 <= Len(b) /\ 14 \in Nat \ {0}
    BY <1>1
  <2> QED BY <2>1, PartIsText
<1> DEFINE b8 == b[8]  b10 == b[10]  b11 == b[11]  b12 == b[12]
<1>4. b8 \in Int /\ b10 \in Int /\ b11 \in Int /\ b12 \in Int
  BY <1>2
<1>5. StatusLine(b) = [minor |-> b8 - 48, status |-> 100 * (b10 - 48) + 10 * (b11 - 48) + b12 - 48,
                       reason |-> SubSeq(b, 14, Len(b) - 2)]
  BY DEF StatusLine
<1> HIDE DEF b8, b10, b11, b12
<1> QED BY <1>3, <1>4, <1>5

\* -------------------------------------------------- the types of the variables

\* The variables of one value each.
Scalars ==
    /\ point \in Reading /\ resp \in Responses /\ error \in Error
    /\ ret \in BOOLEAN /\ held \in BOOLEAN /\ addrs \in 0..MaxAddrs
    /\ peer \in {"none", "up", "fin", "rst"}
    /\ at \in 0..Len(resp.wire)
    /\ pc \in Opening => addrs > 0

\* How much of the request is sent.
Portion == [head : 0..HeadLen, body : 0..BodyLen]

LEMMA SizesAreNat ==
    /\ \A r \in Responses : Len(r.wire) \in Nat /\ r.wire \in Seq(Piece \ {<<>>})
    /\ HeadLen \in Nat /\ BodyLen \in Nat \ {0} /\ MaxAddrs \in Nat
    /\ RecvBuff \in Nat \ {0} /\ ReadBuff \in Nat \ {0}
<1>1. \A r \in Responses : r.wire \in Seq(Piece \ {<<>>})
  BY ResponsesAssumption
<1>2. \A r \in Responses : Len(r.wire) \in Nat
  BY <1>1
<1>3. HeadLen \in Nat
  <2> DEFINE T == {RequestHeaders[i] : i \in 1..6} \cup {"", "POST / HTTP/1.1"}
  <2>1. RequestHeaders \in [1..6 -> T]
    BY DEF RequestHeaders
  <2> HIDE DEF T
  <2>2. \A x, y : x \in Seq(T) /\ y \in Seq(T) => x \o y \in Seq(T)
    OBVIOUS
  <2>3. RequestHeaders \in Seq(T)
    <3>1. 6 \in Nat
      OBVIOUS
    <3> QED BY <2>1, <3>1, FunctionIsSeq, Zenon
  <2>4. <<"">> \in Seq(T) /\ <<"POST / HTTP/1.1">> \in Seq(T)
    BY DEF T
  <2>5. RequestHead \in Seq(T)
    BY <2>2, <2>3, <2>4, Zenon DEF RequestHead, WriteHeaders
  <2> QED BY <2>5 DEF HeadLen
<1> QED BY <1>1, <1>2, <1>3, SizesAssumption

LEMMA ScalarsInit == Init => Scalars
<1> SUFFICES ASSUME Init PROVE Scalars
  OBVIOUS
<1>1. /\ resp \in Responses /\ at = 0 /\ point = "status" /\ error = "Success"
      /\ ret = FALSE /\ held = FALSE /\ addrs = 0 /\ peer = "none"
      /\ pc = "idle"
  BY Zenon DEF Init
<1>2. 0 \in 0..Len(resp.wire) /\ 0 \in 0..MaxAddrs
  BY <1>1, SizesAreNat
<1> QED BY <1>1, <1>2 DEF Scalars, Reading, Error, Opening

(* A line is read for one of the places that read lines, and an error has a    *)
(* name.                                                                       *)
LEMMA ScalarsStep == ASSUME IInv, Scalars, [Next]_vars PROVE Scalars'
<1> USE DEF Scalars
<1>1. ASSUME MakeClient PROVE Scalars'
  <2>1. /\ resp' \in Responses /\ at' = 0 /\ held' = FALSE /\ pc' = "made"
        /\ UNCHANGED <<point, error, ret, addrs, peer>>
    BY <1>1 DEF MakeClient
  <2>2. 0 \in 0..Len(resp'.wire)
    BY <2>1, SizesAreNat
  <2> QED BY <2>1, <2>2 DEF Opening
<1>2. ASSUME Post \/ Return \/ ProcessSocket PROVE Scalars'
  BY <1>2 DEF Post, Return, ProcessSocket, node, conn, Error, Opening
<1>3. ASSUME Resolve PROVE Scalars'
  BY <1>3 DEF Resolve, HostAddresses, node, Opening
<1>4. ASSUME OpenSocket PROVE Scalars'
  <2>1. /\ UNCHANGED <<point, resp, error, ret, held, peer, at>> /\ addrs > 0
        /\ \/ addrs' = addrs
           \/ addrs' = addrs - 1 /\ pc' = "socket"
    BY <1>4 DEF OpenSocket, node
  <2>2. addrs' \in 0..MaxAddrs /\ (pc' \in Opening => addrs' > 0)
    BY <2>1, SizesAreNat DEF Opening
  <2> QED BY <2>1, <2>2
<1>5. ASSUME Connect \/ WaitUntilReady PROVE Scalars'
  <2>1. pc \in Opening /\ addrs > 0
    BY <1>5 DEF Connect, WaitUntilReady, Opening
  <2>2. UNCHANGED <<point, resp, ret, at>>
    BY <1>5 DEF Connect, WaitUntilReady
  <2>3. \/ /\ error' = "Success" /\ held' = TRUE /\ peer' = "up" /\ UNCHANGED addrs
        \/ /\ error' \in {"Connection", "ConnectionTimeout"} /\ addrs' = addrs - 1
           /\ UNCHANGED <<held, peer>> /\ pc' = "socket"
        \/ UNCHANGED <<error, held, peer, addrs>>
    BY <1>5 DEF Connect, WaitUntilReady, Connected, ConnectFails, conn
  <2>4. addrs' \in 0..MaxAddrs /\ (pc' \in Opening => addrs' > 0)
    BY <2>1, <2>3, SizesAreNat DEF Opening
  <2> QED BY <2>2, <2>3, <2>4 DEF Error
<1>6. ASSUME NoSocket PROVE Scalars'
  BY <1>6 DEF NoSocket, node, conn, Error, Opening
<1>7. ASSUME UNCHANGED <<resp, held, addrs, peer, at>>, point' \in Reading,
             error' \in Error, ret' \in BOOLEAN, pc' \notin Opening
      PROVE  Scalars'
  BY <1>7
<1>8. ASSUME IsWritable \/ Send \/ SendFails PROVE Scalars'
  <2>1. UNCHANGED <<resp, held, addrs, peer, at>> /\ point' \in Reading
    BY <1>8 DEF IsWritable, Send, SendFails, node, conn, Reading
  <2>2. error' \in Error /\ ret' \in BOOLEAN /\ pc' \notin Opening
    BY <1>8 DEF IsWritable, Send, SendFails, Fail, Error, Opening
  <2> QED BY <1>7, <2>1, <2>2
<1>9. ASSUME BrokenPipe PROVE Scalars'
  BY <1>9 DEF BrokenPipe, node, Opening
<1>10. ASSUME GetLine PROVE Scalars'
  <2>1. UNCHANGED <<resp, held, addrs, peer, at, point>>
    BY <1>10 DEF GetLine, node, conn
  <2>2. /\ error' \in Error /\ ret' \in BOOLEAN
        /\ pc' \in {point, "line", "finish"}
    BY <1>10 DEF GetLine, Fail, Error
  <2> QED BY <1>7, <2>1, <2>2 DEF Opening, Reading
<1>11. ASSUME ReadResponseLine \/ ReadHeaders \/ ReadContent PROVE Scalars'
  <2>1. UNCHANGED <<resp, held, addrs, peer, at>> /\ point' \in Reading
    BY <1>11 DEF ReadResponseLine, ReadHeaders, ReadContent, NextLine, node, conn, Reading
  <2>2. error' \in Error /\ ret' \in BOOLEAN /\ pc' \notin Opening
    BY <1>11 DEF ReadResponseLine, ReadHeaders, ReadContent, NextLine, Succeed, Fail, Error, Opening
  <2> QED BY <1>7, <2>1, <2>2
<1>12. ASSUME ReadContentWithLength \/ ReadContentWithoutLength PROVE Scalars'
  <2>1. UNCHANGED <<resp, held, addrs, peer, at>> /\ point' \in Reading
    BY <1>12 DEF ReadContentWithLength, ReadContentWithoutLength, NextLine, node, conn, Reading
  <2>2. error' \in Error /\ ret' \in BOOLEAN /\ pc' \notin Opening
    BY <1>12 DEF ReadContentWithLength, ReadContentWithoutLength, NextLine, Succeed, Fail,
       Error, Opening
  <2> QED BY <1>7, <2>1, <2>2
<1>13. ASSUME ReadChunk \/ EndChunk \/ ReadTrailer PROVE Scalars'
  <2>1. UNCHANGED <<resp, held, addrs, peer, at>> /\ point' \in Reading
    BY <1>13 DEF ReadChunk, EndChunk, ReadTrailer, NextLine, node, conn, Reading
  <2>2. error' \in Error /\ ret' \in BOOLEAN /\ pc' \notin Opening
    BY <1>13 DEF ReadChunk, EndChunk, ReadTrailer, NextLine, Succeed, Fail, Error, Opening
  <2> QED BY <1>7, <2>1, <2>2
<1>14. ASSUME HandleResponse \/ FinishRequest \/ DestroyClient PROVE Scalars'
  BY <1>14 DEF HandleResponse, FinishRequest, DestroyClient, CloseSocket, Error, Opening
<1>15. ASSUME Deliver PROVE Scalars'
  <2>1. /\ UNCHANGED <<pc, point, resp, error, ret, held, addrs, peer>>
        /\ at' = at + 1 /\ at < Len(resp.wire)
    BY <1>15 DEF Deliver, conn
  <2>2. at' \in 0..Len(resp.wire)
    BY <2>1, SizesAreNat
  <2> QED BY <2>1, <2>2
<1>16. ASSUME PeerCloses \/ PeerResets \/ UNCHANGED vars PROVE Scalars'
  BY <1>16 DEF PeerCloses, PeerResets, vars, conn, node
<1> QED BY <1>1, <1>2, <1>3, <1>4, <1>5, <1>6, <1>8, <1>9, <1>10, <1>11, <1>12, <1>13, <1>14,
           <1>15, <1>16 DEF Next, Step

\* The Response that the lines and the content read so far have made.
Response == [minor : Int, status : Int, reason : Text, headers : Seq(Field), body : Seq(Piece)]

\* The variables that hold a part of the request or of the response.
Contents ==
    /\ need \in Nat /\ sent \in Portion
    /\ kern \in Seq(Piece) /\ rbuf \in Seq(Piece)
    /\ line \in Text /\ res \in Response

LEMMA LesserIs ==
    ASSUME NEW m \in Nat, NEW n \in Nat
    PROVE  Lesser(m, n) \in Nat /\ Lesser(m, n) <= m /\ Lesser(m, n) <= n
           /\ (m > 0 /\ n > 0 => Lesser(m, n) > 0)
  BY DEF Lesser

(* What is taken from a buffer and what is left of it.                         *)
LEMMA Taken ==
    ASSUME NEW T, NEW s \in Seq(T), NEW m \in Nat, NEW n \in Nat, m <= n, n <= Len(s)
    PROVE  /\ SubSeq(s, 1, m) \in Seq(T) /\ Len(SubSeq(s, 1, m)) = m
           /\ SubSeq(s, m + 1, n) \in Seq(T)
           /\ SubSeq(s, n + 1, Len(s)) \in Seq(T)
<1>1. Len(s) \in Nat /\ m + 1 \in Nat \ {0} /\ n + 1 \in Nat \ {0} /\ 1 \in Nat \ {0}
      /\ m \in Int /\ n \in Int /\ Len(s) \in Int /\ m <= Len(s) /\ Len(s) <= Len(s)
  OBVIOUS
<1>2. /\ SubSeq(s, 1, m) \in Seq(T) /\ Len(SubSeq(s, 1, m)) = IF m < 1 THEN 0 ELSE m - 1 + 1
      /\ SubSeq(s, m + 1, n) \in Seq(T)
      /\ SubSeq(s, n + 1, Len(s)) \in Seq(T)
  BY <1>1, PartIsSeq
<1>3. (IF m < 1 THEN 0 ELSE m - 1 + 1) = m
  OBVIOUS
<1> QED BY <1>2, <1>3

\* What read() may return.
Outcome(r, size) ==
    /\ r.n \in Int /\ r.n <= size
    /\ r.got \in Seq(Piece) /\ r.rbuf \in Seq(Piece) /\ r.kern \in Seq(Piece)
    /\ r.n > 0 => Len(r.got) = r.n

(* SocketStream::read() says how much it gives, and it is not more than asked. *)
LEMMA ReadOutcome == ASSUME Contents, NEW size \in Nat PROVE Outcome(Read(size), size)
<1>1. /\ rbuf \in Seq(Piece) /\ kern \in Seq(Piece)
      /\ Len(rbuf) \in Nat /\ Len(kern) \in Nat
  BY DEF Contents
<1>2. Outcome(FromBuffer(size), size)
  <2> DEFINE n == Lesser(size, Len(rbuf))
             got == SubSeq(rbuf, 1, n)
             rest == SubSeq(rbuf, n + 1, Len(rbuf))
  <2>1. n \in Nat /\ n <= size /\ n <= Len(rbuf)
    BY <1>1, LesserIs
  <2>2. FromBuffer(size) = [n |-> n, got |-> got, rbuf |-> rest, kern |-> kern]
    BY Zenon DEF FromBuffer
  <2> HIDE DEF n
  <2>3. got \in Seq(Piece) /\ Len(got) = n /\ rest \in Seq(Piece)
    <3>1. n <= n
      BY <2>1
    <3> QED BY <1>1, <2>1, <3>1, Taken
  <2> HIDE DEF got, rest
  <2> QED BY <1>1, <2>1, <2>2, <2>3 DEF Outcome
<1>3. Outcome(FromSocket(size), size)
  <2> DEFINE limit == IF size < ReadBuff THEN ReadBuff ELSE size
             n == Recv(limit)
             m == Lesser(size, n)
             got == SubSeq(kern, 1, m)
             buffered == SubSeq(kern, m + 1, n)
             rest == SubSeq(kern, n + 1, Len(kern))
  <2>1. limit \in Nat
    BY SizesAreNat
  <2>2. FromSocket(size) = [n |-> m, got |-> got, rbuf |-> buffered, kern |-> rest]
    BY Zenon DEF FromSocket
  <2> HIDE DEF limit
  <2>3. n \in Nat /\ n <= Len(kern)
    BY <1>1, <2>1, LesserIs DEF Recv
  <2> HIDE DEF n
  <2>4. m \in Nat /\ m <= size /\ m <= n
    BY <2>3, LesserIs
  <2> HIDE DEF m
  <2>5. /\ got \in Seq(Piece) /\ Len(got) = m
        /\ buffered \in Seq(Piece) /\ rest \in Seq(Piece)
    BY <1>1, <2>3, <2>4, Taken
  <2> HIDE DEF got, buffered, rest
  <2> QED BY <2>2, <2>4, <2>5 DEF Outcome
<1>4. Outcome(Unreadable, size) /\ Outcome([Unreadable EXCEPT !.n = 0], size)
  <2>1. <<>> \in Seq(Piece) /\ -1 \in Int /\ -1 <= size /\ 0 \in Int /\ 0 <= size
        /\ ~ (0 > 0) /\ ~ (-1 > 0)
    OBVIOUS
  <2> QED BY <1>1, <2>1 DEF Outcome, Unreadable
<1> QED BY <1>2, <1>3, <1>4 DEF Read

(* getline() asks for one piece and appends what it gets.                      *)
LEMMA ReadsOnePiece ==
    ASSUME Contents, Read(1).n = 1 PROVE Read(1).got[1] \in Text
<1> DEFINE r == Read(1)
<1>1. Outcome(r, 1) /\ r.n = 1
  BY ReadOutcome, 1 \in Nat
<1> HIDE DEF r
<1>2. r.got \in Seq(Piece) /\ Len(r.got) = 1
  BY <1>1 DEF Outcome
<1>3. r.got[1] \in Piece
  BY <1>2
<1> QED BY <1>3 DEF r, Piece, Text

--------------------------------------------------------------------------------

LEMMA ContentsInit == Init => Contents
<1> SUFFICES ASSUME Init PROVE Contents
  OBVIOUS
<1>1. /\ need = 0 /\ sent = NewRequest /\ kern = <<>> /\ rbuf = <<>>
      /\ line = <<>> /\ res = NewResponse
  BY Zenon DEF Init
<1>2. NewRequest \in Portion
  BY SizesAreNat DEF NewRequest, Portion
<1>3. NewResponse \in Response /\ <<>> \in Text /\ <<>> \in Seq(Piece)
  BY DEF NewResponse, Response, Text
<1> QED BY <1>1, <1>2, <1>3 DEF Contents

(* The parts of a Response that are assigned one by one.                       *)
LEMMA ResponseUpdates ==
    ASSUME res \in Response
    PROVE  /\ \A m \in Int, s \in Int, t \in Text :
                [res EXCEPT !.minor = m, !.status = s, !.reason = t] \in Response
           /\ \A hs \in Seq(Field) :
                /\ [res EXCEPT !.headers = hs] \in Response
                /\ [res EXCEPT !.headers = hs].headers = hs
           /\ \A b \in Seq(Piece) :
                /\ [res EXCEPT !.body = b] \in Response
                /\ [res EXCEPT !.body = b].body = b
           /\ res.headers \in Seq(Field) /\ res.body \in Seq(Piece)
<1> DEFINE H == Seq(Field)
           B == Seq(Piece)
<1> HIDE DEF H, B
<1>1. res \in [minor : Int, status : Int, reason : Text, headers : H, body : B]
  BY DEF Response, H, B
<1>2. /\ \A m \in Int, s \in Int, t \in Text :
           [res EXCEPT !.minor = m, !.status = s, !.reason = t]
               \in [minor : Int, status : Int, reason : Text, headers : H, body : B]
      /\ \A hs \in H :
           /\ [res EXCEPT !.headers = hs]
                \in [minor : Int, status : Int, reason : Text, headers : H, body : B]
           /\ [res EXCEPT !.headers = hs].headers = hs
      /\ \A b \in B :
           /\ [res EXCEPT !.body = b]
                \in [minor : Int, status : Int, reason : Text, headers : H, body : B]
           /\ [res EXCEPT !.body = b].body = b
      /\ res.headers \in H /\ res.body \in B
  BY <1>1
<1> QED BY <1>2, Zenon DEF Response, H, B

(* A line of the headers or of the trailers, and a part of the content, stay   *)
(* within the types of a Response.                                             *)
LEMMA FieldOfLine ==
    ASSUME NEW l \in Text
    PROVE  ParseHeader(SubSeq(l, 1, Len(l) - 2)) \in Seq(Field)
<1>1. Len(l) - 2 \in Int /\ Len(l) - 2 <= Len(l) /\ 1 \in Nat \ {0}
  BY DEF Text
<1>2. SubSeq(l, 1, Len(l) - 2) \in Text
  BY <1>1, PartIsText
<1> QED BY <1>2, ParsedHeader

LEMMA HeaderAdded ==
    ASSUME res \in Response, NEW l \in Text
    PROVE  AddHeader(res.headers, l) \in Seq(Field)
  BY FieldOfLine, ResponseUpdates, JoinedLength DEF AddHeader

LEMMA SentMore ==
    ASSUME sent \in Portion, NEW n \in 1..(HeadLen + BodyLen), Sent(n)
    PROVE  sent' \in Portion
<1>1. /\ HeadLen \in Nat /\ BodyLen \in Nat
      /\ sent.head \in 0..HeadLen /\ sent.body \in 0..BodyLen
  BY SizesAreNat DEF Portion
<1>2. CASE sent.head < HeadLen
  <2>1. n <= HeadLen - sent.head /\ sent' = [sent EXCEPT !.head = @ + n]
    BY <1>2 DEF Sent
  <2>2. sent.head + n \in 0..HeadLen
    BY <1>1, <2>1
  <2> QED BY <2>1, <2>2 DEF Portion
<1>3. CASE ~ (sent.head < HeadLen)
  <2>1. n <= BodyLen - sent.body /\ sent' = [sent EXCEPT !.body = @ + n]
    BY <1>3 DEF Sent
  <2>2. sent.body + n \in 0..BodyLen
    BY <1>1, <2>1
  <2> QED BY <2>1, <2>2 DEF Portion
<1> QED BY <1>2, <1>3

(* What is received stays of its type, wherever the call is.                   *)
LEMMA ContentsStep == ASSUME IInv, Scalars, Contents, [Next]_vars PROVE Contents'
<1>1. /\ need \in Nat /\ sent \in Portion /\ kern \in Seq(Piece) /\ rbuf \in Seq(Piece)
      /\ line \in Text /\ res \in Response /\ <<>> \in Text /\ <<>> \in Seq(Piece)
  BY DEF Contents, Text
<1>2. ASSUME MakeClient \/ Resolve \/ OpenSocket \/ Connect \/ WaitUntilReady \/ NoSocket
             \/ IsWritable \/ SendFails \/ BrokenPipe \/ Return \/ PeerCloses \/ UNCHANGED vars
      PROVE  Contents'
  <2>1. UNCHANGED <<need, sent, kern, rbuf, line, res>>
    BY <1>2 DEF MakeClient, Resolve, OpenSocket, Connect, WaitUntilReady, NoSocket, IsWritable,
       SendFails, BrokenPipe, Return, PeerCloses, vars, strm
  <2> QED BY <1>1, <2>1, Zenon DEF Contents
<1>3. ASSUME Post PROVE Contents'
  <2>1. /\ sent' = NewRequest /\ line' = <<>> /\ need' = 0 /\ res' = NewResponse
        /\ UNCHANGED <<kern, rbuf>>
    BY <1>3 DEF Post, strm
  <2>2. NewRequest \in Portion /\ 0 \in Nat
    BY SizesAreNat DEF NewRequest, Portion
  <2>3. NewResponse \in Response
    BY DEF NewResponse, Response, Text
  <2> QED BY <1>1, <2>1, <2>2, <2>3, Zenon DEF Contents
<1>4. ASSUME ProcessSocket PROVE Contents'
  <2>1. rbuf' = <<>> /\ UNCHANGED <<need, sent, kern, line, res>>
    BY <1>4 DEF ProcessSocket, NewStream
  <2> QED BY <1>1, <2>1, Zenon DEF Contents
<1>5. ASSUME Send PROVE Contents'
  <2>1. UNCHANGED <<need, kern, rbuf, line, res>>
    BY <1>5 DEF Send, strm
  <2>2. PICK n \in 1..(HeadLen + BodyLen) : Sent(n)
    BY <1>5 DEF Send
  <2>3. sent' \in Portion
    BY <1>1, <2>2, SentMore
  <2> QED BY <1>1, <2>1, <2>3, Zenon DEF Contents
<1>6. ASSUME GetLine PROVE Contents'
  <2>1. UNCHANGED <<need, sent, res>>
    BY <1>6 DEF GetLine
  <2>2. rbuf' = Read(1).rbuf /\ kern' = Read(1).kern
    BY <1>6 DEF GetLine
  <2>3. line' = line \/ (Read(1).n = 1 /\ line' = line \o Read(1).got[1])
    BY <1>6, Zenon DEF GetLine
  <2>4. rbuf' \in Seq(Piece) /\ kern' \in Seq(Piece)
    BY <2>2, ReadOutcome, 1 \in Nat DEF Outcome
  <2>5. line' \in Text
    <3>1. Read(1).n = 1 => Read(1).got[1] \in Text
      BY ReadsOnePiece
    <3>2. \A x, y : x \in Text /\ y \in Text => x \o y \in Text
      BY DEF Text
    <3> QED BY <1>1, <2>3, <3>1, <3>2, Zenon
  <2> QED BY <1>1, <2>1, <2>4, <2>5, Zenon DEF Contents
<1>7. ASSUME ReadResponseLine PROVE Contents'
  <2>1. UNCHANGED <<need, sent, kern, rbuf>>
    BY <1>7 DEF ReadResponseLine, strm
  <2>2. line' = line \/ line' = <<>>
    BY <1>7 DEF ReadResponseLine, NextLine
  <2> DEFINE m == StatusLine(line).minor
             s == StatusLine(line).status
             t == StatusLine(line).reason
  <2>3. \/ UNCHANGED res
        \/ /\ IsStatusLine(line)
           /\ res' = [res EXCEPT !.minor = m, !.status = s, !.reason = t]
    BY <1>7, Zenon DEF ReadResponseLine
  <2>4. IsStatusLine(line) => m \in Int /\ s \in Int /\ t \in Text
    BY <1>1, StatusLineTypes
  <2> HIDE DEF m, s, t
  <2>5. IsStatusLine(line) =>
            [res EXCEPT !.minor = m, !.status = s, !.reason = t] \in Response
    BY <1>1, <2>4, ResponseUpdates
  <2>6. res' \in Response
    BY <1>1, <2>3, <2>5, Zenon
  <2> QED BY <1>1, <2>1, <2>2, <2>6, Zenon DEF Contents
<1>8. ASSUME ReadHeaders \/ ReadTrailer PROVE Contents'
  <2>1. UNCHANGED <<need, sent, kern, rbuf>>
    BY <1>8 DEF ReadHeaders, ReadTrailer, strm
  <2>2. line' = line \/ line' = <<>>
    BY <1>8 DEF ReadHeaders, ReadTrailer, NextLine
  <2>3. UNCHANGED res \/ res' = [res EXCEPT !.headers = AddHeader(res.headers, line)]
    BY <1>8 DEF ReadHeaders, ReadTrailer
  <2>4. AddHeader(res.headers, line) \in Seq(Field)
    BY <1>1, HeaderAdded
  <2>5. res' \in Response
    BY <1>1, <2>3, <2>4, ResponseUpdates, Zenon
  <2> QED BY <1>1, <2>1, <2>2, <2>5, Zenon DEF Contents
<1>9. ASSUME ReadContent PROVE Contents'
  <2>1. UNCHANGED <<sent, kern, rbuf, res>>
    BY <1>9 DEF ReadContent, strm
  <2>2. line' = line \/ line' = <<>>
    BY <1>9 DEF ReadContent, NextLine
  <2>3. need' = need \/ need' = ContentLength(res.headers)
    BY <1>9 DEF ReadContent
  <2>4. ContentLength(res.headers) \in Nat
    BY <1>1, ResponseUpdates, ContentLengthIsNat
  <2>5. need' \in Nat
    BY <1>1, <2>3, <2>4, Zenon
  <2> QED BY <1>1, <2>1, <2>2, <2>5, Zenon DEF Contents
<1>10. ASSUME ReadContentWithLength PROVE Contents'
  <2> DEFINE r == Read(Lesser(need, RecvBuff))
  <2>1. Outcome(r, Lesser(need, RecvBuff)) /\ Lesser(need, RecvBuff) <= need
    BY <1>1, ReadOutcome, LesserIs, SizesAreNat
  <2>2. UNCHANGED sent /\ rbuf' = r.rbuf /\ kern' = r.kern
    BY <1>10 DEF ReadContentWithLength
  <2>3. line' = line \/ line' = <<>>
    BY <1>10 DEF ReadContentWithLength, NextLine
  <2>4. \/ UNCHANGED <<res, need>>
        \/ res' = [res EXCEPT !.body = res.body \o r.got] /\ need' = need - r.n
    BY <1>10 DEF ReadContentWithLength, Received
  <2> DEFINE size == Lesser(need, RecvBuff)
  <2>5. size \in Nat
    BY <1>1, LesserIs, SizesAreNat
  <2> HIDE DEF r, size
  <2>6. r.rbuf \in Seq(Piece) /\ r.kern \in Seq(Piece) /\ r.got \in Seq(Piece) /\ need - r.n \in Nat
    <3>1. r.n \in Int /\ r.n <= size /\ size <= need
      BY <2>1 DEF Outcome, size
    <3>2. need - r.n \in Nat
      BY <1>1, <2>5, <3>1
    <3> QED BY <2>1, <3>2 DEF Outcome
  <2>7. res.body \o r.got \in Seq(Piece)
    BY <1>1, <2>6, ResponseUpdates, JoinedLength
  <2>8. res' \in Response
    BY <1>1, <2>4, <2>7, ResponseUpdates, Zenon
  <2>9. rbuf' \in Seq(Piece) /\ kern' \in Seq(Piece) /\ need' \in Nat
    BY <1>1, <2>2, <2>4, <2>6, Zenon
  <2> QED BY <1>1, <2>2, <2>3, <2>8, <2>9, Zenon DEF Contents
<1>11. ASSUME ReadContentWithoutLength PROVE Contents'
  <2> DEFINE r == Read(RecvBuff)
  <2>1. Outcome(r, RecvBuff)
    BY ReadOutcome, SizesAreNat
  <2>2. UNCHANGED <<sent, line, need>> /\ rbuf' = r.rbuf /\ kern' = r.kern
    BY <1>11 DEF ReadContentWithoutLength
  <2>3. UNCHANGED res \/ res' = [res EXCEPT !.body = res.body \o r.got]
    BY <1>11 DEF ReadContentWithoutLength, Received
  <2> HIDE DEF r
  <2>4. r.rbuf \in Seq(Piece) /\ r.kern \in Seq(Piece) /\ r.got \in Seq(Piece)
    BY <2>1 DEF Outcome
  <2>5. res.body \o r.got \in Seq(Piece)
    BY <1>1, <2>4, ResponseUpdates, JoinedLength
  <2>6. res' \in Response
    BY <1>1, <2>3, <2>5, ResponseUpdates, Zenon
  <2> QED BY <1>1, <2>2, <2>4, <2>6, Zenon DEF Contents
<1>12. ASSUME ReadChunk \/ EndChunk PROVE Contents'
  <2>1. UNCHANGED <<sent, kern, rbuf, res>>
    BY <1>12 DEF ReadChunk, EndChunk, strm
  <2>2. line' = line \/ line' = <<>>
    BY <1>12 DEF ReadChunk, EndChunk, NextLine
  <2>3. need' = need \/ need' = Unsigned(16)[line].value
    BY <1>12 DEF ReadChunk, EndChunk
  <2>4. Unsigned(16)[line].value \in Nat
    <3>1. 16 \in {10, 16}
      OBVIOUS
    <3> QED BY <1>1, <3>1, UnsignedIsNat
  <2>5. need' \in Nat
    BY <1>1, <2>3, <2>4, Zenon
  <2> QED BY <1>1, <2>1, <2>2, <2>5, Zenon DEF Contents
<1>13. ASSUME HandleResponse \/ FinishRequest \/ DestroyClient PROVE Contents'
  <2>1. UNCHANGED <<need, sent, rbuf, line, res>> /\ kern' \in {kern, <<>>}
    BY <1>13 DEF HandleResponse, FinishRequest, DestroyClient, CloseSocket, strm
  <2>2. kern' = kern \/ kern' = <<>>
    BY <2>1
  <2> QED BY <1>1, <2>1, <2>2, Zenon DEF Contents
<1>14. ASSUME Deliver PROVE Contents'
  <2>1. /\ UNCHANGED <<need, sent, rbuf, line, res>> /\ at < Len(resp.wire)
        /\ kern' = Append(kern, resp.wire[at + 1])
    BY <1>14 DEF Deliver
  <2>2. resp.wire[at + 1] \in Piece
    <3>1. resp.wire \in Seq(Piece \ {<<>>}) /\ Len(resp.wire) \in Nat /\ at \in 0..Len(resp.wire)
      BY SizesAreNat DEF Scalars
    <3>2. at + 1 \in 1..Len(resp.wire)
      BY <2>1, <3>1
    <3>3. resp.wire[at + 1] \in Piece \ {<<>>}
      BY <3>1, <3>2
    <3> QED BY <3>3
  <2>3. kern' \in Seq(Piece)
    BY <1>1, <2>1, <2>2
  <2> QED BY <1>1, <2>1, <2>3, Zenon DEF Contents
<1>15. ASSUME PeerResets PROVE Contents'
  <2>1. UNCHANGED <<need, sent, rbuf, line, res>> /\ kern' \in {kern, <<>>}
    BY <1>15 DEF PeerResets
  <2>2. kern' = kern \/ kern' = <<>>
    BY <2>1
  <2> QED BY <1>1, <2>1, <2>2, Zenon DEF Contents
<1> QED BY <1>2, <1>3, <1>4, <1>5, <1>6, <1>7, <1>8, <1>9, <1>10, <1>11, <1>12, <1>13, <1>14,
           <1>15 DEF Next, Step

(* The variables keep their types, for all responses and all sizes.            *)
THEOREM Types == Spec => []TypeOK
<1>1. IInv /\ Scalars /\ Contents => TypeOK
  <2> SUFFICES ASSUME IInv, Scalars, Contents PROVE TypeOK
    OBVIOUS
  <2>1. /\ pc \in {"idle", "made", "resolve", "socket", "connect", "wait", "connected", "writable",
                   "send", "line", "status", "continue", "header", "content", "data", "drain",
                   "chunk", "chunkEnd", "trailer", "handle", "finish", "return", "destroy",
                   "killed"}
        /\ point \in {"status", "continue", "header", "chunk", "chunkEnd", "trailer"}
        /\ open \in 0..1
    BY DEF IInv, PlaceIsKnown, SocketIsKnown, Without, Opening, With, Reading
  <2>2. /\ res.headers \in Seq([key : Piece, val : Piece]) /\ res.body \in Seq(Piece)
        /\ line \in Piece /\ sent \in [head : 0..HeadLen, body : 0..BodyLen]
    <3>1. Text = Piece
      BY DEF Text, Piece
    <3>2. res.headers \in Seq(Field) /\ res.body \in Seq(Piece) /\ line \in Text /\ sent \in Portion
      BY ResponseUpdates DEF Contents
    <3> QED BY <3>1, <3>2, Zenon DEF Field, Portion
  <2> QED BY <2>1, <2>2, Zenon DEF TypeOK, Scalars, Contents
<1>2. Spec => [](Scalars /\ Contents)
  BY ScalarsInit, ScalarsStep, ContentsInit, ContentsStep, Invariance, PTL DEF Spec
<1> QED BY <1>1, <1>2, Invariance, PTL

\* --------------------------------------------------- the length of the content

\* Where the call goes on once the line it reads is complete.
Place == IF pc = "line" THEN point ELSE pc

Asking == Connecting \cup {"connected", "writable", "send"}
Receiving == Reading \cup {"content", "data", "drain", "handle"}
Heading == {"status", "continue", "header", "content"}

\* The response says how long its content is.
Sized == /\ res.status # 204 /\ ~ IsChunked(res.headers)
         /\ HasHeader(res.headers, ContentLengthKey)

\* What was received and what is still needed make what was announced.
RestIsNeeded ==
    /\ need > 0
    /\ ~ IsChunked(res.headers) =>
          /\ res.status # 204 /\ HasHeader(res.headers, ContentLengthKey)
          /\ Len(res.body) + need = ContentLength(res.headers)

SizedIsWhole == Sized => Len(res.body) = ContentLength(res.headers)

LengthInv ==
    /\ Place \in Receiving => RequestIsSent(sent)
    /\ Place \in Asking \cup Receiving => ~ ret
    /\ Place \in Asking \cup Heading => res.body = <<>>
    /\ Place \in {"chunk", "chunkEnd", "trailer"} => IsChunked(res.headers)
    /\ Place = "data" => RestIsNeeded
    /\ Place = "drain" => ~ HasHeader(res.headers, ContentLengthKey)
    /\ Place = "handle" => SizedIsWhole
    /\ Place \in {"finish", "return"} /\ ret => RequestIsSent(sent) /\ SizedIsWhole

(* A call that failed, or that is over, has no length to meet.                 *)
LEMMA NoLengthToMeet ==
    ASSUME pc' \in {"idle", "made", "destroy", "killed"} \/ (pc' \in {"finish", "return"} /\ ~ ret')
    PROVE  LengthInv'
  BY DEF LengthInv, Place, Asking, Receiving, Heading, Connecting, Opening, Reading

(* Up to the last piece of the request there is no response.                   *)
LEMMA AskingKeepsLength ==
    ASSUME LengthInv, Place \in Asking, pc' \in Asking, UNCHANGED <<ret, res>>
    PROVE  LengthInv'
  BY DEF LengthInv, Place, Asking, Receiving, Heading, Connecting, Opening, Reading

(* From line to line of the head there is no content.                          *)
LEMMA HeadingKeepsLength ==
    ASSUME LengthInv, Place \in Heading, Place' \in Heading, res'.body = res.body,
           UNCHANGED <<ret, sent>>
    PROVE  LengthInv'
  BY DEF LengthInv, Asking, Receiving, Heading, Connecting, Opening, Reading

LEMMA RequestKeepsLength ==
    ASSUME LengthInv,
           \/ Post \/ Resolve \/ OpenSocket \/ Connect \/ WaitUntilReady \/ NoSocket
           \/ ProcessSocket \/ IsWritable \/ Send \/ SendFails
    PROVE  LengthInv'
<1>1. CASE Post
  <2>1. pc' = "resolve" /\ ret' = FALSE /\ res'.body = <<>>
    BY <1>1 DEF Post, NewResponse
  <2> QED BY <2>1 DEF LengthInv, Place, Asking, Receiving, Heading, Connecting, Opening, Reading
<1>2. CASE Resolve \/ OpenSocket \/ Connect \/ WaitUntilReady \/ ProcessSocket
  <2>1. Place \in Asking /\ pc' \in Asking /\ UNCHANGED <<ret, res>>
    BY <1>2 DEF Resolve, OpenSocket, Connect, WaitUntilReady, Connected, ConnectFails,
       ProcessSocket, Place, Asking, Connecting, Opening
  <2> QED BY <2>1, AskingKeepsLength
<1>3. CASE NoSocket
  <2>1. Place \in Asking /\ pc' = "return" /\ ret' = ret
    BY <1>3 DEF NoSocket, Place, Asking, Connecting
  <2>2. ~ ret
    BY <2>1 DEF LengthInv
  <2> QED BY <2>1, <2>2, NoLengthToMeet
<1>4. CASE IsWritable
  <2>1. \/ Place \in Asking /\ pc' \in Asking /\ UNCHANGED <<ret, res>>
        \/ pc' = "finish" /\ ~ ret'
    BY <1>4 DEF IsWritable, Fail, Place, Asking
  <2> QED BY <2>1, AskingKeepsLength, NoLengthToMeet
<1>5. CASE Send
  <2>1. Place \in Asking /\ point' = "status" /\ UNCHANGED <<ret, res>>
    BY <1>5 DEF Send, Place, Asking
  <2>2. \/ pc' = "line" /\ RequestIsSent(sent')
        \/ pc' = "writable"
    BY <1>5 DEF Send
  <2>3. CASE pc' = "line" /\ RequestIsSent(sent')
    BY <2>1, <2>3 DEF LengthInv, Place, Asking, Receiving, Heading, Connecting, Opening, Reading
  <2>4. CASE pc' = "writable"
    BY <2>1, <2>4, AskingKeepsLength DEF Asking
  <2> QED BY <2>2, <2>3, <2>4
<1>6. CASE SendFails
  BY <1>6, NoLengthToMeet DEF SendFails, Fail
<1> QED BY <1>1, <1>2, <1>3, <1>4, <1>5, <1>6

(* The head of the response.                                                   *)
LEMMA HeadKeepsLength ==
    ASSUME Scalars, Contents, LengthInv, GetLine \/ ReadResponseLine \/ ReadHeaders
    PROVE  LengthInv'
<1>1. CASE GetLine
  <2>1. \/ Place' = Place /\ UNCHANGED <<ret, sent, res, need>>
        \/ pc' = "finish" /\ ~ ret'
    BY <1>1 DEF GetLine, Fail, Place, Scalars, Reading
  <2>2. CASE Place' = Place /\ UNCHANGED <<ret, sent, res, need>>
    BY <2>2 DEF LengthInv, RestIsNeeded, SizedIsWhole, Sized
  <2>3. CASE pc' = "finish" /\ ~ ret'
    BY <2>3, NoLengthToMeet
  <2> QED BY <2>1, <2>2, <2>3
<1>2. CASE ReadResponseLine
  <2> DEFINE m == StatusLine(line).minor
             s == StatusLine(line).status
             t == StatusLine(line).reason
  <2>1. \/ Place \in Heading /\ Place' \in Heading /\ UNCHANGED <<ret, sent>>
        \/ pc' = "finish" /\ ~ ret'
    BY <1>2 DEF ReadResponseLine, NextLine, Fail, Place, Heading
  <2>2. res'.body = res.body
    <3>1. \/ UNCHANGED res
          \/ res' = [res EXCEPT !.minor = m, !.status = s, !.reason = t]
      BY <1>2, Zenon DEF ReadResponseLine
    <3> HIDE DEF m, s, t
    <3> QED BY <3>1 DEF Contents, Response
  <2> QED BY <2>1, <2>2, HeadingKeepsLength, NoLengthToMeet
<1>3. CASE ReadHeaders
  <2>1. \/ /\ Place \in Heading /\ Place' \in Heading /\ UNCHANGED <<ret, sent>>
           /\ UNCHANGED res \/ res' = [res EXCEPT !.headers = AddHeader(res.headers, line)]
        \/ pc' = "finish" /\ ~ ret'
    BY <1>3 DEF ReadHeaders, NextLine, Fail, Place, Heading
  <2>2. ASSUME res' = [res EXCEPT !.headers = AddHeader(res.headers, line)]
        PROVE  res'.body = res.body
    BY <2>2 DEF Contents, Response
  <2> QED BY <2>1, <2>2, HeadingKeepsLength, NoLengthToMeet
<1> QED BY <1>1, <1>2, <1>3

(* Which way the content is read follows from the headers.                     *)
LEMMA ReadContentKeepsLength ==
    ASSUME Contents, LengthInv, ReadContent
    PROVE  LengthInv'
<1> DEFINE hs == res.headers
           n == ContentLength(hs)
<1>1. /\ Place = "content" /\ RequestIsSent(sent) /\ ~ ret /\ res.body = <<>>
      /\ UNCHANGED <<sent, res>>
  BY DEF ReadContent, LengthInv, Place, Receiving, Heading
<1>2. n \in Nat /\ Len(res.body) = 0
  BY <1>1, ResponseUpdates, ContentLengthIsNat DEF Contents
<1>3. \/ pc' = "handle" /\ res.status = 204 /\ ret' = ret
      \/ pc' = "finish" /\ ~ ret'
      \/ Place' = "chunk" /\ IsChunked(hs) /\ ret' = ret
      \/ /\ pc' = "drain" /\ ~ HasHeader(hs, ContentLengthKey) /\ ret' = ret
      \/ /\ res.status # 204 /\ ~ IsChunked(hs) /\ HasHeader(hs, ContentLengthKey)
         /\ need' = n /\ ret' = ret
         /\ pc' = IF n = 0 THEN "handle" ELSE "data"
  BY DEF ReadContent, NextLine, Succeed, Fail, Place
<1> HIDE DEF n
<1>4. CASE pc' = "handle" /\ res.status = 204 /\ ret' = ret
  BY <1>1, <1>4 DEF LengthInv, Place, Asking, Receiving, Heading, Connecting, Opening, Reading,
     SizedIsWhole, Sized
<1>5. CASE pc' = "finish" /\ ~ ret'
  BY <1>5, NoLengthToMeet
<1>6. CASE Place' = "chunk" /\ IsChunked(hs) /\ ret' = ret
  BY <1>1, <1>6 DEF LengthInv, Asking, Receiving, Heading, Connecting, Opening, Reading
<1>7. CASE pc' = "drain" /\ ~ HasHeader(hs, ContentLengthKey) /\ ret' = ret
  BY <1>1, <1>7 DEF LengthInv, Place, Asking, Receiving, Heading, Connecting, Opening, Reading
<1>8. CASE /\ res.status # 204 /\ ~ IsChunked(hs) /\ HasHeader(hs, ContentLengthKey)
           /\ need' = n /\ ret' = ret
           /\ pc' = IF n = 0 THEN "handle" ELSE "data"
  <2>1. CASE n = 0
    <3>1. SizedIsWhole'
      BY <1>1, <1>2, <2>1 DEF n, SizedIsWhole
    <3> QED BY <1>1, <1>8, <2>1, <3>1 DEF LengthInv, Place, Asking, Receiving, Heading,
            Connecting, Opening, Reading
  <2>2. CASE n # 0
    <3>1. RestIsNeeded'
      <4>1. need' > 0 /\ Len(res.body) + need' = n
        BY <1>2, <1>8, <2>2
      <4> QED BY <1>1, <1>8, <4>1 DEF n, RestIsNeeded
    <3> QED BY <1>1, <1>8, <2>2, <3>1 DEF LengthInv, Place, Asking, Receiving, Heading,
            Connecting, Opening, Reading
  <2> QED BY <2>1, <2>2
<1> QED BY <1>3, <1>4, <1>5, <1>6, <1>7, <1>8

(* What a read gives is taken off what is needed and added to the body.        *)
LEMMA DataKeepsLength ==
    ASSUME Contents, LengthInv, ReadContentWithLength
    PROVE  LengthInv'
<1> DEFINE size == Lesser(need, RecvBuff)
           r == Read(size)
<1>1. /\ Place = "data" /\ RequestIsSent(sent) /\ ~ ret /\ RestIsNeeded
      /\ UNCHANGED sent
  BY DEF ReadContentWithLength, LengthInv, Place, Receiving
<1>2. \/ pc' = "finish" /\ ~ ret'
      \/ /\ ret' = ret /\ r.n > 0
         /\ res' = [res EXCEPT !.body = res.body \o r.got] /\ need' = need - r.n
         /\ \/ need' > 0 /\ pc' = pc
            \/ ~ (need' > 0) /\ IsChunked(res.headers) /\ Place' = "chunkEnd"
            \/ ~ (need' > 0) /\ ~ IsChunked(res.headers) /\ pc' = "handle"
  <2>1. r.n <= 0 => pc' = "finish" /\ ~ ret'
    BY DEF ReadContentWithLength, Fail
  <2>2. ~ (r.n <= 0) =>
           /\ ret' = ret
           /\ res' = [res EXCEPT !.body = res.body \o r.got] /\ need' = need - r.n
           /\ \/ need' > 0 /\ pc' = pc
              \/ ~ (need' > 0) /\ IsChunked(res.headers) /\ Place' = "chunkEnd"
              \/ ~ (need' > 0) /\ ~ IsChunked(res.headers) /\ pc' = "handle"
    BY DEF ReadContentWithLength, Received, NextLine, Succeed, Place
  <2>3. r.n \in Int
    BY ReadOutcome, LesserIs, SizesAreNat DEF Contents, Outcome
  <2> DEFINE n == r.n
  <2>4. n \in Int => n <= 0 \/ (~ (n <= 0) /\ n > 0)
    OBVIOUS
  <2> QED BY <2>1, <2>2, <2>3, <2>4, Zenon
<1>3. CASE pc' = "finish" /\ ~ ret'
  BY <1>3, NoLengthToMeet
<1>4. CASE /\ ret' = ret /\ r.n > 0
           /\ res' = [res EXCEPT !.body = res.body \o r.got] /\ need' = need - r.n
           /\ \/ need' > 0 /\ pc' = pc
              \/ ~ (need' > 0) /\ IsChunked(res.headers) /\ Place' = "chunkEnd"
              \/ ~ (need' > 0) /\ ~ IsChunked(res.headers) /\ pc' = "handle"
  <2>1. size \in Nat /\ size <= need /\ need \in Nat
    BY LesserIs, SizesAreNat DEF Contents
  <2>2. r.n \in Int /\ r.n <= size /\ r.got \in Seq(Piece) /\ Len(r.got) = r.n
    BY <1>4, <2>1, ReadOutcome DEF Outcome
  <2> HIDE DEF r
  <2>3. /\ res.body \in Seq(Piece) /\ Len(res.body) \in Nat
        /\ res.headers \in Seq(Field) /\ ContentLength(res.headers) \in Nat
    <3>1. res.body \in Seq(Piece) /\ res.headers \in Seq(Field)
      BY ResponseUpdates DEF Contents
    <3>2. Len(res.body) \in Nat
      BY <3>1
    <3> QED BY <3>1, <3>2, ContentLengthIsNat
  <2>4. Len(res.body \o r.got) = Len(res.body) + r.n /\ res.body \o r.got \in Seq(Piece)
    BY <2>2, <2>3, JoinedLength
  <2>5. /\ res'.body = res.body \o r.got /\ res'.headers = res.headers
        /\ res'.status = res.status
    BY <1>4 DEF Contents, Response
  <2>6. Len(res'.body) + need' = Len(res.body) + need /\ need' \in Nat
    <3> DEFINE n == r.n
               old == Len(res.body)
               new == Len(res'.body)
    <3>1. n \in Int /\ n <= size /\ new = old + n /\ need' = need - n /\ old \in Nat
      BY <1>4, <2>2, <2>3, <2>4, <2>5
    <3> HIDE DEF n, old, new, size
    <3>2. new + need' = old + need /\ need' \in Nat
      BY <2>1, <3>1
    <3> QED BY <3>2 DEF old, new
  <2>7. CASE need' > 0 /\ pc' = pc
    <3>1. RestIsNeeded'
      BY <1>1, <2>5, <2>6, <2>7 DEF RestIsNeeded
    <3>2. Place' = "data"
      BY <2>7 DEF Place, ReadContentWithLength
    <3> QED BY <1>1, <1>4, <3>1, <3>2 DEF LengthInv, Asking, Receiving, Heading, Connecting,
            Opening, Reading
  <2>8. CASE IsChunked(res.headers) /\ Place' = "chunkEnd"
    BY <1>1, <1>4, <2>5, <2>8 DEF LengthInv, Asking, Receiving, Heading, Connecting, Opening,
       Reading
  <2>9. CASE ~ (need' > 0) /\ ~ IsChunked(res.headers) /\ pc' = "handle"
    <3>1. Len(res'.body) = Len(res.body) + need
      <4> DEFINE new == Len(res'.body)
      <4>1. new \in Nat
        <5>1. \A x \in Seq(Piece) : Len(x) \in Nat
          OBVIOUS
        <5> QED BY <2>4, <2>5, <5>1, Zenon
      <4>2. need' \in Nat /\ ~ (need' > 0)
        BY <2>6, <2>9, Zenon
      <4> HIDE DEF new
      <4>3. new + need' = new
        <5>1. \A m \in Nat, n \in Nat : ~ (n > 0) => m + n = m
          OBVIOUS
        <5> QED BY <4>1, <4>2, <5>1, Zenon
      <4> QED BY <2>6, <4>3, Zenon DEF new
    <3>2. SizedIsWhole'
      BY <1>1, <2>5, <2>9, <3>1, Zenon DEF RestIsNeeded, SizedIsWhole
    <3> QED BY <1>1, <1>4, <2>9, <3>2 DEF LengthInv, Place, Asking, Receiving, Heading,
            Connecting, Opening, Reading
  <2> QED BY <1>4, <2>7, <2>8, <2>9
<1> QED BY <1>2, <1>3, <1>4

(* Content without a length, and content in chunks, whose trailers do not make *)
(* it anything else.                                                           *)
LEMMA UnsizedKeepsLength ==
    ASSUME Contents, LengthInv,
           ReadContentWithoutLength \/ ReadChunk \/ EndChunk \/ ReadTrailer
    PROVE  LengthInv'
<1>1. CASE ReadContentWithoutLength
  <2>1. /\ Place = "drain" /\ UNCHANGED <<ret, sent>>
        /\ pc' \in {"drain", "handle"}
        /\ \/ UNCHANGED res
           \/ \E b : res' = [res EXCEPT !.body = b]
    BY <1>1 DEF ReadContentWithoutLength, Succeed, Received, Place
  <2>2. res'.headers = res.headers
    BY <2>1 DEF Contents, Response
  <2>3. RequestIsSent(sent) /\ ~ ret /\ ~ HasHeader(res.headers, ContentLengthKey)
    BY <2>1 DEF LengthInv, Receiving
  <2> QED BY <2>1, <2>2, <2>3 DEF LengthInv, Place, Asking, Receiving, Heading, Connecting,
          Opening, Reading, SizedIsWhole, Sized
<1>2. CASE ReadChunk \/ EndChunk
  <2>1. Place \in {"chunk", "chunkEnd"} /\ UNCHANGED <<sent, res>>
    BY <1>2 DEF ReadChunk, EndChunk, Place
  <2>2. \/ pc' = "finish" /\ ~ ret'
        \/ Place' \in {"chunk", "trailer"} /\ ret' = ret
        \/ /\ Place' = "data" /\ ret' = ret
           /\ need' = Unsigned(16)[line].value /\ need' # 0
    BY <1>2 DEF ReadChunk, EndChunk, NextLine, Fail, Place
  <2>3. RequestIsSent(sent) /\ ~ ret /\ IsChunked(res.headers)
    BY <2>1 DEF LengthInv, Receiving, Reading
  <2>4. Unsigned(16)[line].value \in Nat
    <3>1. 16 \in {10, 16} /\ line \in Text
      BY DEF Contents
    <3> QED BY <3>1, UnsignedIsNat
  <2>5. CASE pc' = "finish" /\ ~ ret'
    BY <2>5, NoLengthToMeet
  <2>6. CASE Place' \in {"chunk", "trailer"} /\ ret' = ret
    BY <2>1, <2>3, <2>6 DEF LengthInv, Asking, Receiving, Heading, Connecting, Opening, Reading
  <2>7. CASE /\ Place' = "data" /\ ret' = ret
             /\ need' = Unsigned(16)[line].value /\ need' # 0
    <3>1. need' > 0
      BY <2>4, <2>7
    <3>2. RestIsNeeded'
      BY <2>1, <2>3, <3>1 DEF RestIsNeeded
    <3> QED BY <2>1, <2>3, <2>7, <3>2 DEF LengthInv, Asking, Receiving, Heading, Connecting,
            Opening, Reading
  <2> QED BY <2>2, <2>5, <2>6, <2>7
<1>3. CASE ReadTrailer
  <2>1. Place = "trailer" /\ UNCHANGED sent
    BY <1>3 DEF ReadTrailer, Place
  <2>2. \/ pc' = "finish" /\ ~ ret'
        \/ pc' = "handle" /\ UNCHANGED <<ret, res>>
        \/ /\ Place' = "trailer" /\ ret' = ret
           /\ res' = [res EXCEPT !.headers = AddHeader(res.headers, line)]
    BY <1>3 DEF ReadTrailer, Succeed, NextLine, Fail, Place
  <2>3. RequestIsSent(sent) /\ ~ ret /\ IsChunked(res.headers)
    BY <2>1 DEF LengthInv, Receiving, Reading
  <2>4. CASE pc' = "finish" /\ ~ ret'
    BY <2>4, NoLengthToMeet
  <2>5. CASE pc' = "handle" /\ UNCHANGED <<ret, res>>
    BY <2>1, <2>3, <2>5 DEF LengthInv, Place, Asking, Receiving, Heading, Connecting, Opening,
       Reading, SizedIsWhole, Sized
  <2>6. CASE /\ Place' = "trailer" /\ ret' = ret
             /\ res' = [res EXCEPT !.headers = AddHeader(res.headers, line)]
    <3>1. res'.headers = AddHeader(res.headers, line)
      BY <2>6 DEF Contents, Response
    <3>2. IsChunked(AddHeader(res.headers, line))
      <4>1. res.headers \in Seq(Field) /\ line \in Text
        BY ResponseUpdates DEF Contents
      <4>2. ParseHeader(SubSeq(line, 1, Len(line) - 2)) \in Seq(Field)
        BY <4>1, FieldOfLine
      <4> QED BY <2>3, <4>1, <4>2, ChunkedStays DEF AddHeader
    <3> QED BY <2>1, <2>3, <2>6, <3>1, <3>2 DEF LengthInv, Asking, Receiving, Heading,
            Connecting, Opening, Reading
  <2> QED BY <2>2, <2>4, <2>5, <2>6
<1> QED BY <1>1, <1>2, <1>3

(* The closing of the socket changes nothing of what was received.             *)
LEMMA EndKeepsLength ==
    ASSUME LengthInv, HandleResponse \/ FinishRequest
    PROVE  LengthInv'
<1>1. /\ UNCHANGED <<sent, res>>
      /\ \/ pc = "handle" /\ pc' = "finish" /\ ret' = TRUE
         \/ pc = "finish" /\ pc' = "return" /\ ret' = ret
  BY DEF HandleResponse, FinishRequest
<1> QED BY <1>1 DEF LengthInv, Place, Asking, Receiving, Heading, Connecting, Opening, Reading,
        SizedIsWhole, Sized

(* What is needed, what was received and what was announced agree throughout.  *)
LEMMA LengthStep ==
    ASSUME Scalars, Contents, LengthInv, [Next]_vars
    PROVE  LengthInv'
<1>1. CASE MakeClient \/ BrokenPipe \/ Return \/ DestroyClient
  BY <1>1, NoLengthToMeet DEF MakeClient, BrokenPipe, Return, DestroyClient
<1>2. CASE Deliver \/ PeerCloses \/ PeerResets \/ UNCHANGED vars
  <2>1. UNCHANGED <<pc, point, ret, sent, res, need>>
    BY <1>2 DEF Deliver, PeerCloses, PeerResets, vars
  <2> QED BY <2>1 DEF LengthInv, Place, RestIsNeeded, SizedIsWhole, Sized
<1> QED BY <1>1, <1>2, RequestKeepsLength, HeadKeepsLength, ReadContentKeepsLength,
        DataKeepsLength, UnsizedKeepsLength, EndKeepsLength DEF Next, Step

LEMMA LengthInvariance == Spec => []LengthInv
<1>1. Init => LengthInv
  BY DEF Init, LengthInv, Place, Asking, Receiving, Heading, Connecting, Opening, Reading
<1> QED BY <1>1, LengthStep, ScalarsInit, ScalarsStep, ContentsInit, ContentsStep,
        Invariance, PTL DEF Spec

(* A response that says how long it is reaches the assigner with that much     *)
(* content, after the whole request: read_content and what it calls.           *)
THEOREM LengthsAreMet == Spec => []LengthIsMet
<1>1. LengthInv => LengthIsMet
  BY DEF LengthInv, LengthIsMet, Place, SizedIsWhole, Sized
<1> QED BY <1>1, LengthInvariance, PTL

\* ------------------------------------------------------ the order of the content

\* s is the part of the response behind its a-th piece, up to the b-th.
Holds(s, a, b) == Len(s) = b - a /\ \A k \in 1..Len(s) : s[k] = resp.wire[a + k]

\* The buffer b and the socket s follow what was read, which ended with the p-th
\* piece, unless a reset took the rest.
InOrder(b, s, p, q) ==
    /\ p \in Nat /\ q \in Nat /\ p <= q /\ q <= at
    /\ Holds(b, p, q)
    /\ Holds(s, q, at) \/ (s = <<>> /\ peer = "rst")

(* The parts into which a buffer is divided.                                   *)
LEMMA PartsHold ==
    ASSUME NEW s \in Seq(Piece), NEW a \in Nat, NEW b \in Nat, Holds(s, a, b),
           NEW m \in Nat, NEW n \in Nat, m <= n, n <= Len(s)
    PROVE  /\ Holds(SubSeq(s, 1, m), a, a + m)
           /\ Holds(SubSeq(s, m + 1, n), a + m, a + n)
           /\ Holds(SubSeq(s, n + 1, Len(s)), a + n, b)
<1>1. ASSUME NEW i \in Nat, NEW j \in Nat, i <= j, j <= Len(s)
      PROVE  Holds(SubSeq(s, i + 1, j), a + i, a + j)
  <2> DEFINE t == SubSeq(s, i + 1, j)
  <2>1. /\ Len(t) = (IF j < i + 1 THEN 0 ELSE j - (i + 1) + 1)
        /\ \A k \in 1..(j - (i + 1) + 1) : t[k] = s[i + 1 + k - 1]
    <3>1. i + 1 \in Nat \ {0} /\ j \in Int
      OBVIOUS
    <3> QED BY <1>1, <3>1, PartIsSeq
  <2> HIDE DEF t
  <2>2. Len(t) = j - i /\ \A k \in 1..(j - i) : t[k] = s[i + k]
    BY <1>1, <2>1
  <2>3. Len(t) = (a + j) - (a + i)
    BY <2>2
  <2>4. ASSUME NEW k \in 1..(j - i) PROVE t[k] = resp.wire[(a + i) + k]
    <3>1. i + k \in 1..Len(s) /\ a + (i + k) = (a + i) + k
      BY <1>1
    <3> QED BY <2>2, <3>1 DEF Holds
  <2> QED BY <2>2, <2>3, <2>4 DEF Holds, t
<1>2. b = a + Len(s) /\ Len(s) \in Nat
  BY DEF Holds
<1>3. /\ Holds(SubSeq(s, 0 + 1, m), a + 0, a + m)
      /\ Holds(SubSeq(s, m + 1, n), a + m, a + n)
      /\ Holds(SubSeq(s, n + 1, Len(s)), a + n, a + Len(s))
  <2>1. 0 \in Nat /\ 0 <= m /\ m <= Len(s) /\ Len(s) <= Len(s)
    BY <1>2
  <2> QED BY <1>1, <1>2, <2>1
<1>4. 0 + 1 = 1 /\ a + 0 = a
  OBVIOUS
<1> QED BY <1>2, <1>3, <1>4

\* What a read of some pieces does behind the p-th.
Follows(r, p) ==
    \/ /\ r.n > 0 /\ Holds(r.got, p, p + r.n)
       /\ \E q : InOrder(r.rbuf, r.kern, p + r.n, q)
       /\ rbuf # <<>> \/ kern # <<>>
    \/ /\ r.n <= 0 /\ r.rbuf = rbuf /\ r.kern = kern
       /\ rbuf = <<>> /\ kern = <<>>
       /\ r.n = 0 => peer = "fin"

(* A read gives the pieces that come next, from the buffer or past it, and what *)
(* it leaves in the buffer comes before what it leaves in the socket.          *)
LEMMA ReadFollows ==
    ASSUME Contents, at \in Nat, NEW size \in Nat \ {0}, NEW p, NEW q, InOrder(rbuf, kern, p, q)
    PROVE  Follows(Read(size), p)
<1>1. /\ rbuf \in Seq(Piece) /\ kern \in Seq(Piece) /\ p \in Nat /\ q \in Nat
      /\ Len(rbuf) \in Nat /\ Len(kern) \in Nat /\ p <= q /\ q <= at
      /\ Holds(rbuf, p, q) /\ (Holds(kern, q, at) \/ (kern = <<>> /\ peer = "rst"))
  BY DEF Contents, InOrder
<1>2. CASE rbuf # <<>>
  <2> DEFINE n == Lesser(size, Len(rbuf))
             got == SubSeq(rbuf, 1, n)
             rest == SubSeq(rbuf, n + 1, Len(rbuf))
  <2>1. n \in Nat /\ n <= Len(rbuf) /\ n > 0
    <3>1. Len(rbuf) > 0
      BY <1>1, <1>2
    <3>2. size \in Nat /\ size > 0
      OBVIOUS
    <3> QED BY <1>1, <3>1, <3>2, LesserIs
  <2>2. Read(size) = [n |-> n, got |-> got, rbuf |-> rest, kern |-> kern]
    BY <1>2, Zenon DEF Read, FromBuffer
  <2> HIDE DEF n
  <2>3. Holds(got, p, p + n) /\ Holds(rest, p + n, q)
    <3>1. n <= n
      BY <2>1
    <3> QED BY <1>1, <2>1, <3>1, PartsHold
  <2>4. p + n \in Nat /\ p + n <= q
    BY <1>1, <2>1 DEF Holds
  <2> HIDE DEF got, rest
  <2>5. InOrder(rest, kern, p + n, q)
    BY <1>1, <2>3, <2>4 DEF InOrder
  <2> QED BY <1>2, <2>1, <2>2, <2>3, <2>5 DEF Follows
<1>3. CASE rbuf = <<>> /\ kern # <<>>
  <2> DEFINE limit == IF size < ReadBuff THEN ReadBuff ELSE size
             n == Recv(limit)
             m == Lesser(size, n)
             got == SubSeq(kern, 1, m)
             buffered == SubSeq(kern, m + 1, n)
             rest == SubSeq(kern, n + 1, Len(kern))
  <2>1. limit \in Nat /\ limit > 0
    BY SizesAreNat
  <2>2. Read(size) = [n |-> m, got |-> got, rbuf |-> buffered, kern |-> rest]
    BY <1>3, Zenon DEF Read, FromSocket
  <2> HIDE DEF limit
  <2>3. n \in Nat /\ n <= Len(kern) /\ n > 0
    <3>1. Len(kern) > 0
      BY <1>1, <1>3
    <3> QED BY <1>1, <2>1, <3>1, LesserIs DEF Recv
  <2> HIDE DEF n
  <2>4. m \in Nat /\ m <= n /\ m > 0
    <3>1. size \in Nat /\ size > 0
      OBVIOUS
    <3> QED BY <2>3, <3>1, LesserIs
  <2> HIDE DEF m
  <2>5. Holds(kern, q, at) /\ p = q
    <3>1. Len(rbuf) = 0
      BY <1>3
    <3> QED BY <1>1, <1>3, <3>1 DEF Holds
  <2>6. Holds(got, p, p + m) /\ Holds(buffered, p + m, p + n) /\ Holds(rest, p + n, at)
    BY <1>1, <2>3, <2>4, <2>5, PartsHold
  <2>7. /\ p + m \in Nat /\ p + n \in Nat /\ p + m <= p + n /\ p + n <= at
    BY <1>1, <2>3, <2>4, <2>5 DEF Holds
  <2> HIDE DEF got, buffered, rest
  <2>8. InOrder(buffered, rest, p + m, p + n)
    BY <2>6, <2>7 DEF InOrder
  <2> QED BY <1>3, <2>2, <2>4, <2>6, <2>8 DEF Follows
<1>4. CASE rbuf = <<>> /\ kern = <<>>
  <2>1. \/ peer = "fin" /\ Read(size) = [Unreadable EXCEPT !.n = 0]
        \/ Read(size) = Unreadable
    BY <1>4 DEF Read
  <2>2. /\ [Unreadable EXCEPT !.n = 0] = [n |-> 0, got |-> <<>>, rbuf |-> rbuf, kern |-> kern]
        /\ Unreadable = [n |-> -1, got |-> <<>>, rbuf |-> rbuf, kern |-> kern]
    BY DEF Unreadable
  <2> QED BY <1>4, <2>1, <2>2 DEF Follows
<1> QED BY <1>2, <1>3, <1>4

\* Nothing is left to be read, nor will there be.
Over == rbuf = <<>> /\ kern = <<>> /\ peer \in {"fin", "rst"}

\* The p-th piece ends a line, unless the end of the connection ended it.
AtLineEnd(p) == \/ p > 0 /\ Last(resp.wire[p]) = LF
                \/ Over

\* f says where among the first p pieces those of the body were.
Traced(f, p) ==
    /\ f \in [1..Len(res.body) -> 1..p]
    /\ \A k \in 1..Len(res.body) :
          /\ res.body[k] = resp.wire[f[k]]
          /\ \/ Adjoins(f, k)
             \/ BehindLine(f, k) /\ (k = 1 \/ IsChunked(res.headers))

\* The next piece may be added to the body.
Extends(f, p) ==
    \/ AtLineEnd(p) /\ (res.body = <<>> \/ IsChunked(res.headers))
    \/ res.body # <<>> /\ f[Len(res.body)] = p

Reached(p) ==
    /\ pc \in Reading \cup {"content"} => AtLineEnd(p)
    /\ Place \in {"chunk", "chunkEnd", "trailer", "handle"} => \E f : Traced(f, p)
    /\ Place \in {"data", "drain"} => \E f : Traced(f, p) /\ Extends(f, p)

OrderInv ==
    /\ pc # "killed" /\ ~ held => peer = "none" /\ kern = <<>>
    /\ pc \in {"made"} \cup Connecting => at = 0
    /\ pc \in {"connected", "writable", "send"} =>
          Holds(kern, 0, at) \/ (kern = <<>> /\ peer = "rst")
    /\ pc \in {"writable", "send"} => rbuf = <<>>
    /\ Place \in Receiving => \E p, q : InOrder(rbuf, kern, p, q) /\ Reached(p)
    /\ Place \in {"finish", "return"} /\ ret => \E p \in 0..at : \E f : Traced(f, p)

(* A body without pieces came from nowhere.                                    *)
LEMMA EmptyIsTraced ==
    ASSUME NEW p, res.body = <<>>
    PROVE  \E f : Traced(f, p)
<1>1. 1..Len(res.body) = {}
  <2>1. Len(res.body) = 0 /\ 1..0 = {}
    OBVIOUS
  <2> QED BY <2>1, Zenon
<1>2. [k \in {} |-> 0] \in [{} -> 1..p]
  OBVIOUS
<1> QED BY <1>1, <1>2, Zenon DEF Traced

(* Pieces read later do not change where those of the body were.               *)
LEMMA StaysTraced ==
    ASSUME NEW p \in Nat, NEW r \in Nat, p <= r, NEW f, Traced(f, p)
    PROVE  Traced(f, r)
<1>1. 1..p \subseteq 1..r
  OBVIOUS
<1>2. f \in [1..Len(res.body) -> 1..r]
  BY <1>1 DEF Traced
<1> QED BY <1>2 DEF Traced

(* As long as the body and the response are the same.                          *)
LEMMA SameTrace ==
    ASSUME NEW f, NEW p, Traced(f, p), res'.body = res.body, resp' = resp,
           IsChunked(res'.headers) <=> IsChunked(res.headers)
    PROVE  Traced(f, p)'
  BY DEF Traced, BehindLine, Adjoins

(* What a read appends to the body adjoins it, or comes behind a line.         *)
LEMMA MoreIsTraced ==
    ASSUME Contents, NEW p \in Nat, NEW f, Traced(f, p), Extends(f, p), ~ Over,
           NEW got \in Seq(Piece), Len(got) > 0, Holds(got, p, p + Len(got)),
           res'.body = res.body \o got, res'.headers = res.headers, resp' = resp
    PROVE  \E g : /\ Traced(g, p + Len(got))'
                  /\ res'.body # <<>> /\ g[Len(res'.body)] = p + Len(got)
<1>b. PICK b \in Seq(Piece) : b = res.body
  BY ResponseUpdates DEF Contents
<1> DEFINE m == Len(b)
           n == Len(got)
           g == [k \in 1..(m + n) |-> IF k <= m THEN f[k] ELSE p + (k - m)]
<1>1. m \in Nat /\ n \in Nat /\ n > 0
  OBVIOUS
<1>2. /\ res'.body \in Seq(Piece) /\ Len(res'.body) = m + n
      /\ \A k \in 1..m : res'.body[k] = b[k]
      /\ \A k \in 1..n : res'.body[m + k] = got[k]
  <2>1. \A s \in Seq(Piece), t \in Seq(Piece) :
           /\ s \o t \in Seq(Piece) /\ Len(s \o t) = Len(s) + Len(t)
           /\ \A k \in 1..Len(s) : (s \o t)[k] = s[k]
           /\ \A k \in 1..Len(t) : (s \o t)[Len(s) + k] = t[k]
    OBVIOUS
  <2>2. res'.body = b \o got
    BY <1>b
  <2>3. /\ b \o got \in Seq(Piece) /\ Len(b \o got) = m + n
        /\ \A k \in 1..m : (b \o got)[k] = b[k]
        /\ \A k \in 1..n : (b \o got)[m + k] = got[k]
    BY <2>1
  <2> QED BY <2>2, <2>3
<1>3. /\ f \in [1..m -> 1..p]
      /\ \A k \in 1..m : /\ b[k] = resp.wire[f[k]]
                         /\ \/ Adjoins(f, k)
                            \/ BehindLine(f, k) /\ (k = 1 \/ IsChunked(res.headers))
  BY <1>b, Zenon DEF Traced
<1>4. /\ \/ p > 0 /\ Last(resp.wire[p]) = LF /\ (m = 0 \/ IsChunked(res.headers))
         \/ m > 0 /\ f[m] = p
  <2>1. b = <<>> <=> m = 0
    OBVIOUS
  <2> QED BY <1>b, <1>1, <2>1 DEF Extends, AtLineEnd
<1>5. \A k \in 1..n : got[k] = resp.wire[p + k]
  BY DEF Holds
<1> HIDE DEF m, n
<1>6. /\ g \in [1..(m + n) -> 1..(p + n)]
      /\ \A k \in 1..m : g[k] = f[k] /\ k \in 1..(m + n)
      /\ \A k \in 1..n : g[m + k] = p + k
      /\ \A k \in (m + 1)..(m + n) : g[k] = p + (k - m) /\ k - m \in 1..n /\ m + (k - m) = k
  <2>1. \A k \in 1..m : k <= m /\ k \in 1..(m + n) /\ f[k] \in 1..(p + n)
    BY <1>1, <1>3
  <2>2. \A k \in 1..n : ~ (m + k <= m) /\ m + k \in 1..(m + n) /\ p + ((m + k) - m) = p + k
    BY <1>1
  <2>3. \A k \in (m + 1)..(m + n) :
           /\ ~ (k <= m) /\ k \in 1..(m + n) /\ k - m \in 1..n /\ m + (k - m) = k
           /\ p + (k - m) \in 1..(p + n)
    BY <1>1
  <2>4. \A k \in 1..(m + n) : k \in 1..m \/ k \in (m + 1)..(m + n)
    BY <1>1
  <2>5. \A k \in 1..(m + n) : (IF k <= m THEN f[k] ELSE p + (k - m)) \in 1..(p + n)
    BY <2>1, <2>3, <2>4, Zenon
  <2>6. g \in [1..(m + n) -> 1..(p + n)]
    BY <2>5, Zenon
  <2>7. \A k \in 1..(m + n) : g[k] = IF k <= m THEN f[k] ELSE p + (k - m)
    OBVIOUS
  <2> HIDE DEF g
  <2> QED BY <2>1, <2>2, <2>3, <2>6, <2>7
<1> HIDE DEF g
<1>7. ASSUME NEW k \in 1..m
      PROVE  /\ res'.body[k] = resp.wire[g[k]]
             /\ \/ Adjoins(g, k)
                \/ BehindLine(g, k) /\ (k = 1 \/ IsChunked(res.headers))
  <2>1. g[k] = f[k] /\ (k > 1 => g[k - 1] = f[k - 1])
    <3>1. k > 1 => k - 1 \in 1..m
      BY <1>1
    <3> QED BY <1>6, <3>1
  <2> QED BY <1>2, <1>3, <2>1 DEF Adjoins, BehindLine
<1>8. ASSUME NEW j \in 1..n
      PROVE  /\ res'.body[m + j] = resp.wire[g[m + j]]
             /\ \/ Adjoins(g, m + j)
                \/ BehindLine(g, m + j) /\ (m + j = 1 \/ IsChunked(res.headers))
  <2>1. res'.body[m + j] = resp.wire[g[m + j]]
    BY <1>2, <1>5, <1>6
  <2>2. CASE j > 1
    <3>1. j - 1 \in 1..n /\ (m + j) - 1 = m + (j - 1) /\ m + j > 1 /\ p + j = (p + (j - 1)) + 1
      BY <1>1, <2>2
    <3> QED BY <1>6, <2>1, <3>1 DEF Adjoins
  <2>3. CASE j = 1
    <3>1. g[m + j] = p + 1 /\ (m + j) - 1 = m /\ (p + 1) - 1 = p
      BY <1>1, <1>6, <2>3
    <3>2. m > 0 => m \in 1..m /\ f[m] \in 1..p /\ g[(m + j) - 1] = f[m] /\ m + j > 1
      BY <1>1, <1>3, <1>6, <2>3, <3>1
    <3>3. CASE p > 0 /\ Last(resp.wire[p]) = LF /\ (m = 0 \/ IsChunked(res.headers))
      <4>1. g[m + j] > 1 /\ Last(resp.wire[g[m + j] - 1]) = LF
        BY <3>1, <3>3
      <4>2. m + j > 1 => g[(m + j) - 1] < g[m + j]
        BY <1>1, <2>3, <3>1, <3>2
      <4>3. m = 0 => m + j = 1
        BY <2>3
      <4> QED BY <2>1, <3>3, <4>1, <4>2, <4>3 DEF BehindLine
    <3>4. CASE m > 0 /\ f[m] = p
      BY <2>1, <3>1, <3>2, <3>4 DEF Adjoins
    <3> QED BY <1>4, <3>3, <3>4
  <2>4. j > 1 \/ j = 1
    BY <1>1
  <2> QED BY <2>2, <2>3, <2>4, Zenon
<1>9. ASSUME NEW k \in 1..(m + n)
      PROVE  /\ res'.body[k] = resp.wire[g[k]]
             /\ \/ Adjoins(g, k)
                \/ BehindLine(g, k) /\ (k = 1 \/ IsChunked(res.headers))
  <2>1. k \in 1..m \/ k \in (m + 1)..(m + n)
    BY <1>1
  <2>2. CASE k \in (m + 1)..(m + n)
    <3>1. k - m \in 1..n /\ m + (k - m) = k
      BY <1>6, <2>2
    <3> QED BY <1>8, <3>1
  <2> QED BY <1>7, <2>1, <2>2
<1>10. Traced(g, p + n)'
  <2>1. \A k : BehindLine(g, k)' <=> BehindLine(g, k)
    BY DEF BehindLine
  <2> QED BY <1>2, <1>6, <1>9, <2>1 DEF Traced, Adjoins
<1>11. res'.body # <<>> /\ g[Len(res'.body)] = p + n
  <2>1. n \in 1..n /\ m + n > 0
    BY <1>1
  <2>2. res'.body # <<>>
    <3>1. \A s \in Seq(Piece) : Len(s) > 0 => s # <<>>
      OBVIOUS
    <3> QED BY <1>2, <2>1, <3>1, Zenon
  <2> QED BY <1>2, <1>6, <2>1, <2>2
<1> QED BY <1>10, <1>11 DEF n

(* A step that leaves the response, and what is left of it, as they were.      *)
LEMMA SameOrder ==
    ASSUME UNCHANGED <<resp, at, peer>>, NEW p, NEW q
    PROVE  /\ InOrder(rbuf, kern, p, q)' <=> InOrder(rbuf', kern', p, q)
           /\ UNCHANGED <<rbuf, kern>> => (AtLineEnd(p)' <=> AtLineEnd(p))
  BY DEF InOrder, Holds, AtLineEnd, Over

(* A call that has failed has no body.                                         *)
LEMMA FailedIsInOrder ==
    ASSUME pc' = "finish", ~ ret', held' \/ (peer' = "none" /\ kern' = <<>>)
    PROVE  OrderInv'
  BY DEF OrderInv, Place, Receiving, Connecting, Opening, Reading

(* While a response is received, only what is read matters.                    *)
LEMMA ReceivedInOrder ==
    ASSUME Place' \in Receiving, held', NEW p, NEW q, InOrder(rbuf, kern, p, q)', Reached(p)'
    PROVE  OrderInv'
<1>1. pc' \in Receiving \cup {"line"}
  BY DEF Place
<1>2. pc' \notin {"made", "connected", "writable", "send"} \cup Connecting
  BY <1>1 DEF Receiving, Reading, Connecting, Opening
<1>3. ~ (Place' \in {"finish", "return"})
  BY DEF Receiving, Reading
<1> QED BY <1>1, <1>2, <1>3 DEF OrderInv

(* The socket is held, and its numbers are in place, while it is read.         *)
LEMMA ReceivingHolds ==
    ASSUME IInv, Scalars, OrderInv, Place \in Receiving
    PROVE  /\ held /\ at \in Nat
           /\ \E p, q : InOrder(rbuf, kern, p, q) /\ Reached(p)
<1>1. pc \in With
  <2>1. pc = "line" \/ pc \in Receiving
    BY DEF Place
  <2> QED BY <2>1 DEF Receiving, With
<1>2. held
  BY <1>1 DEF IInv, SocketIsKnown
<1>3. at \in Nat
  BY SizesAreNat DEF Scalars
<1> QED BY <1>2, <1>3 DEF OrderInv

(* Before the first byte of a response.                                        *)
LEMMA RequestKeepsOrder ==
    ASSUME IInv, Scalars, Contents, LengthInv, OrderInv,
           \/ MakeClient \/ Post \/ Resolve \/ OpenSocket \/ Connect \/ WaitUntilReady
           \/ NoSocket \/ ProcessSocket \/ IsWritable \/ Send \/ SendFails \/ BrokenPipe
    PROVE  OrderInv'
<1>1. CASE MakeClient
  <2>1. /\ pc = "idle" /\ pc' = "made" /\ at' = 0 /\ UNCHANGED <<peer, kern>>
    BY <1>1 DEF MakeClient, strm
  <2>2. ~ held
    BY <2>1 DEF IInv, SocketIsKnown, Without
  <2>3. peer' = "none" /\ kern' = <<>>
    BY <2>1, <2>2 DEF OrderInv
  <2> QED BY <2>1, <2>3 DEF OrderInv, Place, Receiving, Reading
<1>2. CASE Post \/ Resolve \/ OpenSocket
  <2>1. /\ pc \in {"made"} \cup Connecting /\ pc' \in Connecting
        /\ UNCHANGED <<at, peer, kern, held>>
    BY <1>2 DEF Post, Resolve, OpenSocket, node, conn, strm, Connecting, Opening
  <2>2. ~ held /\ pc # "killed"
    BY <2>1 DEF IInv, SocketIsKnown, Without, Connecting, Opening
  <2>3. peer' = "none" /\ kern' = <<>> /\ at' = 0
    BY <2>1, <2>2 DEF OrderInv
  <2> QED BY <2>1, <2>3 DEF OrderInv, Place, Receiving, Reading, Connecting, Opening
<1>3. CASE Connect \/ WaitUntilReady
  <2>1. /\ pc \in Opening /\ UNCHANGED <<at, kern>>
        /\ \/ pc' = "connected" /\ held' = TRUE
           \/ pc' \in Connecting /\ UNCHANGED <<held, peer>>
    BY <1>3 DEF Connect, WaitUntilReady, Connected, ConnectFails, conn, strm, Connecting, Opening
  <2>2. ~ held /\ pc # "killed"
    BY <2>1 DEF IInv, SocketIsKnown, Opening
  <2>3. peer = "none" /\ kern' = <<>> /\ at' = 0
    BY <2>1, <2>2 DEF OrderInv, Connecting
  <2>4. CASE pc' = "connected" /\ held' = TRUE
    <3>1. Holds(kern, 0, at)'
      BY <2>3 DEF Holds
    <3> QED BY <2>3, <2>4, <3>1 DEF OrderInv, Place, Receiving, Reading, Connecting, Opening
  <2>5. CASE pc' \in Connecting /\ UNCHANGED <<held, peer>>
    BY <2>3, <2>5 DEF OrderInv, Place, Receiving, Reading, Connecting, Opening
  <2> QED BY <2>1, <2>4, <2>5
<1>4. CASE NoSocket
  <2>1. pc = "socket" /\ pc' = "return" /\ UNCHANGED <<peer, kern, held, ret>>
    BY <1>4 DEF NoSocket, node, conn, strm
  <2>2. ~ held /\ ~ ret
    BY <2>1 DEF IInv, SocketIsKnown, Without, LengthInv, Place, Asking, Connecting
  <2>3. peer' = "none" /\ kern' = <<>> /\ ~ ret'
    BY <2>1, <2>2 DEF OrderInv
  <2> QED BY <2>1, <2>3 DEF OrderInv, Place, Receiving, Reading, Connecting, Opening
<1>5. CASE ProcessSocket
  <2>1. pc = "connected" /\ pc' = "writable" /\ UNCHANGED <<resp, peer, at, kern, held>> /\ rbuf' = <<>>
    BY <1>5 DEF ProcessSocket, NewStream, node, conn
  <2>2. held /\ (Holds(kern, 0, at) \/ (kern = <<>> /\ peer = "rst"))
    BY <2>1 DEF IInv, SocketIsKnown, With, OrderInv
  <2> QED BY <2>1, <2>2 DEF OrderInv, Holds, Place, Receiving, Reading, Connecting, Opening
<1>6. CASE IsWritable
  <2>1. /\ pc = "writable" /\ UNCHANGED <<resp, peer, at, kern, rbuf, held>>
        /\ pc' = "send" \/ (pc' = "finish" /\ ~ ret')
    BY <1>6 DEF IsWritable, Fail, node, conn, strm
  <2>2. held /\ rbuf = <<>> /\ (Holds(kern, 0, at) \/ (kern = <<>> /\ peer = "rst"))
    BY <2>1 DEF IInv, SocketIsKnown, With, OrderInv
  <2>3. CASE pc' = "send"
    BY <2>1, <2>2, <2>3 DEF OrderInv, Holds, Place, Receiving, Reading, Connecting, Opening
  <2> QED BY <2>1, <2>2, <2>3, FailedIsInOrder
<1>7. CASE Send
  <2>1. /\ pc = "send" /\ UNCHANGED <<resp, peer, at, kern, rbuf, held>> /\ point' = "status"
        /\ pc' \in {"line", "writable"}
    BY <1>7 DEF Send, node, conn, strm
  <2>2. held /\ rbuf = <<>> /\ (Holds(kern, 0, at) \/ (kern = <<>> /\ peer = "rst"))
    BY <2>1 DEF IInv, SocketIsKnown, With, OrderInv
  <2>3. CASE pc' = "line"
    <3>1. at \in Nat
      BY SizesAreNat DEF Scalars
    <3>2. Holds(<<>>, 0, 0)
      BY DEF Holds
    <3>3. InOrder(rbuf, kern, 0, 0)
      BY <2>2, <3>1, <3>2 DEF InOrder
    <3>4. InOrder(rbuf, kern, 0, 0)'
      BY <2>1, <3>3, SameOrder
    <3>5. Reached(0)' /\ Place' \in Receiving
      BY <2>1, <2>3 DEF Reached, Place, Reading, Receiving
    <3> QED BY <2>1, <2>2, <3>4, <3>5, ReceivedInOrder
  <2>4. CASE pc' = "writable"
    BY <2>1, <2>2, <2>4 DEF OrderInv, Holds, Place, Receiving, Reading, Connecting, Opening
  <2> QED BY <2>1, <2>3, <2>4
<1>8. CASE SendFails
  <2>1. pc = "send" /\ UNCHANGED held /\ pc' = "finish" /\ ~ ret'
    BY <1>8 DEF SendFails, Fail, conn
  <2>2. held
    BY <2>1 DEF IInv, SocketIsKnown, With
  <2> QED BY <2>1, <2>2, FailedIsInOrder
<1>9. CASE BrokenPipe
  BY <1>9 DEF BrokenPipe, OrderInv, Place, Receiving, Reading, Connecting, Opening
<1> QED BY <1>1, <1>2, <1>3, <1>4, <1>5, <1>6, <1>7, <1>8, <1>9

(* A line takes the next piece, until one ends it or nothing will come.        *)
LEMMA LineKeepsOrder ==
    ASSUME IInv, Scalars, Contents, OrderInv, GetLine
    PROVE  OrderInv'
<1> DEFINE r == Read(1)
<1>1. /\ pc = "line" /\ point \in Reading
      /\ UNCHANGED <<resp, at, peer, held, point, res>>
      /\ rbuf' = r.rbuf /\ kern' = r.kern
      /\ \/ r.n = 1 /\ pc' = IF Last(r.got[1]) = LF THEN point ELSE "line"
         \/ r.n = 0 /\ pc' = point
         \/ pc' = "finish" /\ ~ ret'
      /\ r.n = 1 => pc' \in {point, "line"}
  BY DEF GetLine, Fail, node, conn, Scalars
<1>2. Place = point /\ Place \in Receiving
  BY <1>1 DEF Place, Receiving
<1>3. held /\ at \in Nat /\ \E p, q : InOrder(rbuf, kern, p, q) /\ Reached(p)
  BY <1>2, ReceivingHolds
<1>4. PICK p, q : InOrder(rbuf, kern, p, q) /\ Reached(p)
  BY <1>3
<1>5. Follows(r, p) /\ Outcome(r, 1) /\ p \in Nat
  <2>1. 1 \in Nat \ {0} /\ 1 \in Nat
    OBVIOUS
  <2> QED BY <1>3, <1>4, <2>1, ReadFollows, ReadOutcome DEF InOrder
<1>6. PICK n \in Int, got \in Seq(Piece), b \in Seq(Piece), s \in Seq(Piece) :
         n = r.n /\ got = r.got /\ b = r.rbuf /\ s = r.kern
  BY <1>5 DEF Outcome
<1>7. \/ /\ n > 0 /\ Holds(got, p, p + n)
         /\ \E q2 : InOrder(b, s, p + n, q2)
      \/ /\ n <= 0 /\ b = rbuf /\ s = kern /\ rbuf = <<>> /\ kern = <<>>
         /\ n = 0 => peer = "fin"
  BY <1>5, <1>6 DEF Follows
<1>8. n <= 1
  BY <1>5, <1>6 DEF Outcome
<1> HIDE DEF r
<1>9. CASE pc' = "finish" /\ ~ ret'
  BY <1>1, <1>3, <1>9, FailedIsInOrder
<1>10. CASE n = 1 /\ pc' = IF Last(r.got[1]) = LF THEN point ELSE "line"
  <2>1. PICK q2 : InOrder(b, s, p + 1, q2)
    BY <1>7, <1>10
  <2>2. InOrder(rbuf, kern, p + 1, q2)'
    BY <1>1, <1>6, <2>1, SameOrder
  <2>3. got[1] = resp.wire[p + 1]
    <3>1. Len(got) = 1
      BY <1>5, <1>7, <1>10 DEF Holds
    <3> QED BY <1>7, <1>10, <3>1 DEF Holds
  <2>4. Place' = Place
    BY <1>1, <1>2, <1>10 DEF Place
  <2>5. pc' \in Reading \cup {"content"} => AtLineEnd(p + 1)'
    <3>1. ASSUME pc' \in Reading \cup {"content"} PROVE Last(got[1]) = LF
      BY <1>6, <1>10, <3>1 DEF Reading
    <3>2. p + 1 > 0
      BY <1>5
    <3> QED BY <1>1, <2>3, <3>1, <3>2 DEF AtLineEnd
  <2>6. ASSUME NEW f, Traced(f, p) PROVE Traced(f, p + 1)'
    <3>1. Traced(f, p + 1)
      BY <1>5, <2>6, StaysTraced
    <3> QED BY <1>1, <3>1, SameTrace
  <2>7. Reached(p + 1)'
    <3>1. Place' \notin {"data", "drain"}
      BY <1>1, <1>2, <2>4 DEF Reading
    <3> QED BY <1>4, <2>4, <2>5, <2>6, <3>1 DEF Reached
  <2> QED BY <1>1, <1>2, <1>3, <2>2, <2>4, <2>7, ReceivedInOrder
<1>11. CASE n = 0 /\ pc' = point
  <2>1. UNCHANGED <<rbuf, kern>> /\ rbuf = <<>> /\ kern = <<>> /\ peer = "fin"
    BY <1>1, <1>6, <1>7, <1>11
  <2>2. InOrder(rbuf, kern, p, q)'
    BY <1>1, <1>4, <2>1, SameOrder
  <2>3. AtLineEnd(p)'
    BY <1>1, <2>1 DEF AtLineEnd, Over
  <2>4. Place' = Place
    BY <1>1, <1>2, <1>11 DEF Place, Reading
  <2>5. \A f : Traced(f, p) => Traced(f, p)'
    BY <1>1, SameTrace
  <2>6. Reached(p)'
    <3>1. Place' \notin {"data", "drain"}
      BY <1>1, <1>2, <2>4 DEF Reading
    <3> QED BY <1>4, <2>3, <2>4, <2>5, <3>1 DEF Reached
  <2> QED BY <1>1, <1>2, <1>3, <2>2, <2>4, <2>6, ReceivedInOrder
<1> QED BY <1>1, <1>6, <1>9, <1>10, <1>11

(* What becomes of a complete line, and how the content will be read.          *)
LEMMA HeadKeepsOrder ==
    ASSUME IInv, Scalars, Contents, LengthInv, OrderInv,
           ReadResponseLine \/ ReadHeaders \/ ReadContent
    PROVE  OrderInv'
<1>1. /\ pc \in Heading /\ Place = pc
      /\ UNCHANGED <<resp, at, peer, held, rbuf, kern>>
  BY DEF ReadResponseLine, ReadHeaders, ReadContent, Heading, Place, node, conn, strm
<1>2. Place \in Receiving
  BY <1>1 DEF Receiving, Reading, Heading
<1>3. held /\ at \in Nat /\ \E p, q : InOrder(rbuf, kern, p, q) /\ Reached(p)
  BY <1>2, ReceivingHolds
<1>4. PICK p, q : InOrder(rbuf, kern, p, q) /\ Reached(p)
  BY <1>3
<1>5. AtLineEnd(p) /\ AtLineEnd(p)' /\ InOrder(rbuf, kern, p, q)'
  <2>1. AtLineEnd(p)
    BY <1>1, <1>4 DEF Reached, Heading, Reading
  <2> QED BY <1>1, <1>4, <2>1, SameOrder
<1>6. \/ pc' = "finish" /\ ~ ret'
      \/ pc' = "line" /\ point' \in {"status", "continue", "header"}
      \/ pc = "header" /\ pc' = "content"
      \/ pc = "content" /\ UNCHANGED res /\ pc' = "line" /\ point' = "chunk"
      \/ pc = "content" /\ UNCHANGED res /\ pc' \in {"handle", "data", "drain"}
  <2>1. CASE ReadResponseLine \/ ReadHeaders
    BY <2>1 DEF ReadResponseLine, ReadHeaders, NextLine, Fail
  <2>2. CASE ReadContent
    BY <2>2 DEF ReadContent, NextLine, Fail, Succeed
  <2> QED BY <2>1, <2>2
<1>7. CASE pc' = "finish" /\ ~ ret'
  BY <1>1, <1>3, <1>7, FailedIsInOrder
<1>8. CASE \/ pc' = "line" /\ point' \in {"status", "continue", "header"}
           \/ pc = "header" /\ pc' = "content"
  <2>1. Reached(p)' /\ Place' \in Receiving
    BY <1>5, <1>8 DEF Reached, Place, Reading, Receiving
  <2> QED BY <1>1, <1>3, <1>5, <2>1, ReceivedInOrder
<1>9. CASE /\ pc = "content" /\ UNCHANGED res
           /\ \/ pc' = "line" /\ point' = "chunk"
              \/ pc' \in {"handle", "data", "drain"}
  <2>1. res.body = <<>>
    BY <1>1, <1>9 DEF LengthInv, Heading
  <2>2. PICK f : Traced(f, p)
    BY <2>1, EmptyIsTraced
  <2>3. Traced(f, p)'
    BY <1>1, <1>9, <2>2, SameTrace
  <2>4. Extends(f, p)'
    BY <1>5, <1>9, <2>1 DEF Extends
  <2>5. Reached(p)' /\ Place' \in Receiving
    BY <1>9, <2>3, <2>4 DEF Reached, Place, Reading, Receiving
  <2> QED BY <1>1, <1>3, <1>5, <2>5, ReceivedInOrder
<1> QED BY <1>6, <1>7, <1>8, <1>9

(* Content is taken from where the last read has stopped.                      *)
LEMMA ContentKeepsOrder ==
    ASSUME IInv, Scalars, Contents, LengthInv, OrderInv,
           ReadContentWithLength \/ ReadContentWithoutLength
    PROVE  OrderInv'
<1>1. /\ pc \in {"data", "drain"} /\ Place = pc
      /\ UNCHANGED <<resp, at, peer, held>>
  BY DEF ReadContentWithLength, ReadContentWithoutLength, Place, node, conn
<1>2. Place \in Receiving
  BY <1>1 DEF Receiving
<1>3. held /\ at \in Nat /\ \E p, q : InOrder(rbuf, kern, p, q) /\ Reached(p)
  BY <1>2, ReceivingHolds
<1>4. PICK p, q, f : InOrder(rbuf, kern, p, q) /\ Traced(f, p) /\ Extends(f, p)
  BY <1>1, <1>3 DEF Reached
<1>5. PICK size \in Nat \ {0} :
         LET r == Read(size) IN
         /\ rbuf' = r.rbuf /\ kern' = r.kern
         /\ r.n <= 0 => \/ pc' = "finish" /\ ~ ret'
                        \/ pc' = "handle" /\ UNCHANGED res
         /\ ~ (r.n <= 0) =>
              /\ Received(r.got)
              /\ \/ pc' = pc
                 \/ pc' = "line" /\ point' = "chunkEnd"
                 \/ pc' = "handle"
  <2>1. CASE ReadContentWithLength
    <3>1. need \in Nat /\ need > 0
      BY <2>1 DEF ReadContentWithLength, LengthInv, Place, RestIsNeeded, Contents
    <3>2. Lesser(need, RecvBuff) \in Nat \ {0}
      <4>1. RecvBuff \in Nat /\ RecvBuff > 0
        BY SizesAreNat
      <4>2. Lesser(need, RecvBuff) \in Nat /\ Lesser(need, RecvBuff) > 0
        BY <3>1, <4>1, LesserIs
      <4> QED BY <4>2
    <3> DEFINE r == Read(Lesser(need, RecvBuff))
    <3>3. /\ rbuf' = r.rbuf /\ kern' = r.kern
          /\ r.n <= 0 => pc' = "finish" /\ ~ ret'
          /\ ~ (r.n <= 0) =>
               /\ Received(r.got)
               /\ \/ pc' = pc
                  \/ pc' = "line" /\ point' = "chunkEnd"
                  \/ pc' = "handle"
      BY <2>1 DEF ReadContentWithLength, Fail, NextLine, Succeed
    <3> QED BY <3>2, <3>3, Zenon
  <2>2. CASE ReadContentWithoutLength
    <3>1. RecvBuff \in Nat \ {0}
      BY SizesAreNat
    <3> DEFINE r == Read(RecvBuff)
    <3>2. /\ rbuf' = r.rbuf /\ kern' = r.kern
          /\ r.n <= 0 => pc' = "handle" /\ UNCHANGED res
          /\ ~ (r.n <= 0) => Received(r.got) /\ pc' = pc
      BY <2>2 DEF ReadContentWithoutLength, Succeed
    <3> QED BY <3>1, <3>2, Zenon
  <2> QED BY <2>1, <2>2
<1> DEFINE r == Read(size)
<1>6. Follows(r, p) /\ Outcome(r, size) /\ p \in Nat
  BY <1>3, <1>4, ReadFollows, ReadOutcome DEF InOrder
<1>7. PICK n \in Int, got \in Seq(Piece), b \in Seq(Piece), s \in Seq(Piece) :
         n = r.n /\ got = r.got /\ b = r.rbuf /\ s = r.kern
  BY <1>6 DEF Outcome
<1>8. \/ /\ n > 0 /\ Holds(got, p, p + n) /\ ~ Over
         /\ \E q2 : InOrder(b, s, p + n, q2)
      \/ n <= 0 /\ b = rbuf /\ s = kern
  BY <1>6, <1>7 DEF Follows, Over
<1>9. /\ rbuf' = b /\ kern' = s
      /\ n <= 0 => \/ pc' = "finish" /\ ~ ret'
                   \/ pc' = "handle" /\ UNCHANGED res
      /\ ~ (n <= 0) =>
           /\ Received(got)
           /\ \/ pc' = pc
              \/ pc' = "line" /\ point' = "chunkEnd"
              \/ pc' = "handle"
  BY <1>5, <1>7
<1> HIDE DEF r
<1>10. CASE pc' = "finish" /\ ~ ret'
  BY <1>1, <1>3, <1>10, FailedIsInOrder
<1>11. CASE n <= 0 /\ pc' = "handle" /\ UNCHANGED res
  <2>1. InOrder(rbuf, kern, p, q)'
    BY <1>1, <1>4, <1>8, <1>9, <1>11, SameOrder
  <2>2. Traced(f, p)'
    BY <1>1, <1>4, <1>11, SameTrace
  <2>3. Reached(p)' /\ Place' \in Receiving
    BY <1>11, <2>2 DEF Reached, Place, Reading, Receiving
  <2> QED BY <1>1, <1>3, <2>1, <2>3, ReceivedInOrder
<1>12. CASE n > 0
  <2>1. PICK q2 : InOrder(b, s, p + n, q2)
    BY <1>8, <1>12
  <2>2. InOrder(rbuf, kern, p + n, q2)'
    BY <1>1, <1>9, <2>1, SameOrder
  <2>3. Len(got) = n
    BY <1>6, <1>8, <1>12 DEF Holds
  <2>4. res'.body = res.body \o got /\ res'.headers = res.headers
    BY <1>9, <1>12 DEF Received, Contents, Response
  <2>5. \E g : Traced(g, p + n)' /\ res'.body # <<>> /\ g[Len(res'.body)] = p + n
    <3>1. /\ p \in Nat /\ Traced(f, p) /\ Extends(f, p) /\ ~ Over /\ Len(got) > 0
          /\ Holds(got, p, p + Len(got)) /\ resp' = resp
      BY <1>1, <1>4, <1>6, <1>8, <1>12, <2>3
    <3>2. \E g : /\ Traced(g, p + Len(got))'
                 /\ res'.body # <<>> /\ g[Len(res'.body)] = p + Len(got)
      BY <2>4, <3>1, MoreIsTraced
    <3> QED BY <2>3, <3>2
  <2>6. PICK g : Traced(g, p + n)' /\ res'.body # <<>> /\ g[Len(res'.body)] = p + n
    BY <2>5
  <2>7. Extends(g, p + n)'
    BY <2>6 DEF Extends
  <2>8. Place' \in {"data", "drain", "chunkEnd", "handle"} /\ pc' \notin Reading \cup {"content"}
    BY <1>1, <1>9, <1>12 DEF Place, Reading
  <2>9. Reached(p + n)' /\ Place' \in Receiving
    BY <2>6, <2>7, <2>8 DEF Reached, Receiving, Reading
  <2> QED BY <1>1, <1>3, <2>2, <2>9, ReceivedInOrder
<1> QED BY <1>9, <1>10, <1>11, <1>12

(* Between two chunks, and behind the last, the body stays.                    *)
LEMMA ChunkKeepsOrder ==
    ASSUME IInv, Scalars, Contents, LengthInv, LengthInv', OrderInv,
           ReadChunk \/ EndChunk \/ ReadTrailer
    PROVE  OrderInv'
<1>1. /\ pc \in {"chunk", "chunkEnd", "trailer"} /\ Place = pc
      /\ UNCHANGED <<resp, at, peer, held, rbuf, kern>>
  BY DEF ReadChunk, EndChunk, ReadTrailer, Place, node, conn, strm
<1>2. Place \in Receiving
  BY <1>1 DEF Receiving, Reading
<1>3. held /\ at \in Nat /\ \E p, q : InOrder(rbuf, kern, p, q) /\ Reached(p)
  BY <1>2, ReceivingHolds
<1>4. PICK p, q, f : InOrder(rbuf, kern, p, q) /\ AtLineEnd(p) /\ Traced(f, p)
  BY <1>1, <1>3 DEF Reached, Reading
<1>5. IsChunked(res.headers)
  BY <1>1 DEF LengthInv
<1>6. AtLineEnd(p)' /\ InOrder(rbuf, kern, p, q)'
  BY <1>1, <1>4, SameOrder
<1>7. \/ pc' = "finish" /\ ~ ret'
      \/ pc' = "data" /\ UNCHANGED res
      \/ pc' = "line" /\ point' \in {"chunk", "trailer"} /\ UNCHANGED res
      \/ pc' = "handle" /\ UNCHANGED res
      \/ /\ pc' = "line" /\ point' = "trailer"
         /\ res' = [res EXCEPT !.headers = AddHeader(res.headers, line)]
  <2>1. CASE ReadChunk \/ EndChunk
    BY <2>1 DEF ReadChunk, EndChunk, NextLine, Fail
  <2>2. CASE ReadTrailer
    BY <2>2 DEF ReadTrailer, NextLine, Fail, Succeed
  <2> QED BY <2>1, <2>2
<1>8. CASE pc' = "finish" /\ ~ ret'
  BY <1>1, <1>3, <1>8, FailedIsInOrder
<1>9. CASE pc' # "finish"
  <2>1. res'.body = res.body
    BY <1>7, <1>9 DEF Contents, Response
  <2>2. IsChunked(res'.headers)
    <3>1. CASE UNCHANGED res
      BY <1>5, <3>1
    <3>2. CASE pc' = "line" /\ point' = "trailer"
      BY <3>2 DEF LengthInv, Place
    <3> QED BY <1>7, <1>9, <3>1, <3>2
  <2>3. Traced(f, p)'
    BY <1>1, <1>4, <1>5, <2>1, <2>2, SameTrace
  <2>4. Extends(f, p)'
    BY <1>6, <2>2 DEF Extends
  <2>5. Reached(p)' /\ Place' \in Receiving
    <3>1. Place' \in {"data", "chunk", "trailer", "handle"} /\ pc' \notin Reading \cup {"content"}
      BY <1>7, <1>9 DEF Place, Reading
    <3> QED BY <2>3, <2>4, <3>1 DEF Reached, Receiving, Reading
  <2> QED BY <1>1, <1>3, <1>6, <2>5, ReceivedInOrder
<1> QED BY <1>7, <1>8, <1>9

(* The end of a call hands over what was received.                             *)
LEMMA EndKeepsOrder ==
    ASSUME IInv, Scalars, Contents, OrderInv,
           HandleResponse \/ FinishRequest \/ Return \/ DestroyClient
    PROVE  OrderInv'
<1>1. CASE HandleResponse
  <2>1. /\ pc = "handle" /\ pc' = "finish" /\ UNCHANGED <<resp, at, res>>
        /\ \/ ~ held' /\ peer' = (IF held THEN "none" ELSE peer) /\ kern' = <<>>
           \/ UNCHANGED held
    BY <1>1 DEF HandleResponse, CloseSocket
  <2>2. Place \in Receiving /\ Place = "handle"
    BY <2>1 DEF Place, Receiving
  <2>3. held /\ at \in Nat /\ \E p, q : InOrder(rbuf, kern, p, q) /\ Reached(p)
    BY <2>2, ReceivingHolds
  <2>4. PICK p, f : p \in 0..at /\ Traced(f, p)
    BY <2>2, <2>3 DEF Reached, InOrder
  <2>5. p \in 0..at' /\ Traced(f, p)'
    BY <2>1, <2>4, SameTrace
  <2>6. ~ held' => peer' = "none" /\ kern' = <<>>
    BY <2>1, <2>3
  <2> QED BY <2>1, <2>5, <2>6 DEF OrderInv, Place, Receiving, Reading, Connecting, Opening
<1>2. CASE FinishRequest
  <2>1. /\ pc = "finish" /\ pc' = "return" /\ UNCHANGED <<resp, at, res, ret>>
        /\ ~ held' /\ peer' = (IF held THEN "none" ELSE peer) /\ kern' = <<>>
    BY <1>2 DEF FinishRequest, CloseSocket, Settings
  <2>2. peer' = "none"
    BY <2>1 DEF OrderInv
  <2>3. ASSUME ret' PROVE \E p \in 0..at' : \E f : Traced(f, p)'
    <3>1. PICK p, f : p \in 0..at /\ Traced(f, p)
      BY <2>1, <2>3 DEF OrderInv, Place
    <3>2. Traced(f, p)'
      BY <2>1, <3>1, SameTrace
    <3> QED BY <2>1, <3>1, <3>2
  <2> QED BY <2>1, <2>2, <2>3 DEF OrderInv, Place, Receiving, Reading, Connecting, Opening
<1>3. CASE Return \/ DestroyClient
  <2>1. /\ pc \in {"return", "destroy"} /\ pc' \in {"destroy", "idle"}
        /\ \/ UNCHANGED <<held, peer, kern>>
           \/ CloseSocket
    BY <1>3 DEF Return, DestroyClient, node, conn, strm
  <2>2. ~ held /\ peer = "none" /\ kern = <<>>
    BY <2>1 DEF IInv, SocketIsKnown, Without, OrderInv
  <2>3. peer' = "none" /\ kern' = <<>>
    BY <2>1, <2>2 DEF CloseSocket
  <2> QED BY <2>1, <2>3 DEF OrderInv, Place, Receiving, Reading, Connecting, Opening
<1> QED BY <1>1, <1>2, <1>3

(* What the node does only appends to the socket, or takes from it what was    *)
(* not yet read.                                                               *)
LEMMA NodeKeepsOrder ==
    ASSUME IInv, Scalars, Contents, OrderInv,
           Deliver \/ PeerCloses \/ PeerResets \/ UNCHANGED vars
    PROVE  OrderInv'
<1>1. /\ UNCHANGED <<pc, point, resp, ret, held, rbuf, res>> /\ Place' = Place
      /\ \/ /\ peer = "up" /\ UNCHANGED peer /\ at' = at + 1
            /\ kern' = Append(kern, resp.wire[at + 1])
         \/ peer = "up" /\ peer' = "fin" /\ UNCHANGED <<at, kern>>
         \/ peer \in {"up", "fin"} /\ peer' = "rst" /\ UNCHANGED at /\ kern' \in {kern, <<>>}
         \/ UNCHANGED <<at, kern, peer>>
  BY DEF Deliver, PeerCloses, PeerResets, vars, node, conn, strm, Place
<1>2. at \in Nat /\ kern \in Seq(Piece)
  BY SizesAreNat DEF Scalars, Contents
<1>3. pc # "killed" /\ ~ held => UNCHANGED <<at, peer, kern>>
  <2>1. ASSUME pc # "killed", ~ held PROVE peer = "none"
    BY <2>1 DEF OrderInv
  <2> QED BY <1>1, <2>1
<1>4. ASSUME NEW q \in Nat, q <= at, Holds(kern, q, at) \/ (kern = <<>> /\ peer = "rst")
      PROVE  Holds(kern, q, at)' \/ (kern' = <<>> /\ peer' = "rst")
  <2>1. CASE /\ peer = "up" /\ UNCHANGED peer /\ at' = at + 1
             /\ kern' = Append(kern, resp.wire[at + 1])
    <3> DEFINE w == resp.wire[at + 1]
    <3>1. \A s \in Seq(Piece) : \A x :
             /\ Len(Append(s, x)) = Len(s) + 1
             /\ \A k \in 1..Len(s) : Append(s, x)[k] = s[k]
             /\ Append(s, x)[Len(s) + 1] = x
      OBVIOUS
    <3>2. /\ Len(kern') = Len(kern) + 1
          /\ \A k \in 1..Len(kern) : kern'[k] = kern[k]
          /\ kern'[Len(kern) + 1] = w
      BY <1>2, <2>1, <3>1
    <3>3. Len(kern) = at - q /\ \A k \in 1..Len(kern) : kern[k] = resp.wire[q + k]
      BY <1>4, <2>1 DEF Holds
    <3>4. Len(kern') = at' - q
      BY <1>2, <1>4, <2>1, <3>2, <3>3
    <3>5. ASSUME NEW k \in 1..Len(kern') PROVE kern'[k] = resp.wire[q + k]
      <4>1. k \in 1..Len(kern) \/ (k = Len(kern) + 1 /\ q + k = at + 1)
        BY <1>2, <1>4, <3>2, <3>3
      <4> QED BY <3>2, <3>3, <4>1
    <3> QED BY <1>1, <3>4, <3>5 DEF Holds
  <2>2. CASE UNCHANGED <<at, kern>> /\ (peer = "rst" => peer' = "rst")
    BY <1>1, <1>4, <2>2 DEF Holds
  <2>3. CASE UNCHANGED at /\ kern' = <<>> /\ peer' = "rst"
    BY <2>3
  <2> QED BY <1>1, <2>1, <2>2, <2>3
<1>5. \A f, p : Traced(f, p) => Traced(f, p)'
  BY <1>1, SameTrace
<1>6. \A p : AtLineEnd(p) => AtLineEnd(p)'
  <2>1. Over => Over'
    BY <1>1 DEF Over
  <2> QED BY <1>1, <2>1 DEF AtLineEnd
<1>7. \A f, p : Extends(f, p) => Extends(f, p)'
  BY <1>1, <1>6 DEF Extends
<1>8. \A p : Reached(p) => Reached(p)'
  BY <1>1, <1>5, <1>6, <1>7 DEF Reached
<1>9. \A p, q : InOrder(rbuf, kern, p, q) => InOrder(rbuf, kern, p, q)'
  <2> SUFFICES ASSUME NEW p, NEW q, InOrder(rbuf, kern, p, q)
               PROVE  InOrder(rbuf, kern, p, q)'
    OBVIOUS
  <2>1. /\ p \in Nat /\ q \in Nat /\ p <= q /\ q <= at /\ q <= at'
        /\ Holds(rbuf, p, q)
        /\ Holds(kern, q, at) \/ (kern = <<>> /\ peer = "rst")
    BY <1>1, <1>2 DEF InOrder
  <2>2. Holds(rbuf, p, q)'
    BY <1>1, <2>1 DEF Holds
  <2> QED BY <1>4, <2>1, <2>2 DEF InOrder
<1>10. /\ pc' # "killed" /\ ~ held' => peer' = "none" /\ kern' = <<>>
       /\ pc' \in {"made"} \cup Connecting => at' = 0
  <2>1. pc \in {"made"} \cup Connecting => pc # "killed" /\ ~ held
    BY DEF IInv, SocketIsKnown, Without, Connecting, Opening
  <2> QED BY <1>1, <1>3, <2>1 DEF OrderInv
<1>11. /\ pc' \in {"connected", "writable", "send"} =>
             Holds(kern, 0, at)' \/ (kern' = <<>> /\ peer' = "rst")
       /\ pc' \in {"writable", "send"} => rbuf' = <<>>
  <2>1. 0 \in Nat /\ 0 <= at
    BY <1>2
  <2> QED BY <1>1, <1>4, <2>1 DEF OrderInv
<1>12. Place' \in Receiving => \E p, q : (InOrder(rbuf, kern, p, q) /\ Reached(p))'
  BY <1>1, <1>8, <1>9 DEF OrderInv
<1>13. Place' \in {"finish", "return"} /\ ret' => \E p \in 0..at' : \E f : Traced(f, p)'
  <2>1. 0..at \subseteq 0..at'
    BY <1>1, <1>2
  <2> QED BY <1>1, <1>5, <2>1 DEF OrderInv
<1> QED BY <1>10, <1>11, <1>12, <1>13 DEF OrderInv

LEMMA OrderStep ==
    ASSUME IInv, Scalars, Contents, LengthInv, LengthInv', OrderInv, [Next]_vars
    PROVE  OrderInv'
BY RequestKeepsOrder, LineKeepsOrder, HeadKeepsOrder, ContentKeepsOrder, ChunkKeepsOrder,
   EndKeepsOrder, NodeKeepsOrder DEF Next, Step

(* What the assigner gets is what the node sent behind its lines, in the order *)
(* it was sent: SocketStream::read, and what reads lines and content by it.    *)
THEOREM BodiesAreAsSent == Spec => []BodyIsAsSent
<1>1. Init => OrderInv
  BY DEF Init, OrderInv, Place, Receiving, Reading, Connecting, Opening
<1>2. Scalars /\ Contents /\ OrderInv => BodyIsAsSent
  <2> SUFFICES ASSUME Scalars, Contents, OrderInv, pc = "return", ret
               PROVE  \E f \in [DOMAIN res.body -> {i \in 1..at : resp.wire[i] \in ToSet(res.body)}] :
                         \A k \in DOMAIN res.body :
                             /\ res.body[k] = resp.wire[f[k]]
                             /\ \/ Adjoins(f, k)
                                \/ BehindLine(f, k) /\ (k = 1 \/ IsChunked(res.headers))
    BY DEF BodyIsAsSent
  <2>1. PICK p, f : p \in 0..at /\ Traced(f, p)
    BY DEF OrderInv, Place
  <2>2. PICK b \in Seq(Piece) : b = res.body
    BY ResponseUpdates DEF Contents
  <2>3. DOMAIN b = 1..Len(b)
    OBVIOUS
  <2>4. at \in Nat /\ 1..p \subseteq 1..at
    <3>1. at \in Nat
      BY SizesAreNat DEF Scalars
    <3> QED BY <2>1, <3>1
  <2>5. \A k \in DOMAIN b : f[k] \in 1..at /\ resp.wire[f[k]] \in ToSet(b)
    BY <2>1, <2>2, <2>3, <2>4 DEF Traced, ToSet
  <2>6. f \in [DOMAIN b -> {i \in 1..at : resp.wire[i] \in ToSet(b)}]
    <3>1. f \in [DOMAIN b -> 1..p]
      BY <2>1, <2>2, <2>3, Zenon DEF Traced
    <3> QED BY <2>5, <3>1
  <2> QED BY <2>1, <2>2, <2>3, <2>6 DEF Traced
<1>3. Spec => [](Scalars /\ Contents)
  BY ScalarsInit, ScalarsStep, ContentsInit, ContentsStep, Invariance, PTL DEF Spec
<1> QED BY <1>1, <1>2, <1>3, LengthInvariance, OrderStep, Invariance, PTL DEF Spec

================================================================================
