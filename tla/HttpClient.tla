------------------------------ MODULE HttpClient ------------------------------
(*****************************************************************************)
(* One call by RPC: data_extractor::get_* makes an httplib::Client, posts    *)
(* its request and hands the body of the response to the assigner.  The      *)
(* client path of httplib is followed from the resolution of the host to the *)
(* closing of the socket, with the settings data_extractor leaves at their   *)
(* defaults: no TLS, proxy, compression, redirection or keep-alive.          *)
(*                                                                           *)
(* A response comes in pieces: the text of a line, its terminator, and units *)
(* of content, of a byte each, so that only getline, which never goes beyond *)
(* a terminator, meets longer ones.  The connection may end, break or stall  *)
(* between any two of them.  A timeout may expire whenever select() would    *)
(* wait.                                                                     *)
(*****************************************************************************)
EXTENDS HttpText

CONSTANTS
    Responses,   \* what the node may answer
    MaxAddrs,    \* how many addresses the host may have
    BodyLen,     \* pieces of the body of the request
    ReadBuff,    \* SocketStream::read_buff_size_
    RecvBuff,    \* CPPHTTPLIB_RECV_BUFSIZ
    HeaderMaxLength  \* CPPHTTPLIB_HEADER_MAX_LENGTH

VARIABLES
    pc,          \* where the call is
    resp,        \* what the node answers to it
    answer,      \* what the call has given to the assigner
    addrs,       \* addresses of the host still to be tried
    error,
    ret,         \* what process_socket returned
    open,        \* how many sockets the process has open
    held,        \* whether socket_.sock is one of them
    peer,        \* the other end of the connection
    sent,        \* pieces of the head and of the body of the request sent
    at,          \* pieces of the response that have arrived
    kern,        \* pieces received and not yet read from the socket
    rbuf,        \* the unread part of SocketStream::read_buff_
    line,        \* the line stream_line_reader is reading
    point,       \* what the line is read for
    need,        \* what read_content_with_length still has to read
    res          \* the Response

node == <<peer, at>>
conn == <<addrs, open, held>>
strm == <<kern, rbuf>>
vars == <<pc, resp, answer, error, ret, node, conn, strm, sent, line, point, need, res>>

Client == INSTANCE Rpc WITH Errors <- {"Connection", "ConnectionTimeout", "Read", "Write"}

\* ---------------------------------------------------------------- data types

Piece == Seq(Byte)

ASSUME SizesAssumption ==
    /\ MaxAddrs \in Nat /\ BodyLen \in Nat \ {0} /\ HeaderMaxLength \in Nat
    /\ ReadBuff \in Nat \ {0, 1} /\ RecvBuff \in Nat /\ RecvBuff >= ReadBuff

ASSUME ResponsesAssumption ==
    \A r \in Responses : /\ r.wire \in Seq(Piece \ {<<>>}) /\ r.content \in Seq(Piece)
                         /\ \A i \in DOMAIN r.content : Len(r.content[i]) = 1
                         /\ r.framing \in {"sized", "close"}

Error == {"Success", "Unknown", "Connection", "ConnectionTimeout", "Read", "Write"}

NewResponse == [minor |-> 1, status |-> -1, reason |-> <<>>, headers |-> <<>>, body |-> <<>>]

Lesser(m, n) == IF m < n THEN m ELSE n

(* What a Client is left at, where it says what becomes of a call. *)
Settings == [keepAlive |-> FALSE, decompress |-> TRUE]

(* write_request adds what the request lacks; Headers is ordered by name. *)
RequestHeaders ==
    <<"Accept", "Connection", "Content-Length", "Content-Type", "Host", "User-Agent">>

WriteHeaders(hs) == hs \o <<"">>

(* All of the head goes through a buffer before any of it is sent. *)
RequestHead == <<"POST / HTTP/1.1">> \o WriteHeaders(RequestHeaders)

HeadLen == Len(RequestHead)

TooLong(l) == Len(l) > HeaderMaxLength

(* The terminator is taken to be of two bytes. *)
AddHeader(hs, l) == hs \o ParseHeader(SubSeq(l, 1, Len(l) - 2))

\* ------------------------------------------------------------------ the socket

\* Reports as many pieces as were asked for.
FromBufferInFull(size) ==
    LET n == Lesser(size, Len(rbuf))
    IN  [n |-> size, got |-> SubSeq(rbuf, 1, n),
         rbuf |-> SubSeq(rbuf, n + 1, Len(rbuf)), kern |-> kern]

(* What SocketStream::read(size) may do: n is what it returns.  It takes what
   is left in its buffer without a look at the socket; then it waits for the
   socket and either fills the buffer or, for large sizes, goes around it. *)
Unreadable == [n |-> -1, got |-> <<>>, rbuf |-> rbuf, kern |-> kern]

FromBuffer(size) ==
    LET n == Lesser(size, Len(rbuf))
    IN  [n |-> n, got |-> SubSeq(rbuf, 1, n),
         rbuf |-> SubSeq(rbuf, n + 1, Len(rbuf)), kern |-> kern]

(* recv(), called again when a signal interrupts it. *)
Recv(limit) == Lesser(limit, Len(kern))

FromSocket(size) ==
    LET n == Recv(IF size < ReadBuff THEN ReadBuff ELSE size)
        m == Lesser(size, n)
    IN  [n |-> m, got |-> SubSeq(kern, 1, m),
         rbuf |-> SubSeq(kern, m + 1, n), kern |-> SubSeq(kern, n + 1, Len(kern))]

\* Looks at the socket first.
ReadPastBuffer(size) ==
    IF kern # <<>> THEN FromSocket(size)
    ELSE IF rbuf # <<>> THEN FromBuffer(size)
    ELSE IF peer = "fin" THEN [Unreadable EXCEPT !.n = 0]
    ELSE Unreadable

Read(size) ==
    IF rbuf # <<>> THEN FromBuffer(size)
    ELSE IF kern # <<>> THEN FromSocket(size)
    ELSE IF peer = "fin" THEN [Unreadable EXCEPT !.n = 0]
    ELSE Unreadable          \* the timeout of select_read, or a broken connection

(* ClientImpl::close_socket after shutdown_socket: not twice. *)
CloseSocket ==
    /\ held' = FALSE
    /\ open' = IF held THEN open - 1 ELSE open
    /\ peer' = IF held THEN "none" ELSE peer
    /\ kern' = <<>>

\* --------------------------------------------------------------- the connection

NewRequest == [head |-> 0, body |-> 0]

(* The two calls of data_extractor differ in the text of the request only;
   each has a client of its own. *)
MakeClient ==
    /\ pc = "idle"
    /\ pc' = "made"
    /\ held' = FALSE
    /\ resp' \in Responses
    /\ at' = 0
    /\ answer' = Client!Pending
    /\ UNCHANGED <<error, ret, peer, addrs, open, strm, sent, line, point, need, res>>

Post ==
    /\ pc = "made"
    /\ pc' = "resolve"
    /\ error' = "Success"
    /\ ret' = FALSE
    /\ sent' = NewRequest
    /\ line' = <<>>
    /\ need' = 0
    /\ res' = NewResponse
    /\ UNCHANGED <<resp, answer, node, conn, strm, point>>

(* What getaddrinfo finds, if anything. *)
HostAddresses == 0..MaxAddrs

Resolve ==
    /\ pc = "resolve"
    /\ addrs' \in HostAddresses
    /\ pc' = "socket"
    /\ UNCHANGED <<resp, answer, error, ret, node, open, held, strm, sent, line, point, need, res>>

(* socket() or fcntl() may fail; the loop goes on with the next address. *)
OpenSocket ==
    /\ pc = "socket" /\ addrs > 0
    /\ \/ pc' = "connect" /\ open' = open + 1 /\ UNCHANGED addrs
       \/ pc' = "socket" /\ addrs' = addrs - 1 /\ UNCHANGED open
    /\ UNCHANGED <<resp, answer, error, ret, node, held, strm, sent, line, point, need, res>>

\* Forgets close_socket before the next address.
ConnectFailsOpen(e) ==
    /\ pc' = "socket"
    /\ error' = e
    /\ addrs' = addrs - 1
    /\ UNCHANGED <<open, held, peer>>

(* bind_or_connect succeeded: only now does the error of an address tried
   before go. *)
Connected ==
    /\ pc' = "connected"
    /\ error' = "Success"
    /\ held' = TRUE
    /\ peer' = "up"
    /\ UNCHANGED <<open, addrs>>

ConnectFails(e) ==
    /\ pc' = "socket"
    /\ error' = e
    /\ open' = open - 1
    /\ addrs' = addrs - 1
    /\ UNCHANGED <<held, peer>>

Connect ==
    /\ pc = "connect"
    /\ \/ Connected
       \/ ConnectFails("Connection")
       \/ pc' = "wait" /\ UNCHANGED <<error, conn, peer>>
    /\ UNCHANGED <<resp, answer, ret, at, strm, sent, line, point, need, res>>

WaitUntilReady ==
    /\ pc = "wait"
    /\ \/ Connected
       \/ \E e \in {"Connection", "ConnectionTimeout"} : ConnectFails(e)
    /\ UNCHANGED <<resp, answer, ret, at, strm, sent, line, point, need, res>>

(* A SocketStream begins with an empty buffer. *)
NewStream == rbuf' = <<>>

ProcessSocket ==
    /\ pc = "connected"
    /\ pc' = "writable"
    /\ NewStream
    /\ UNCHANGED <<resp, answer, error, ret, node, conn, kern, sent, line, point, need, res>>

(* No address is left: send_ returns before it sets up the closing. *)
NoSocket ==
    /\ pc = "socket" /\ addrs = 0
    /\ pc' = "return"
    /\ error' = IF error = "Success" THEN "Connection" ELSE error
    /\ UNCHANGED <<resp, answer, ret, node, conn, strm, sent, line, point, need, res>>

\* ------------------------------------------------------------------ the request

Fail(e) == pc' = "finish" /\ ret' = FALSE /\ error' = e

(* is_socket_alive peeks: what has arrived hides that the peer has closed. *)
IsSocketAlive == kern # <<>> \/ peer = "up"

(* select_write finds room in time, or not. *)
SelectWrite == BOOLEAN

\* Takes a socket that cannot be written to for one that was not connected.
IsConnected ==
    /\ pc = "writable"
    /\ \E ready \in SelectWrite :
          IF ready /\ IsSocketAlive THEN pc' = "send" /\ UNCHANGED <<ret, error>>
                                   ELSE Fail("Connection")
    /\ UNCHANGED <<resp, answer, node, conn, strm, sent, line, point, need, res>>

IsWritable ==
    /\ pc = "writable"
    /\ \E ready \in SelectWrite :
          IF ready /\ IsSocketAlive THEN pc' = "send" /\ UNCHANGED <<ret, error>>
                                   ELSE Fail("Write")
    /\ UNCHANGED <<resp, answer, node, conn, strm, sent, line, point, need, res>>

Sent(n) ==
    IF sent.head < HeadLen
    THEN /\ n <= HeadLen - sent.head
         /\ sent' = [sent EXCEPT !.head = @ + n]
    ELSE /\ n <= BodyLen - sent.body
         /\ sent' = [sent EXCEPT !.body = @ + n]

RequestIsSent(s) == s.head = HeadLen /\ s.body = BodyLen

(* The loop of write_data: send() may take a part only. *)
Send ==
    /\ pc = "send"
    /\ peer # "rst"
    /\ \E n \in 1..(HeadLen + BodyLen) : Sent(n)
    /\ pc' = IF RequestIsSent(sent') THEN "line" ELSE "writable"
    /\ point' = "status"
    /\ UNCHANGED <<resp, answer, error, ret, node, conn, strm, line, need, res>>

SendFails ==
    /\ pc = "send"
    /\ Fail("Write")
    /\ UNCHANGED <<resp, answer, node, conn, strm, sent, line, point, need, res>>

(* The flags of send() are 0 and the client leaves SIGPIPE alone, so that a
   connection broken since the check ends the process. *)
BrokenPipe ==
    /\ pc = "send"
    /\ peer = "rst"
    /\ pc' = "killed"
    /\ answer' = Client!Killed
    /\ held' = FALSE /\ open' = 0
    /\ UNCHANGED <<resp, error, ret, node, addrs, strm, sent, line, point, need, res>>

\* ----------------------------------------------------------------- the response

NextLine(p) == pc' = "line" /\ point' = p /\ line' = <<>>

(* One round of getline: a read of one byte. *)
GetLine ==
    /\ pc = "line"
    /\ LET r == Read(1) IN
       /\ rbuf' = r.rbuf /\ kern' = r.kern
       /\ IF r.n = 1
          THEN /\ line' = line \o r.got[1]
               /\ pc' = IF Last(r.got[1]) = LF THEN point ELSE "line"
               /\ UNCHANGED <<ret, error>>
          ELSE /\ UNCHANGED line
               /\ IF r.n = 0 /\ line # <<>>
                  THEN pc' = point /\ UNCHANGED <<ret, error>>
                  ELSE Fail("Read")
    /\ UNCHANGED <<resp, answer, node, conn, sent, point, need, res>>

(* After "100 Continue" a line is skipped and a status line must follow. *)
ReadResponseLine ==
    /\ \/ /\ pc = "status" /\ IsStatusLine(line)
          /\ LET s == StatusLine(line) IN
                /\ res' = [res EXCEPT !.minor = s.minor, !.status = s.status,
                                     !.reason = s.reason]
                /\ NextLine(IF s.status = 100 THEN "continue" ELSE "header")
          /\ UNCHANGED <<ret, error>>
       \/ /\ pc = "status" /\ ~ IsStatusLine(line)
          /\ Fail("Read") /\ UNCHANGED <<line, point, res>>
       \/ /\ pc = "continue"
          /\ NextLine("status") /\ UNCHANGED <<res, ret, error>>
    /\ UNCHANGED <<resp, answer, node, conn, strm, sent, need>>

ReadHeaders ==
    /\ pc = "header"
    /\ \/ line = <<CR, LF>> /\ pc' = "content" /\ UNCHANGED <<line, point, res, ret, error>>
       \/ ~ EndsWithCrlf(line) /\ NextLine("header") /\ UNCHANGED <<res, ret, error>>
       \/ EndsWithCrlf(line) /\ TooLong(line) /\ Fail("Read") /\ UNCHANGED <<line, point, res>>
       \/ /\ EndsWithCrlf(line) /\ line # <<CR, LF>> /\ ~ TooLong(line)
          /\ res' = [res EXCEPT !.headers = AddHeader(@, line)]
          /\ NextLine("header")
          /\ UNCHANGED <<ret, error>>
    /\ UNCHANGED <<resp, answer, node, conn, strm, sent, need>>

Succeed == pc' = "handle" /\ UNCHANGED <<ret, error>>

(* The content goes to a decompressor or, as none is compiled in, nowhere. *)
IsUnreadable(hs) == Settings.decompress /\ IsCompressed(hs)

ReadContent ==
    /\ pc = "content"
    /\ LET hs == res.headers
           sized == ~ IsChunked(hs) /\ HasHeader(hs, ContentLengthKey)
       IN  \/ res.status = 204 /\ Succeed /\ UNCHANGED <<line, point, need>>
           \/ res.status # 204 /\ IsUnreadable(hs) /\ Fail("Read") /\ UNCHANGED <<line, point, need>>
           \/ /\ res.status # 204 /\ ~ IsUnreadable(hs)
              /\ \/ IsChunked(hs) /\ NextLine("chunk") /\ UNCHANGED <<need, ret, error>>
                 \/ /\ ~ IsChunked(hs) /\ ~ sized
                    /\ pc' = "drain" /\ UNCHANGED <<line, point, need, ret, error>>
                 \/ /\ sized
                    /\ need' = ContentLength(hs)
                    /\ IF ContentLength(hs) = 0 THEN Succeed
                                                ELSE pc' = "data" /\ UNCHANGED <<ret, error>>
                    /\ UNCHANGED <<line, point>>
    /\ UNCHANGED <<resp, answer, node, conn, strm, sent, res>>

Received(got) == res' = [res EXCEPT !.body = @ \o got]

\* Reads as much as there is.
ReadContentBeyondLength ==
    /\ pc = "data"
    /\ LET r == Read(RecvBuff) IN
       /\ rbuf' = r.rbuf /\ kern' = r.kern
       /\ IF r.n <= 0
          THEN Fail("Read") /\ UNCHANGED <<line, point, need, res>>
          ELSE /\ Received(r.got)
               /\ need' = need - r.n
               /\ IF need' > 0 THEN UNCHANGED <<pc, line, point, ret, error>>
                  ELSE IF IsChunked(res.headers)
                       THEN NextLine("chunkEnd") /\ UNCHANGED <<ret, error>>
                       ELSE Succeed /\ UNCHANGED <<line, point>>
    /\ UNCHANGED <<resp, answer, node, conn, sent>>

(* One round of the loop of read_content_with_length. *)
ReadContentWithLength ==
    /\ pc = "data"
    /\ LET r == Read(Lesser(need, RecvBuff)) IN
       /\ rbuf' = r.rbuf /\ kern' = r.kern
       /\ IF r.n <= 0
          THEN Fail("Read") /\ UNCHANGED <<line, point, need, res>>
          ELSE /\ Received(r.got)
               /\ need' = need - r.n
               /\ IF need' > 0 THEN UNCHANGED <<pc, line, point, ret, error>>
                  ELSE IF IsChunked(res.headers)
                       THEN NextLine("chunkEnd") /\ UNCHANGED <<ret, error>>
                       ELSE Succeed /\ UNCHANGED <<line, point>>
    /\ UNCHANGED <<resp, answer, node, conn, sent>>

\* Goes on after a timeout.
ReadContentPatiently ==
    /\ pc = "drain"
    /\ LET r == Read(RecvBuff) IN
       /\ rbuf' = r.rbuf /\ kern' = r.kern
       /\ IF r.n = 0 THEN Succeed /\ UNCHANGED res
                     ELSE Received(r.got) /\ UNCHANGED <<pc, ret, error>>
    /\ UNCHANGED <<resp, answer, node, conn, sent, line, point, need>>

(* Without a length, the end, a break and a timeout all are the end. *)
ReadContentWithoutLength ==
    /\ pc = "drain"
    /\ LET r == Read(RecvBuff) IN
       /\ rbuf' = r.rbuf /\ kern' = r.kern
       /\ IF r.n <= 0 THEN Succeed /\ UNCHANGED res
                      ELSE Received(r.got) /\ UNCHANGED <<pc, ret, error>>
    /\ UNCHANGED <<resp, answer, node, conn, sent, line, point, need>>

(* The greatest number stands for one that is too large. *)
ReadChunk ==
    /\ pc = "chunk"
    /\ LET chunk == Unsigned(16)[line]
       IN  IF chunk.found /\ chunk.value # MaxUnsigned
           THEN /\ UNCHANGED <<ret, error>>
                /\ IF chunk.value = 0 THEN NextLine("trailer") /\ UNCHANGED need
                   ELSE pc' = "data" /\ need' = chunk.value /\ UNCHANGED <<line, point>>
           ELSE Fail("Read") /\ UNCHANGED <<line, point, need>>
    /\ UNCHANGED <<resp, answer, node, conn, strm, sent, res>>

EndChunk ==
    /\ pc = "chunkEnd"
    /\ IF line = <<CR, LF>> THEN NextLine("chunk") /\ UNCHANGED <<ret, error>>
                          ELSE Fail("Read") /\ UNCHANGED <<line, point>>
    /\ UNCHANGED <<resp, answer, node, conn, strm, sent, need, res>>

ReadTrailer ==
    /\ pc = "trailer"
    /\ IF line = <<CR, LF>> THEN Succeed /\ UNCHANGED <<line, point, res>>
       ELSE IF TooLong(line) THEN Fail("Read") /\ UNCHANGED <<line, point, res>>
       ELSE /\ res' = [res EXCEPT !.headers = AddHeader(@, line)]
            /\ NextLine("trailer")
            /\ UNCHANGED <<ret, error>>
    /\ UNCHANGED <<resp, answer, node, conn, strm, sent, need>>

\* ------------------------------------------------------------ the end of a call

(* handle_request closes by itself if the node said it would close. *)
HandleResponse ==
    /\ pc = "handle"
    /\ pc' = "finish"
    /\ ret' = TRUE
    /\ IF GetHeaderValue(res.headers, ConnectionKey) = Close
          \/ (res.minor = 0 /\ res.reason # Established)
       THEN CloseSocket ELSE UNCHANGED <<held, open, peer, kern>>
    /\ UNCHANGED <<resp, answer, error, addrs, at, rbuf, sent, line, point, need, res>>

(* The scope_exit of send_. *)
FinishRequest ==
    /\ pc = "finish"
    /\ pc' = "return"
    /\ IF ~ Settings.keepAlive \/ ~ ret THEN CloseSocket ELSE UNCHANGED <<held, open, peer, kern>>
    /\ error' = IF ~ ret /\ error = "Success" THEN "Unknown" ELSE error
    /\ UNCHANGED <<resp, answer, ret, addrs, at, rbuf, sent, line, point, need, res>>

Result == IF ret THEN Client!Ok(res.body) ELSE Client!Err(error)

(* Any response is a success to data_extractor, whatever its status. *)
Return ==
    /\ pc = "return"
    /\ pc' = "destroy"
    /\ answer' = Result
    /\ UNCHANGED <<resp, error, ret, node, conn, strm, sent, line, point, need, res>>

(* The client goes out of scope, and with it a socket it still holds. *)
DestroyClient ==
    /\ pc = "destroy"
    /\ pc' = "idle"
    /\ CloseSocket
    /\ UNCHANGED <<resp, answer, error, ret, addrs, at, rbuf, sent, line, point, need, res>>

\* --------------------------------------------------------------- the other end

(* The node answers in its own time, even before it has the whole request. *)
Deliver ==
    /\ peer = "up" /\ at < Len(resp.wire)
    /\ at' = at + 1
    /\ kern' = Append(kern, resp.wire[at + 1])
    /\ UNCHANGED <<pc, resp, answer, error, ret, peer, conn, rbuf, sent, line, point, need, res>>

PeerCloses ==
    /\ peer = "up"
    /\ peer' = "fin"
    /\ UNCHANGED <<pc, resp, answer, error, ret, at, conn, strm, sent, line, point, need, res>>

(* A reset may take what was received with it. *)
PeerResets ==
    /\ peer \in {"up", "fin"}
    /\ peer' = "rst"
    /\ kern' \in {kern, <<>>}
    /\ UNCHANGED <<pc, resp, answer, error, ret, at, conn, rbuf, sent, line, point, need, res>>

Init ==
    /\ pc = "idle" /\ resp \in Responses /\ answer = Client!None
    /\ addrs = 0 /\ error = "Success" /\ ret = FALSE /\ open = 0 /\ held = FALSE
    /\ peer = "none" /\ sent = NewRequest /\ at = 0
    /\ kern = <<>> /\ rbuf = <<>> /\ line = <<>> /\ point = "status" /\ need = 0
    /\ res = NewResponse

(* What the thread of the assigner does once it has called. *)
Step ==
    \/ Post \/ Resolve \/ OpenSocket \/ Connect \/ WaitUntilReady \/ NoSocket
    \/ ProcessSocket \/ IsWritable \/ Send \/ SendFails \/ BrokenPipe
    \/ GetLine \/ ReadResponseLine \/ ReadHeaders \/ ReadContent
    \/ ReadContentWithLength \/ ReadContentWithoutLength
    \/ ReadChunk \/ EndChunk \/ ReadTrailer
    \/ HandleResponse \/ FinishRequest \/ Return \/ DestroyClient

Next == MakeClient \/ Step \/ Deliver \/ PeerCloses \/ PeerResets

Spec == Init /\ [][Next]_vars /\ WF_vars(Step)

\* ------------------------------------------------------------------- properties

(* The variables keep their types. *)
TypeOK ==
    /\ pc \in {"idle", "made", "resolve", "socket", "connect", "wait", "connected", "writable", "send", "line",
              "status", "continue", "header", "content", "data", "drain", "chunk",
              "chunkEnd", "trailer", "handle", "finish", "return", "destroy", "killed"}
    /\ point \in {"status", "continue", "header", "chunk", "chunkEnd", "trailer"}
    /\ resp \in Responses
    /\ error \in Error /\ ret \in BOOLEAN /\ held \in BOOLEAN
    /\ addrs \in 0..MaxAddrs /\ open \in 0..1 /\ need \in Nat
    /\ peer \in {"none", "up", "fin", "rst"}
    /\ sent \in [head : 0..HeadLen, body : 0..BodyLen]
    /\ at \in 0..Len(resp.wire)
    /\ kern \in Seq(Piece) /\ rbuf \in Seq(Piece) /\ line \in Piece
    /\ res.headers \in Seq([key : Piece, val : Piece]) /\ res.body \in Seq(Piece)

(* The many ways out of a call - an address that refuses, a timeout, a node
   that closes early, the node's own announcement that it will close - all
   close the socket, and none closes it twice: between calls the process has
   no socket of a client open.  An account is fetched with a client of its own,
   so a leak would grow with the block. *)
NoSocketLeft ==
    /\ pc \in {"idle", "killed"} => open = 0
    /\ held => open = 1

(* An error that says the connection failed is given only if nothing of the
   request has been sent, whatever the addresses tried before did: the error
   of one address does not survive the success of another. *)
ConnectionErrorIsClean ==
    answer.kind \in {"Connection", "ConnectionTimeout"} => sent = NewRequest

(* A response that says how long it is is handed to the assigner only with
   that many units of content, and only after the whole request was sent, in
   whatever pieces both came and wherever the connection broke. *)
LengthIsMet ==
    pc = "return" /\ ret =>
        /\ RequestIsSent(sent)
        /\ (/\ res.status # 204 /\ ~ IsChunked(res.headers)
            /\ HasHeader(res.headers, ContentLengthKey))
           => Len(res.body) = ContentLength(res.headers)

(* f gives the places of pieces of content in the response: that of the k-th is
   right after the one before, or further on, right behind a line. *)
Adjoins(f, k) == k > 1 /\ f[k] = f[k - 1] + 1

BehindLine(f, k) ==
    /\ f[k] > 1 /\ Last(resp.wire[f[k] - 1]) = LF
    /\ k > 1 => f[k - 1] < f[k]

(* Between the socket and the body a piece passes two buffers, and lines and
   content are read through the same ones, in steps of different sizes: what
   the assigner gets is what was sent behind the blank line, or, in chunks,
   behind their lines, in the order it was sent, nothing left out or twice. *)
BodyIsAsSent ==
    pc = "return" /\ ret =>
        \E f \in [DOMAIN res.body -> {i \in 1..at : resp.wire[i] \in ToSet(res.body)}] :
            \A k \in DOMAIN res.body :
                /\ res.body[k] = resp.wire[f[k]]
                /\ \/ Adjoins(f, k)
                   \/ BehindLine(f, k) /\ (k = 1 \/ IsChunked(res.headers))

(* A call is answered once, with the whole content of a response that says
   where it ends, a beginning of it if it does not, or an error with a name;
   and it is answered, as every wait has a timeout. *)
AnswersLikeRpc == Client!RpcSpec

===============================================================================
