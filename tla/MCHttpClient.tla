----------------------------- MODULE MCHttpClient ------------------------------
(* Small instances of HttpClient for TLC.                                      *)
EXTENDS HttpClient

CRLF == <<CR, LF>>
Status(minor, code) == <<HttpOne \o <<48 + minor, 32, 48 + code \div 100,
                                      48 + ((code \div 10) % 10), 48 + (code % 10)>>, CRLF>>
Line(key, val) == key \o <<Colon, 32>> \o val
Header(key, val) == <<Line(key, val), CRLF>>
Data(m, n) == [i \in 1..(n - m + 1) |-> <<96 + m + i - 1>>]
Chunk(n, ds) == <<<<48 + n>>, CRLF>> \o ds \o <<CRLF>>
LastChunk == <<<<48>>, CRLF>>
Lower(s) == [i \in DOMAIN s |-> ToLower(s[i])]

Four       == <<37, 51, 52, 9>>          \* "%34" and a tab
OneWide    == <<37, 117, 48, 48, 51, 49>>  \* "%u0031"
MinusOne   == <<45, 49>>
Identity   == <<105, 100>>               \* an encoding that is none
LongValue  == [i \in 1..30 |-> 120]
TooMany    == <<49, 48, 48, 48>>         \* 1000 in hexadecimal: more than MaxUnsigned

\* A response after a 100 whose length is written with an escape; chunks with a
\* trailer; a response of HTTP/1.0 that ends with the connection; a length whose
\* line ends with a line feed only, which is skipped, and an announced close; an
\* encoded response; one without content; one of length 0 under another spelling
\* of the name; a header that is too long; a length below 0; a length as a wide
\* escape, with another after it that counts for nothing; a chunk too large.
MCResponses == {
    [framing |-> "sized", content |-> Data(1, 4),
     wire |-> Status(1, 100) \o <<CRLF>> \o Status(1, 200)
              \o Header(ContentLengthKey, Four) \o <<CRLF>> \o Data(1, 4)],
    [framing |-> "sized", content |-> Data(1, 3),
     wire |-> Status(1, 500) \o Header(TransferEncodingKey, [Chunked EXCEPT ![1] = 67]) \o <<CRLF>>
              \o Chunk(2, Data(1, 2)) \o Chunk(1, Data(3, 3)) \o LastChunk
              \o Header(ContentLengthKey, <<57>>) \o <<CRLF>>],
    [framing |-> "close", content |-> Data(1, 3),
     wire |-> Status(0, 200) \o <<CRLF>> \o Data(1, 3)],
    [framing |-> "close", content |-> Data(1, 2),
     wire |-> Status(1, 200) \o <<Line(ContentLengthKey, <<50>>), <<LF>>>>
              \o Header(ConnectionKey, Close) \o <<CRLF>> \o Data(1, 2)],
    [framing |-> "sized", content |-> Data(1, 1),
     wire |-> Status(1, 200) \o Header(ContentEncodingKey, Gzip)
              \o Header(ContentLengthKey, <<49>>) \o <<CRLF>> \o Data(1, 1)],
    [framing |-> "sized", content |-> <<>>,
     wire |-> Status(1, 204) \o <<CRLF>>],
    [framing |-> "sized", content |-> <<>>,
     wire |-> Status(1, 200) \o Header(Lower(ContentLengthKey), <<48>>)
              \o Header(ContentEncodingKey, Identity) \o <<CRLF>>],
    [framing |-> "sized", content |-> Data(1, 1),
     wire |-> Status(1, 200) \o Header(ConnectionKey, LongValue)
              \o Header(ContentLengthKey, <<49>>) \o <<CRLF>> \o Data(1, 1)],
    [framing |-> "sized", content |-> Data(1, 2),
     wire |-> Status(1, 200) \o Header(ContentLengthKey, MinusOne) \o <<CRLF>> \o Data(1, 2)],
    [framing |-> "sized", content |-> Data(1, 1),
     wire |-> Status(1, 200) \o Header(ContentLengthKey, OneWide)
              \o Header(ContentLengthKey, <<57>>) \o <<CRLF>> \o Data(1, 1)],
    [framing |-> "sized", content |-> Data(1, 1),
     wire |-> Status(1, 200) \o Header(TransferEncodingKey, Chunked) \o <<CRLF>>
              \o <<TooMany, CRLF>> \o Data(1, 1) \o <<CRLF>> \o LastChunk \o <<CRLF>>]}

================================================================================
