------------------------------- MODULE HttpText -------------------------------
(*****************************************************************************)
(* What httplib makes of the text of a response: lines are sequences of      *)
(* bytes.  The values of headers are percent-decoded before they are used,   *)
(* names are compared without regard to case, numbers end where their digits *)
(* do.                                                                       *)
(*****************************************************************************)
EXTENDS Integers, Sequences, SequencesExt

CONSTANT MaxUnsigned     \* ULONG_MAX, the greatest uint64_t

ASSUME MaxUnsignedAssumption == MaxUnsigned \in Nat \ {0}

Byte == 0..255
Text == Seq(Byte)

LF      == 10
CR      == 13
Percent == 37
Colon   == 58
Blanks  == {9, 32}                       \* is_space_or_tab
Spaces  == 9..13 \cup {32}               \* isspace, where numbers start
Digits  == 48..57

\* "Content-Length", "Transfer-Encoding", "Content-Encoding", "Connection",
\* "Location"; "HTTP/1.", "chunked", "gzip", "deflate", "br", "close" and
\* "Connection established".
ContentLengthKey    == <<67,111,110,116,101,110,116,45,76,101,110,103,116,104>>
TransferEncodingKey == <<84,114,97,110,115,102,101,114,45,69,110,99,111,100,105,110,103>>
ContentEncodingKey  == <<67,111,110,116,101,110,116,45,69,110,99,111,100,105,110,103>>
ConnectionKey       == <<67,111,110,110,101,99,116,105,111,110>>
LocationKey         == <<76,111,99,97,116,105,111,110>>
HttpOne             == <<72,84,84,80,47,49,46>>
Chunked             == <<99,104,117,110,107,101,100>>
Gzip                == <<103,122,105,112>>
Deflate             == <<100,101,102,108,97,116,101>>
Br                  == <<98,114>>
Close               == <<99,108,111,115,101>>
Established         == ConnectionKey \o <<32,101,115,116,97,98,108,105,115,104,101,100>>

(* How many bytes at the start of a text are in S. *)
Span(S) ==
    [s \in Text |-> CHOOSE n \in 0..Len(s) : /\ \A i \in 1..n : s[i] \in S
                                             /\ n < Len(s) => s[n + 1] \notin S]

Drop(s, n) == SubSeq(s, n + 1, Len(s))

\* ------------------------------------------------------------------ comparison

ToLower(c) == IF c \in 65..90 THEN c + 32 ELSE c

CompareCaseIgnore(a, b) ==
    Len(a) = Len(b) /\ \A i \in DOMAIN a : ToLower(a[i]) = ToLower(b[i])

(* The order of Headers: lexicographic, in lower case. *)
Before(a, b) ==
    \E n \in 0..(Len(b) - 1) :
        /\ n <= Len(a)
        /\ \A i \in 1..n : ToLower(a[i]) = ToLower(b[i])
        /\ n < Len(a) => ToLower(a[n + 1]) < ToLower(b[n + 1])

SameKey(a, b) == ~ Before(a, b) /\ ~ Before(b, a)

\* -------------------------------------------------------------------- decoding

HexDigits == Digits \cup 65..70 \cup 97..102

IsHex(c) == c \in HexDigits

HexValue(c) == CASE c \in Digits  -> c - 48
                 [] c \in 65..70  -> c - 55
                 [] c \in 97..102 -> c - 87

(* The number that digits write. *)
Number(base) == [ds \in Seq(HexDigits) |->
    LET v[n \in 0..Len(ds)] == IF n = 0 THEN 0 ELSE base * v[n - 1] + HexValue(ds[n])
    IN  v[Len(ds)]]

NotHex == -1

(* The number that the cnt digits at i write, if they are all there. *)
FromHexToI(s, i, cnt) ==
    IF i + cnt - 1 <= Len(s) /\ \A j \in i..(i + cnt - 1) : IsHex(s[j])
    THEN Number(16)[SubSeq(s, i, i + cnt - 1)]
    ELSE NotHex

(* Surrogates have no encoding of their own. *)
ToUtf8(code) ==
    IF code < 128 THEN <<code>>
    ELSE IF code < 2048 THEN <<192 + (code \div 64), 128 + (code % 64)>>
    ELSE IF code \in 55296..57343 THEN <<>>
    ELSE <<224 + (code \div 4096), 128 + ((code \div 64) % 64), 128 + (code % 64)>>

(* %XX is a byte and %uXXXX a character; a percent sign without its digits
   stands for itself. *)
DecodeUrl[s \in Text] ==
    LET At(i)   == i < Len(s) /\ s[i] = Percent
        Wide(i) == FromHexToI(s, i + 2, 4)
        Byte2(i) == FromHexToI(s, i + 1, 2)
        from[i \in 1..(Len(s) + 1)] ==
            IF i > Len(s) THEN <<>>
            ELSE IF At(i) /\ s[i + 1] = 117 /\ Wide(i) # NotHex
                 THEN ToUtf8(Wide(i)) \o from[i + 6]
            ELSE IF At(i) /\ s[i + 1] # 117 /\ Byte2(i) # NotHex
                 THEN <<Byte2(i)>> \o from[i + 3]
            ELSE <<s[i]>> \o from[i + 1]
    IN  from[1]

\* --------------------------------------------------------------------- numbers

AfterSpaces[s \in Text] == Drop(s, Span(Spaces)[s])

Signed(s)   == s # <<>> /\ s[1] \in {43, 45}
Negative(s) == s # <<>> /\ s[1] = 45

(* The digits after a sign and, in hexadecimal, after 0x. *)
DigitsOf(base) == [s \in Text |->
    LET u == Drop(s, IF Signed(s) THEN 1 ELSE 0)
    IN  IF base = 10 THEN SubSeq(u, 1, Span(Digits)[u])
        ELSE LET w == IF Len(u) > 2 /\ u[1] = 48 /\ u[2] \in {88, 120} /\ IsHex(u[3])
                      THEN Drop(u, 2) ELSE u
             IN  SubSeq(w, 1, Span(HexDigits)[w])]

(* strtoull and strtoul: the number at the start of s, after spaces.  One too
   large is the greatest, and a negative one is taken from beyond that. *)
Unsigned(base) == [s \in Text |->
    LET t  == AfterSpaces[s]
        ds == DigitsOf(base)[t]
        v  == Number(base)[ds]
    IN  [found |-> ds # <<>>,
         value |-> IF v > MaxUnsigned THEN MaxUnsigned
                   ELSE IF Negative(t) THEN (0 - v) % (MaxUnsigned + 1) ELSE v]]

\* --------------------------------------------------------------- lines, headers

(* A line without its terminator to the header it holds, if it holds one:
   a name, a colon and a value, which is not empty. *)
ParseHeader(text) ==
    LET t == SubSeq(text, 1, Len(text) - Span(Blanks)[Reverse(text)])
        n == Span(Byte \ {Colon})[t]
        rest == Drop(t, n + 1)
        value == Drop(rest, Span(Blanks)[rest])
        key == SubSeq(t, 1, n)
    IN  IF n = Len(t) \/ value = <<>> \/ key = <<>> THEN <<>>
        ELSE <<[key |-> key, val |-> IF CompareCaseIgnore(key, LocationKey)
                                     THEN value ELSE DecodeUrl[value]]>>

HasHeader(hs, key) == \E i \in DOMAIN hs : SameKey(hs[i].key, key)

(* The first of that name, up to a NUL. *)
GetHeaderValue(hs, key) ==
    IF ~ HasHeader(hs, key) THEN <<>>
    ELSE LET i == CHOOSE j \in DOMAIN hs : /\ SameKey(hs[j].key, key)
                                           /\ \A k \in 1..(j - 1) : ~ SameKey(hs[k].key, key)
         IN  SubSeq(hs[i].val, 1, Span(Byte \ {0})[hs[i].val])

ContentLength(hs) == Unsigned(10)[GetHeaderValue(hs, ContentLengthKey)].value

IsChunked(hs) == CompareCaseIgnore(GetHeaderValue(hs, TransferEncodingKey), Chunked)

(* Encodings that would be undone, if the library for it were compiled in. *)
IsCompressed(hs) ==
    LET e == GetHeaderValue(hs, ContentEncodingKey)
    IN  e \in {Gzip, Deflate} \/ \E i \in 1..(Len(e) - 1) : SubSeq(e, i, i + 1) = Br

EndsWithCrlf(b) == Len(b) >= 2 /\ SubSeq(b, Len(b) - 1, Len(b)) = <<CR, LF>>

(* The regular expression must match all of the line: version, status and,
   after one more space, a reason. *)
IsStatusLine(b) ==
    /\ Len(b) >= 14
    /\ SubSeq(b, 1, 7) = HttpOne /\ b[8] \in {48, 49} /\ b[9] = 32
    /\ \A i \in 10..12 : b[i] \in Digits
    /\ Len(b) = 14 \/ b[13] = 32
    /\ \A i \in 14..(Len(b) - 2) : b[i] \notin {CR, LF}
    /\ EndsWithCrlf(b)

StatusLine(b) ==
    [minor |-> b[8] - 48,
     status |-> 100 * (b[10] - 48) + 10 * (b[11] - 48) + b[12] - 48,
     reason |-> SubSeq(b, 14, Len(b) - 2)]

===============================================================================
