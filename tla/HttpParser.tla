----------------------------- MODULE HttpParser -----------------------------
(***************************************************************************)
(* http/http_parser.cpp over http11_parser.rl and httpclient_parser.rl:    *)
(* what is made of a message that arrives in several reads.  Every call of *)
(* execute() gets one read, forgets where the element it is in began, and  *)
(* the bytes of earlier reads are gone.  A head is a sequence of elements  *)
(* [kind, text], each followed by one more byte, where text is a sequence  *)
(* of parts a read may end between; a name is followed by its value.  cuts *)
(* are the bytes after which a read ended.                                 *)
(***************************************************************************)
EXTENDS Integers, Sequences, SequencesExt, FiniteSetsExt

El(kind, text) == [kind |-> kind, text |-> text]
End == El("end", <<>>)

\* The first byte of an element, and the byte that ends it.
Begin(head, i) == 1 + FoldLeft(LAMBDA n, e : n + Len(e.text) + 1, 0, SubSeq(head, 1, i - 1))
EndOf(head, i) == Begin(head, i) + Len(head[i].text)
Bytes(head) == EndOf(head, Len(head))

\* http_parser_execute: the first byte of the read that byte p is in.
ReadOf(cuts, p) == 1 + Max({0} \cup {c \in cuts : c < p})

\* MARK, PTR_TO, LEN: the callback runs at the byte that ends the element and is
\* given what is in that byte's read.
Seen(head, cuts, i) ==
    LET lost == ReadOf(cuts, EndOf(head, i)) - Begin(head, i)
    IN  SubSeq(head[i].text, IF lost > 0 THEN lost + 1 ELSE 1, Len(head[i].text))

\* query_start is the one mark that is kept: as an offset into a read that is
\* gone.  A negative length throws, and {} stands for that.
SeenQuery(head, cuts, i) ==
    LET offset == Begin(head, i) - ReadOf(cuts, Begin(head, i))
        from == ReadOf(cuts, EndOf(head, i)) + offset
    IN  IF from > EndOf(head, i) THEN {}
        ELSE {SubSeq(head[i].text, from - Begin(head, i) + 1, Len(head[i].text))}

\* http_field: field_len is 0 if the name ended in an earlier read, and the
\* header is left out; otherwise its value is there.
HasHeader(head, cuts, i) ==
    /\ head[i].kind = "name"
    /\ ReadOf(cuts, EndOf(head, i + 1)) <= EndOf(head, i)
    /\ Seen(head, cuts, i) # <<>>
\* setHeader: the last header of a name.
Headers(head, cuts) ==
    LET at == {i \in DOMAIN head : HasHeader(head, cuts, i)}
        last(n) == Max({i \in at : Seen(head, cuts, i) = n})
    IN  [n \in {Seen(head, cuts, i) : i \in at} |-> Seen(head, cuts, last(n) + 1)]

-----------------------------------------------------------------------------
(* Requests *)

\* CharsToHttpMethod: some methods end in the name of another one.
Methods == {<<"UN", "LOCK">>, <<"LOCK">>, <<"G", "ET">>}

\* on_request_version and on_response_version: strncmp over the length that was seen.
VersionOf(text) ==
    CASE text \in {<<"HTTP/1", ".1">>, <<>>} -> {17}
      [] text = <<"HTTP/1", ".0">> -> {16}
      [] OTHER -> {}

\* The callbacks of a request in their order; {} is an error or an exception,
\* which close the connection.
Parse(head, cuts) ==
    LET at(kind) == CHOOSE i \in DOMAIN head : head[i].kind = kind
        seen(kind) == Seen(head, cuts, at(kind))
        version == VersionOf(seen("version"))
        query == SeenQuery(head, cuts, at("query"))
    IN  IF seen("method") \notin Methods THEN {}
        ELSE {[method |-> seen("method"), path |-> seen("path"), query |-> q, version |-> v,
               headers |-> Headers(head, cuts)] : q \in query, v \in version}

\* HttpRequest::init: without the header the connection is closed.
Connection == <<"connection">>
IsClose(req) == ~(Connection \in DOMAIN req.headers /\ req.headers[Connection] = <<"keep-", "alive">>)

\* HttpConnectionPool::doRequest and HttpRequest::dump
RequestHead(method, version, name, value) ==
    <<El("method", method), El("path", <<"/a", "/b">>), El("query", <<"k=", "v">>), El("version", version),
      El("name", name), El("value", value),
      El("name", <<"content-", "length">>), El("value", <<"1", "2">>), End>>
PoolRequest == RequestHead(<<"G", "ET">>, <<"HTTP/1", ".1">>, Connection, <<"keep-", "alive">>)
RequestOutcome(cuts) ==
    LET parsed == Parse(PoolRequest, cuts)
    IN  IF parsed = {} THEN "error"
        ELSE IF \A req \in parsed : IsClose(req) THEN "close" ELSE "keep"

-----------------------------------------------------------------------------
(* Responses *)

\* on_response_status: atoi of what was seen, digits here.
StatusOf(text) == FoldLeft(LAMBDA n, d : 10 * n + d, 0, text)
ParseResponse(head, cuts) ==
    LET at(kind) == CHOOSE i \in DOMAIN head : head[i].kind = kind
        seen(kind) == Seen(head, cuts, at(kind))
    IN  {[version |-> v, status |-> StatusOf(seen("status")), reason |-> seen("reason"),
          headers |-> Headers(head, cuts)] : v \in VersionOf(seen("version"))}

\* HttpResponse::dump
Length == <<"content-", "length">>
ResponseHead(length) ==
    <<El("version", <<"HTTP/1", ".1">>), El("status", <<2, 0, 4>>), El("reason", <<"No ", "Content">>),
      El("name", <<"x-", "connection">>), El("value", <<"keep-", "alive">>)>>
    \o (IF length THEN <<El("name", Length), El("value", <<"1", "2">>)>> ELSE <<>>) \o <<End>>
\* The body is read if the length was seen.
ResponseOutcome(length, cuts) ==
    LET parsed == ParseResponse(ResponseHead(length), cuts)
    IN  IF parsed = {} THEN "error"
        ELSE IF \A rsp \in parsed : Length \in DOMAIN rsp.headers THEN "length" ELSE "none"

\* recvRequest, recvResponse: the bytes after the head that came with its last
\* read are the begin of the body, and what of them exceeds it is dropped.
BodyTaken(length, offset) == IF length > offset THEN length ELSE offset

-----------------------------------------------------------------------------
(* Chunked bodies: bytes are hexadecimal digits 0..15, CR, LF and others *)

CR == 16
LF == 17
IsHex(b) == b \in 0..15
SizeOf(digits) == FoldLeft(LAMBDA n, d : 16 * n + d, 0, digits)

\* execute(data, len, true) starts the parser anew for every read, so a header
\* that spans two reads is taken for what the last one holds.  <<size, next>>,
\* or {} for an error or the end of the connection.
ChunkHeader(stream, cuts) ==
    LET header[s \in 1..Len(stream) + 1] ==
            LET stop == Min({Len(stream)} \cup {c \in cuts : c >= s})
                last == Max({s - 1} \cup {e \in s..stop : \A i \in s..e : IsHex(stream[i])})
            IN  IF last < s THEN {}
                ELSE IF last = stop THEN header[stop + 1]
                ELSE IF stream[last + 1] # CR THEN {}
                ELSE IF last + 1 = stop THEN header[stop + 1]
                ELSE IF stream[last + 2] # LF THEN {}
                ELSE {<<SizeOf(SubSeq(stream, s, last)), last + 3>>}
    IN  header

\* The loop of recvResponse: a header, its data and two more bytes, until a
\* chunk of size 0.
ReadChunks(stream, cuts) ==
    LET header == ChunkHeader(stream, cuts)
        body[p \in 1..Len(stream) + 1] ==
            UNION {IF h[2] + h[1] + 1 > Len(stream) THEN {}
                   ELSE IF h[1] = 0 THEN {<<>>}
                   ELSE {SubSeq(stream, h[2], h[2] + h[1] - 1) \o b : b \in body[h[2] + h[1] + 2]} :
                   h \in header[p]}
    IN  body[1]

-----------------------------------------------------------------------------
(* What holds however a message is cut, and when it is not cut badly *)

CutsOf(n) == {{}} \cup {{i, j} : i, j \in 1..n - 1}     \* bound: up to three reads
Requests ==
    {RequestHead(m, v, n, c) : m \in {<<"UN", "LOCK">>, <<"G", "ET">>}, v \in {<<"HTTP/1", ".1">>, <<"HTTP/1", ".0">>},
                           n \in {Connection, <<"x-", "connection">>}, c \in {<<"keep-", "alive">>, <<"close">>}}
\* Reads that end between two elements, but not between a name and its value.
Between(head) == {EndOf(head, i) : i \in {j \in DOMAIN head : head[j].kind # "name"}}

\* A header that is given has the whole value of a header that was sent, under
\* an end of its name.
HeadersSent(head, headers) ==
    \A n \in DOMAIN headers : \E i \in DOMAIN head :
        head[i].kind = "name" /\ IsSuffix(n, head[i].text) /\ headers[n] = head[i + 1].text
HeadsInPieces ==
    /\ \A head \in Requests : \A cuts \in CutsOf(Bytes(head)) :
         /\ \A req \in Parse(head, cuts) : HeadersSent(head, req.headers)
         /\ cuts \subseteq Between(head) => Parse(head, cuts) = Parse(head, {}) /\ Parse(head, {}) # {}
    /\ \A length \in BOOLEAN : LET head == ResponseHead(length) IN \A cuts \in CutsOf(Bytes(head)) :
         /\ \A rsp \in ParseResponse(head, cuts) : HeadersSent(head, rsp.headers)
         /\ cuts \subseteq Between(head) => ParseResponse(head, cuts) = ParseResponse(head, {})

\* A chunked body is given as it was sent if no read ends in a chunk's header;
\* never is more given than was sent.
SentChunks == << <<<<0, 2>>, <<1, 30>>>>, <<<<1, 0>>, [i \in 1..16 |-> i]>>, <<<<0>>, <<>>>> >>
HeaderEnds == [i \in DOMAIN SentChunks |->
    Len(SentChunks[i][1]) + 2 + FoldLeft(LAMBDA n, c : n + Len(c[1]) + Len(c[2]) + 4, 0, SubSeq(SentChunks, 1, i - 1))]
InHeader(c) == \E i \in DOMAIN SentChunks : c \in HeaderEnds[i] - Len(SentChunks[i][1]) - 1 .. HeaderEnds[i] - 1
ChunksInPieces ==
    LET stream == FlattenSeq([i \in DOMAIN SentChunks |-> SentChunks[i][1] \o <<CR, LF>> \o SentChunks[i][2] \o <<CR, LF>>])
        sent == FlattenSeq([i \in DOMAIN SentChunks |-> SentChunks[i][2]])
    IN  \A cuts \in CutsOf(Len(stream)) :
          /\ (\A c \in cuts : ~InHeader(c)) => ReadChunks(stream, cuts) = {sent}
          /\ \A b \in ReadChunks(stream, cuts) : Len(b) <= Len(sent)
=============================================================================
