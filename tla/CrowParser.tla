------------------------------ MODULE CrowParser ------------------------------
(***************************************************************************)
(* How the bytes of a connection become requests.  The client's bytes      *)
(* come in reads that end anywhere, and one read may hold the end of a     *)
(* request, whole ones and the beginning of another.  http_parser_execute  *)
(* goes through a read byte by byte; what belongs together but lies in two *)
(* reads is handed to the callbacks of HTTPParser in two pieces.  A URL is *)
(* routed at every piece of it; a request is handled, and answered, inside *)
(* the callback of its last byte, which starts the parser over.            *)
(*                                                                         *)
(* The client sends the URL, a byte that stands for " HTTP/1.1" and the    *)
(* line end, the headers (field, colon, value, line end), a byte that      *)
(* stands for the end of the headers, and the body.  cursor is the next    *)
(* byte: [req, part, header, k], the k-th of that part of that request.    *)
(***************************************************************************)
EXTENDS Naturals, Sequences, FiniteSets

CONSTANTS
    Letters,     \* the characters
    Requests,    \* what a client may send
    Known,       \* the paths of the routes without parameter
    Files,       \* the character that stands for "/static/"
    MaxRequests  \* bound: requests of the connection

Mark == "?"

\* A path is not empty and ends where the query begins; a header has a name.
ASSUME CrowParserAssumption ==
    /\ MaxRequests \in Nat
    /\ Mark \in Letters
    /\ \A r \in Requests :
        /\ r \in [path : Seq(Letters), query : Seq(Letters), body : Seq(Letters), close : BOOLEAN,
                  headers : Seq([field : Seq(Letters), value : Seq(Letters)])]
        /\ r.path # <<>>
        /\ \A k \in DOMAIN r.path : r.path[k] # Mark
        /\ \A k \in DOMAIN r.headers : r.headers[k].field # <<>>

VARIABLES
    requests,  \* what the client sends on this connection
    cursor,    \* the byte it sends next
    inRead,    \* some bytes of a read are parsed and its end is to come
    url_start_mark,  \* local of http_parser_execute, which runs for a whole read: how far
               \* behind the next byte the mark is, 0 when it is null
    parser,    \* the parser
    conn,      \* "open", "shut" (the socket is closed, the read's callback still
               \* runs), "closed", or "threw" (an exception left the callback)
    closing,   \* close_connection_
    answers    \* what was answered so far

parserVars == <<requests, cursor, inRead, url_start_mark, parser, conn, closing, answers>>

-----------------------------------------------------------------------------
(* The client *)

Target(r) == r.path \o (IF r.query = <<>> THEN <<>> ELSE <<Mark>> \o r.query)

Place(n, part, i, k) == [req |-> n, part |-> part, header |-> i, k |-> k]
FirstOf(n) == Place(n, "url", 0, 1)

\* The request under way.
Current == requests[cursor.req]

\* The first byte of the i-th header, or the end of the headers.
HeaderAt(n, i) ==
    IF i <= Len(requests[n].headers) THEN Place(n, "field", i, 1) ELSE Place(n, "end", 0, 1)

\* What follows the byte at the cursor in a text, and behind its last byte.
Further(text, behind) ==
    IF cursor.k < Len(text) THEN [cursor EXCEPT !.k = @ + 1] ELSE behind

IsFile(url) == Len(url) > 1 /\ url[1] = Files
HasRoute(url) == url \in Known \/ IsFile(url)

-----------------------------------------------------------------------------
(* HTTPParser: the request being put together, by callbacks *)

\* Subtracting a null pointer from the place of the question mark.
FarAway == 1000000

\* marked is the mark of http_parser_execute that is set, piece what it has seen
\* since.  cut and behind are history: a read ended inside the URL; the URL began
\* in a read in which another one had begun.
Cleared ==
    [state |-> "start", marked |-> "none", piece |-> <<>>, behind |-> FALSE,
     qs_point |-> 0, raw_url |-> <<>>, url |-> <<>>, headers |-> <<>>,
     field |-> <<>>, value |-> <<>>, building |-> 0,
     body |-> <<>>, left |-> 0, close |-> FALSE, cut |-> FALSE]

\* What comes before the question mark, when there is one.
UrlOf(q) ==
    IF q.qs_point # 0 /\ q.qs_point <= Len(q.raw_url)
    THEN SubSeq(q.raw_url, 1, q.qs_point) ELSE q.raw_url

\* Mutant of OnUrl: routes look at the URL with its query.
OnUrlRaw(q, at) == [q EXCEPT !.raw_url = @ \o at, !.url = q.raw_url \o at]

OnUrl(q, at) ==
    LET longer == [q EXCEPT !.raw_url = @ \o at] IN [longer EXCEPT !.url = UrlOf(longer)]

WithHeader(q) == Append(q.headers, [field |-> q.field, value |-> q.value])

\* A new name ends the header before it, if that had a value.
OnHeaderField(q, at) ==
    IF q.building = 1 THEN [q EXCEPT !.field = @ \o at]
    ELSE [q EXCEPT !.headers = IF q.value # <<>> THEN WithHeader(q) ELSE @,
                   !.value = <<>>, !.field = at, !.building = 1]

OnHeaderValue(q, at) ==
    IF q.building = 0 THEN [q EXCEPT !.value = @ \o at]
    ELSE [q EXCEPT !.value = at, !.building = 0]

OnHeadersComplete(q, close) ==
    [q EXCEPT !.headers = IF q.field # <<>> THEN WithHeader(q) ELSE @,
              !.field = <<>>, !.value = <<>>, !.close = close]

\* The callback of the mark that is set gets its piece.
Deliver(q) ==
    LET called == CASE q.marked = "url"   -> OnUrl(q, q.piece)
                    [] q.marked = "field" -> OnHeaderField(q, q.piece)
                    [] q.marked = "value" -> OnHeaderValue(q, q.piece)
                    [] q.marked = "body"  -> [q EXCEPT !.body = @ \o q.piece]
                    [] q.marked = "none"  -> q
    IN [called EXCEPT !.piece = <<>>]

Unmarked(q) == [Deliver(q) EXCEPT !.marked = "none"]

Marked(q, what, c) ==
    IF q.marked = what THEN [q EXCEPT !.piece = Append(@, c)]
    ELSE [q EXCEPT !.marked = what, !.piece = <<c>>]

-----------------------------------------------------------------------------
(* The connection *)

AnswerFor(kind, q) ==
    [kind |-> kind, url |-> q.url, raw_url |-> q.raw_url, headers |-> q.headers,
     body |-> q.body, cut |-> q.cut, behind |-> q.behind]

\* handle_url: without a route the answer is sent at once; done() puts the parser
\* into an error, so that the connection is closed.  Nothing can be written to a
\* socket that is closed already.
Refuse(q) ==
    /\ answers' = IF conn = "shut" THEN answers ELSE Append(answers, AnswerFor("notFound", q))
    /\ conn' = "closed"
    /\ parser' = Cleared
    /\ UNCHANGED closing

GoesOn(q) == parser' = q /\ UNCHANGED <<conn, closing, answers>>

Routed(q) == IF HasRoute(q.url) THEN GoesOn(q) ELSE Refuse(q)

\* handle, with all it writes: remote_endpoint() throws when the socket is
\* closed; a file whose request asked to close closes it, another answer leaves
\* that to the end of the read.
Handle(q) ==
    IF conn = "shut"
    THEN conn' = "threw" /\ parser' = q /\ UNCHANGED <<closing, answers>>
    ELSE /\ answers' = Append(answers, AnswerFor("handled", q))
         /\ closing' = q.close
         /\ conn' = IF q.close /\ IsFile(q.url) THEN "shut" ELSE "open"
         /\ parser' = Cleared

\* The next byte belongs to this part of a request.  The first byte of a URL sets
\* the mark unless it is set: nothing resets it before the read ends.
Sends(part) ==
    /\ conn \in {"open", "shut"}
    /\ cursor.req <= Len(requests)
    /\ cursor.part = part
    /\ inRead' = TRUE
    /\ url_start_mark' =
          IF url_start_mark # 0 \/ (part = "url" /\ parser.state = "start")
          THEN url_start_mark + 1 ELSE 0
    /\ UNCHANGED requests

\* The place of the first question mark is counted from the mark, which is where
\* the first URL of this read began.
PlaceOf(q) ==
    IF url_start_mark # 0 \/ q.state = "start" THEN url_start_mark ELSE FarAway

WithUrlByte(q, c) ==
    LET behind == q.behind \/ (q.state = "start" /\ url_start_mark # 0)
        point == IF c = Mark /\ q.qs_point = 0 THEN PlaceOf(q) ELSE q.qs_point
    IN Marked([q EXCEPT !.state = "url", !.behind = behind, !.qs_point = point], "url", c)

UrlByte ==
    /\ Sends("url")
    /\ cursor' = Further(Target(Current), Place(cursor.req, "version", 0, 1))
    /\ GoesOn(WithUrlByte(parser, Target(Current)[cursor.k]))

VersionByte ==
    /\ Sends("version")
    /\ cursor' = HeaderAt(cursor.req, 1)
    /\ Routed([Unmarked(parser) EXCEPT !.state = "headers"])

FieldByte ==
    /\ Sends("field")
    /\ LET field == Current.headers[cursor.header].field
       IN /\ cursor' = Further(field, Place(cursor.req, "colon", cursor.header, 1))
          /\ GoesOn([Marked(parser, "field", field[cursor.k]) EXCEPT !.state = "field"])

ColonByte ==
    /\ Sends("colon")
    /\ cursor' = [cursor EXCEPT !.part =
                     IF Current.headers[cursor.header].value = <<>> THEN "eol" ELSE "value"]
    /\ GoesOn([Unmarked(parser) EXCEPT !.state = "headers"])

ValueByte ==
    /\ Sends("value")
    /\ LET value == Current.headers[cursor.header].value
       IN /\ cursor' = Further(value, Place(cursor.req, "eol", cursor.header, 1))
          /\ GoesOn([Marked(parser, "value", value[cursor.k]) EXCEPT !.state = "value"])

\* The line end marks an empty value.
EolByte ==
    /\ Sends("eol")
    /\ cursor' = HeaderAt(cursor.req, cursor.header + 1)
    /\ GoesOn([Unmarked([parser EXCEPT !.marked = "value"]) EXCEPT !.state = "headers"])

\* A request without body is complete.
EndByte ==
    /\ Sends("end")
    /\ LET q == OnHeadersComplete(parser, Current.close)
           length == Len(Current.body)
       IN \/ /\ length = 0
             /\ cursor' = FirstOf(cursor.req + 1)
             /\ Handle(q)
          \/ /\ length > 0
             /\ cursor' = Place(cursor.req, "body", 0, 1)
             /\ GoesOn([q EXCEPT !.state = "body", !.left = length])

BodyByte ==
    /\ Sends("body")
    /\ cursor' = Further(Current.body, FirstOf(cursor.req + 1))
    /\ LET q == [Marked(parser, "body", Current.body[cursor.k]) EXCEPT !.left = @ - 1]
       IN IF q.left > 0 THEN GoesOn(q) ELSE Handle(Unmarked(q))

\* What is marked is delivered, and the mark set again at the beginning of the next
\* read; that of the beginning of the URL is not.
ReadEnded(q) == Deliver([q EXCEPT !.cut = q.cut \/ q.state = "url"])

\* The last byte of the read.  A connection whose last request asked to close, or
\* whose socket is closed, ends here.
EndRead ==
    /\ conn \in {"open", "shut"} /\ inRead
    /\ inRead' = FALSE /\ url_start_mark' = 0
    /\ LET q == ReadEnded(parser)
       IN IF parser.state = "url" /\ ~HasRoute(q.url) THEN Refuse(q)
          ELSE /\ parser' = q
               /\ conn' = IF conn = "shut" \/ closing THEN "closed" ELSE "open"
               /\ UNCHANGED <<closing, answers>>
    /\ UNCHANGED <<requests, cursor>>

\* The client has closed the connection.
Eof ==
    /\ conn = "open" /\ ~inRead
    /\ conn' = "closed"
    /\ UNCHANGED <<requests, cursor, inRead, url_start_mark, parser, closing, answers>>

ParserInit ==
    /\ requests \in UNION {[1..n -> Requests] : n \in 1..MaxRequests}
    /\ cursor = FirstOf(1) /\ inRead = FALSE /\ url_start_mark = 0
    /\ parser = Cleared
    /\ conn = "open" /\ closing = FALSE
    /\ answers = <<>>

ParserNext ==
    \/ UrlByte \/ VersionByte
    \/ FieldByte \/ ColonByte \/ ValueByte \/ EolByte
    \/ EndByte \/ BodyByte
    \/ EndRead \/ Eof

ParserSpec == ParserInit /\ [][ParserNext]_parserVars

-----------------------------------------------------------------------------
(* Properties *)

Text == Seq(Letters)
Header == [field : Text, value : Text]

ParserFields ==
    [state : {"start", "url", "headers", "field", "value", "body"},
     marked : {"none", "url", "field", "value", "body"},
     piece : Text, behind : BOOLEAN, qs_point : Nat, raw_url : Text, url : Text,
     headers : Seq(Header), field : Text, value : Text, building : {0, 1},
     body : Text, left : Nat, close : BOOLEAN, cut : BOOLEAN]

AnswerFields ==
    [kind : {"handled", "notFound"}, url : Text, raw_url : Text,
     headers : Seq(Header), body : Text, cut : BOOLEAN, behind : BOOLEAN]

CursorFields ==
    [req : Nat, header : Nat, k : Nat,
     part : {"url", "version", "field", "colon", "value", "eol", "end", "body"}]

\* Every variable has its type; the parser is in a body as long as bytes of the
\* body are missing.
ParserTypeOK ==
    /\ requests \in Seq(Requests)
    /\ cursor \in CursorFields /\ cursor.req \in 1..Len(requests) + 1
    /\ inRead \in BOOLEAN /\ url_start_mark \in Nat
    /\ parser \in ParserFields
    /\ conn \in {"open", "shut", "closed", "threw"}
    /\ closing \in BOOLEAN
    /\ answers \in Seq(AnswerFields)
    /\ conn # "threw" => (parser.state = "body" <=> parser.left > 0)

\* Requests are answered one by one, in their order: when the parser waits for a
\* new request on an open connection, every request it has seen has its answer.
AllAnswered ==
    /\ Len(answers) <= Len(requests)
    /\ conn = "open" /\ parser.state = "start" => cursor = FirstOf(Len(answers) + 1)

\* got is what is left of the headers that were sent when only those of S are kept.
ListsOnly(got, sent, S) ==
    /\ Len(got) = Cardinality(S)
    /\ \A k \in S : got[Cardinality({j \in S : j <= k})] = sent[k]

\* A header with no value is lost when another one follows it.
Kept(headers) == {k \in DOMAIN headers : headers[k].value # <<>> \/ k = Len(headers)}

\* The place of the question mark is not that of this URL.
Misplaced(answer, r) == r.query # <<>> /\ (answer.cut \/ answer.behind)

AsSent(answer, r) ==
    /\ ListsOnly(answer.headers, r.headers, Kept(r.headers))
    /\ answer.body = r.body
    /\ answer.raw_url = Target(r)
    /\ ~Misplaced(answer, r) => answer.url = r.path

AnsweredRight(answer, r) ==
    \/ answer.kind = "handled" /\ AsSent(answer, r)
    \/ answer.kind = "notFound" /\ (answer.cut \/ Misplaced(answer, r) \/ ~HasRoute(r.path))

\* HTTPParser: what a handler gets (headers, body and query, and the path unless
\* the URL has a query and either a read ended in it or it began behind another
\* URL of its read) is what the client sent, however its bytes are cut into reads
\* and whatever came before on the connection; every request of a healthy
\* connection is answered in turn; and a page that exists is only reported missing
\* when a read ended in its URL, or the URL has a query and began behind another
\* one in its read.
HandlersGetWhatWasSent ==
    /\ AllAnswered
    /\ \A k \in DOMAIN answers : AnsweredRight(answers[k], requests[k])

=============================================================================
