----------------------------- MODULE CrowResponse -----------------------------
(***************************************************************************)
(* The response object of a connection.  A connection that stays has one   *)
(* response, used for every request of it in turn: handle_initial marks it *)
(* for a HEAD request, a handler assigns to it, end() and prepare_buffers  *)
(* settle what it declares, and clear() empties it when it is written.     *)
(* Assigning and clearing leave some of its fields as they are, and handle *)
(* sets a header on it when it has been written and cleared: a response    *)
(* that is assigned to loses it, a file is sent with it.                   *)
(*                                                                         *)
(* A body is its length: Page, File, or Words for the text put in when an  *)
(* error has no body.                                                      *)
(***************************************************************************)
EXTENDS Naturals, Sequences

CONSTANTS
    Page, File, Words,  \* three lengths
    MaxAnswers          \* bound: requests of the connection

ASSUME CrowResponseAssumption ==
    /\ {Page, File, Words} \subseteq Nat \ {0}
    /\ MaxAnswers \in Nat

VARIABLES
    res,         \* the response
    socketOpen,  \* the socket is open
    wire         \* history: for each request what its answer declared, what was sent,
                 \* and whether a header left over from before was sent with it

responseVars == <<res, socketOpen, wire>>

Undeclared == Page + File + Words  \* no length header
Targets == {"page", "error", "file", "missingFile", "unknown"}
\* keep_alive is that of every HTTP/1.1 request, which needs the header host, and
\* of an HTTP/1.0 one that asks for it.
Request == {q \in [method : {"GET", "HEAD"}, target : Targets, host : BOOLEAN,
                   keep_alive : BOOLEAN] : q.host \/ q.keep_alive}

ResponseTypeOK ==
    /\ res \in [failed : BOOLEAN, body : {0, Page, Words}, length : {Undeclared, 0, Page, File},
                completed : BOOLEAN, skip_body : BOOLEAN, manual : BOOLEAN, file : BOOLEAN,
                connection : BOOLEAN]
    /\ socketOpen \in BOOLEAN
    /\ \A k \in DOMAIN wire : wire[k] \in [request : Request, declared : {0, Page, File, Words},
                                           sent : {0, Page, File, Words}, leftover : BOOLEAN]

\* A response that was just made.
Fresh == [failed |-> FALSE, body |-> 0, length |-> Undeclared,
          completed |-> FALSE, skip_body |-> FALSE, manual |-> FALSE, file |-> FALSE,
          connection |-> FALSE]

ResponseInit == res = Fresh /\ socketOpen = TRUE /\ wire = <<>>

-----------------------------------------------------------------------------
(* The operations of response *)

\* operator=: skip_body and manual_length_header are not assigned.
Assigned(r, body, failed) ==
    [Fresh EXCEPT !.body = body, !.failed = failed, !.skip_body = r.skip_body, !.manual = r.manual]

\* clear()
Emptied(r) == [Fresh EXCEPT !.skip_body = r.skip_body, !.manual = r.manual]

\* set_static_file_info_unsafe
WithFile(r, exists) ==
    IF exists THEN [r EXCEPT !.file = TRUE, !.length = File] ELSE [r EXCEPT !.failed = TRUE]

\* end() up to its call of the completion handler.
Ended(r) ==
    IF r.skip_body
    THEN [r EXCEPT !.completed = TRUE, !.length = r.body, !.body = 0, !.manual = TRUE]
    ELSE [r EXCEPT !.completed = TRUE]

\* Mutant of AfterHandler: only the length is reset.
AfterHandlerKeeping(r) == [r EXCEPT !.manual = FALSE]

\* end() behind the completion handler, which has written the response.
AfterHandler(r) == [r EXCEPT !.manual = FALSE, !.skip_body = FALSE]

\* Mutant of Prepared: the words are put behind every body.
PreparedAlways(r) == [r EXCEPT !.body = r.body + Words]

\* prepare_buffers: an error without a body gets one, and a length is declared
\* unless there is one.
Prepared(r) == IF r.failed /\ r.body = 0 THEN [r EXCEPT !.body = Words] ELSE r

Declared(r) ==
    IF r.length # Undeclared THEN r.length ELSE IF r.manual THEN 0 ELSE r.body

-----------------------------------------------------------------------------
(* Requests *)

\* What is written for r in answer to q, and whether the socket stays open.  The
\* headers of the response go out before Crow's own connection header does.
Write(q, r, open) ==
    /\ wire' = Append(wire, [request |-> q, declared |-> Declared(Prepared(r)),
                             sent |-> IF r.file THEN File ELSE Prepared(r).body,
                             leftover |-> r.connection])
    /\ socketOpen' = open

\* handle_initial for a URL with a route.
Initial(q) == IF q.method = "HEAD" THEN [res EXCEPT !.skip_body = TRUE] ELSE res

\* handle() behind the handler of a route: the header is set on what is left of
\* the response.
LeftBy(q, r) == [AfterHandler(r) EXCEPT !.connection = q.keep_alive]

\* No route: 404 by handle_url, and the connection ends.
AnswerUnknown(q) ==
    /\ q.target = "unknown"
    /\ LET r == Ended(Assigned(res, 0, TRUE))
       IN Write(q, r, FALSE) /\ res' = Emptied(r)

\* HTTP/1.1 without the header host: 400 without end().
AnswerBadRequest(q) ==
    /\ q.target # "unknown" /\ ~q.host
    /\ LET r == Assigned(Initial(q), 0, TRUE)
       IN Write(q, r, TRUE) /\ res' = Emptied(r)

\* The handler of a route returns a response, which is assigned and ended; an
\* exception of the handler becomes a 500 without a body.  The socket stays open for
\* the rest of the read also when the client asks to close.
AnswerPage(q) ==
    /\ q.target \in {"page", "error"} /\ q.host
    /\ LET r == Ended(Assigned(Initial(q), IF q.target = "page" THEN Page ELSE 0,
                               q.target = "error"))
       IN Write(q, r, TRUE) /\ res' = LeftBy(q, Emptied(r))

\* /static/<path>: the handler works on the response of the connection.  A file
\* is written behind what prepare_buffers made, and the socket closed if the client
\* asks for it; the response is emptied with the first part of the file, and ended
\* and emptied again when all is written.
AnswerFile(q) ==
    /\ q.target \in {"file", "missingFile"} /\ q.host
    /\ LET r == Ended(WithFile(Initial(q), q.target = "file"))
       IN /\ \E close \in BOOLEAN : Write(q, r, ~(r.file /\ close))
          /\ res' = LeftBy(q, Emptied(IF r.file THEN Ended(Emptied(r)) ELSE r))

AnswerRequest(q) == AnswerUnknown(q) \/ AnswerBadRequest(q) \/ AnswerPage(q) \/ AnswerFile(q)

ResponseNext ==
    /\ socketOpen /\ Len(wire) < MaxAnswers
    /\ \E q \in Request : AnswerRequest(q)

ResponseSpec == ResponseInit /\ [][ResponseNext]_responseVars

-----------------------------------------------------------------------------
(* Properties *)

\* The request got as far as the handler of a route, and its client is told to
\* keep the connection.
LeavesHeader(q) == q.host /\ q.target # "unknown" /\ q.keep_alive

\* Of a response two things may be left for the next one: the mark of a HEAD request
\* that was answered without end(), and the header connection of the request before.
StartsClean ==
    socketOpen =>
        /\ [res EXCEPT !.skip_body = FALSE, !.connection = FALSE] = Fresh
        /\ res.skip_body => \E k \in DOMAIN wire :
                               wire[k].request.method = "HEAD" /\ ~wire[k].request.host
        /\ res.connection => wire # <<>> /\ LeavesHeader(wire[Len(wire)].request)

\* That header is sent with a static file, or with the answer that there is none, and
\* with nothing else; it says to a client, perhaps one that was told nothing of the
\* kind, what was for the one request before its own and no other.
LeftoversGoWithFiles ==
    \A k \in DOMAIN wire :
        wire[k].leftover => /\ wire[k].request.target \in {"file", "missingFile"}
                            /\ k > 1 /\ LeavesHeader(wire[k - 1].request)

\* What a client has to read after the headers is what is sent, for a GET on a
\* connection without such a request before it, after any pages, errors, files
\* and HEAD requests that went well: otherwise it would take the rest for the
\* next answer, or wait for more.
GetIsFramed ==
    \A k \in DOMAIN wire :
        LET w == wire[k] IN
        (w.request.method = "GET"
           /\ \A j \in 1..(k - 1) : wire[j].request.method = "HEAD" => wire[j].request.host)
        => /\ w.declared = w.sent
           /\ w.request.host /\ w.request.target = "page" => w.sent = Page

\* The length of a page is declared to HEAD as it is to GET.
HeadDeclaresPage ==
    \A k \in DOMAIN wire :
        (wire[k].request.host /\ wire[k].request.target = "page") => wire[k].declared = Page

\* crow::response, used for one request after the other: what it declares is what
\* is sent, and of what is left in it only a header gets to an answer, and only to
\* that of a file.
ResponseIsFramed ==
    GetIsFramed /\ HeadDeclaresPage /\ StartsClean /\ LeftoversGoWithFiles

=============================================================================
