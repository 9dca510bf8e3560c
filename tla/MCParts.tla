-------------------------------- MODULE MCParts --------------------------------
(***************************************************************************)
(* What happens to one request inside Crow (its bytes, its query, its route*)
(* and the response), the deadlines of connections and the heap of timers, *)
(* and the two programs that run before the server is of use.  They have   *)
(* no variable in common; a behaviour is one of one of them, and the       *)
(* variables of the others stay as they begin.  The heap comes twice: with *)
(* enough timers for two levels of parents, and with several waits on one. *)
(***************************************************************************)
EXTENDS CrowParser, QueryString, CrowConnection, CrowResponse, AsioTimerQueue, SchemaBootstrap,
        ImportsExports

CONSTANTS C1, C2, C3

VARIABLES
    part,                                           \* what runs
    added, trie, status                             \* CrowRouter

routerVars == <<added, trie, status>>

MCConns == {C1, C2, C3}
MCTimers == 1..6
MCTimes == 1..3
MCCosts == {1, 4}
MCLetters == {"a", "b", "e", "f", "g", "h", "m", "n", "o", "q", "s", "x", "y", Mark}
MCKnown == {<<"a", "b">>}

\* Routes of one, two and three characters with and without parameter, which
\* share beginnings as those of the server do.
Routes == {<<"/">>, <<"/", "a">>, <<"/", "a", "/">>, <<"/", "a", "b">>,
           <<"/", "a", "/", "b">>, <<"/", "a", "/", "<path>">>, <<"/", "<path>">>}

Host == [field |-> <<"h", "o">>, value |-> <<"x", "y">>]
Empty == [field |-> <<"e">>, value |-> <<>>]
Asks(path, query, headers, body, close) ==
    [path |-> path, query |-> query, headers |-> headers, body |-> body, close |-> close]

\* Requests for a page, the beginning of its path, and a file, with and without
\* query, empty header, body and wish to close.
MCRequests ==
    {Asks(<<"a", "b">>, <<"q", "?">>, <<Host>>, <<>>, FALSE),
     Asks(<<"a", "b">>, <<>>, <<Empty, Host>>, <<"m", "n">>, FALSE),
     Asks(<<"a", "b">>, <<>>, <<Host, Empty>>, <<>>, TRUE),
     Asks(<<"a">>, <<>>, <<Host>>, <<>>, FALSE),
     Asks(<<"s", "f", "g">>, <<"q">>, <<Host>>, <<>>, FALSE),
     Asks(<<"s", "f">>, <<>>, <<Host, Host>>, <<>>, TRUE)}

\* Hexadecimal digits of the escapes are plain characters, so that a user may
\* type an escape.
MCPlain == {"i", "2", "0", "3", "5", "6", "b", "d", "f"}
MCEscapes ==
    [c \in {"?", "&", "=", "#", "%", "+", " "} |->
        CASE c = "?" -> <<"3", "f">> [] c = "&" -> <<"2", "6">>
          [] c = "=" -> <<"3", "d">> [] c = "#" -> <<"2", "3">>
          [] c = "%" -> <<"2", "5">> [] c = "+" -> <<"2", "b">>
          [] c = " " -> <<"2", "0">>]
MCKeys == << <<"i", "d">>, <<"i">> >>

Router == INSTANCE CrowRouter WITH
    Chars <- {"/", "a", "b"}, Slash <- "/", Path <- "<path>", MaxRules <- 3, UrlLength <- 4

\* The bounds of the heap: enough timers for two levels of parents, or several
\* times and several waits on one timer.  Many timers are alike, and are added in turn.
ManyTimers ==
    /\ now' <= 2 /\ \A t \in Timers : due'[t] <= 2 /\ waits'[t] <= 1
    /\ \A t \in active' \ active : active = 1..(t - 1)
ManyWaits == active' \subseteq 1..3

\* The bound of the query: the characters typed behind both keys.
FewTyped == Len(typed'[1]) + Len(typed'[2]) <= 3

ASSUME MCPartsAssumption ==
    Router!CrowRouterAssumption

PartsInit ==
    /\ part \in {"parser", "router", "query", "response", "connections", "heap", "waits",
                 "schema", "imports"}
    /\ ParserInit
    /\ part # "parser" => requests = <<CHOOSE r \in Requests : TRUE>>
    /\ QueryInit /\ (part # "query" => form)
    /\ Router!Init /\ ResponseInit /\ Init /\ TimerInit /\ SchemaInit /\ ImportsInit

Only(x) == part = x /\ UNCHANGED part

PartsNext ==
    \/ /\ Only("parser") /\ ParserNext
       /\ UNCHANGED <<routerVars, queryVars, responseVars, connVars, timerVars, schemaVars, ieVars>>
    \/ /\ Only("router") /\ Router!Next
       /\ UNCHANGED <<parserVars, queryVars, responseVars, connVars, timerVars, schemaVars, ieVars>>
    \/ /\ Only("query") /\ QueryNext /\ FewTyped
       /\ UNCHANGED <<parserVars, routerVars, responseVars, connVars, timerVars, schemaVars, ieVars>>
    \/ /\ Only("response") /\ ResponseNext
       /\ UNCHANGED <<parserVars, routerVars, queryVars, connVars, timerVars, schemaVars, ieVars>>
    \/ /\ Only("connections") /\ Next
       /\ UNCHANGED <<parserVars, routerVars, queryVars, responseVars, timerVars, schemaVars, ieVars>>
    \/ /\ TimerNext
       /\ \/ Only("heap") /\ ManyTimers
          \/ Only("waits") /\ ManyWaits
       /\ UNCHANGED <<parserVars, routerVars, queryVars, responseVars, connVars, schemaVars, ieVars>>
    \/ /\ Only("schema") /\ SchemaNext
       /\ UNCHANGED <<parserVars, routerVars, queryVars, responseVars, connVars, timerVars, ieVars>>
    \/ /\ Only("imports") /\ ImportsNext
       /\ UNCHANGED <<parserVars, routerVars, queryVars, responseVars, connVars, timerVars, schemaVars>>

partsVars == <<part, parserVars, routerVars, queryVars, responseVars, connVars, timerVars, schemaVars,
               ieVars>>

PartsSpec == PartsInit /\ [][PartsNext]_partsVars

-----------------------------------------------------------------------------
(* Properties *)

\* The state of every part has its type.
PartsTypeOK ==
    /\ part = "parser" => ParserTypeOK
    /\ part = "router" => Router!TypeOK
    /\ part = "query" => QueryTypeOK
    /\ part = "response" => ResponseTypeOK
    /\ part = "connections" => TypeOK
    /\ part \in {"heap", "waits"} => TimerTypeOK
    /\ part = "schema" => SchemaTypeOK
    /\ part = "imports" => ImportsTypeOK

\* Crow's trie: the first rule that matches is found, optimising changes no
\* answer, and only rules that clash make it throw.
RouterFindsFirstMatch ==
    part = "router" =>
        /\ Router!FindIsFirstMatch
        /\ Router!AnswersAgree
        /\ Router!OnlyClashesThrow

=============================================================================
