------------------------------ MODULE CrowRouter ------------------------------
(***************************************************************************)
(* How Crow finds the handler of a request.  The routes of a program are   *)
(* registered one after the other and put, when the server starts, into a  *)
(* trie per method: first one node for each character, then validate()     *)
(* merges every chain of nodes that decide nothing.  A URL is looked up by *)
(* walking down all children that agree with it and keeping the smallest   *)
(* rule number found.  handle_initial turns the lookups in all tries into  *)
(* a rule, a 405 or a 404.                                                 *)
(*                                                                         *)
(* A URL is a sequence of characters, a route a sequence of characters     *)
(* that may end in Path, the parameter <path>.  The program has no route   *)
(* with another kind of parameter and no blueprint.                        *)
(***************************************************************************)
EXTENDS Naturals, FiniteSets, Sequences, SequencesExt, FiniteSetsExt

CONSTANTS
    Chars,     \* characters, among them Slash
    Slash,
    Path,      \* the parameter <path>, no character
    Routes,    \* the routes a program may register
    MaxRules,  \* bound: rules registered
    UrlLength  \* bound: characters of the URLs asked for

CrowRouterAssumption ==
    /\ Slash \in Chars /\ Path \notin Chars
    /\ \A r \in Routes : r # <<>> /\ Head(r) = Slash

VARIABLES
    added,    \* added[m]: the routes of the rules of m, from rule number 2 on
    trie,     \* trie[m]: the head of the tree
    status    \* "adding", "serving", or "threw"

routerVars == <<added, trie, status>>

Methods == {"GET", "POST", "HEAD"}
None == 0
Redirect == 1    \* RULE_SPECIAL_REDIRECT_SLASH
Urls == {<<Slash>> \o s : s \in UNION {[1..n -> Chars] : n \in 0..(UrlLength - 1)}}

-----------------------------------------------------------------------------
(* The tree *)

\* A node: its rule, its characters or <<Path>>, its children.
Node(key) == [rule |-> None, key |-> key, children |-> <<>>]

\* The first child of node that goes on with c.
ChildFor(node, c) == SelectInSeq(node.children, LAMBDA x : x.key[1] = c)

\* The node a route ends at has a rule already.
RECURSIVE Taken(_, _)
Taken(node, route) ==
    IF route = <<>> THEN node.rule # None
    ELSE LET k == ChildFor(node, Head(route))
         IN k # 0 /\ Taken(node.children[k], Tail(route))

RECURSIVE AddRoute(_, _, _)
AddRoute(node, route, rule) ==
    IF route = <<>> THEN [node EXCEPT !.rule = rule]
    ELSE LET k == ChildFor(node, Head(route))
         IN IF k # 0
            THEN [node EXCEPT !.children[k] = AddRoute(@, Tail(route), rule)]
            ELSE [node EXCEPT !.children =
                     Append(@, AddRoute(Node(<<Head(route)>>), Tail(route), rule))]

\* Mutant of IsSimpleNode: a node with a rule is merged too.
IsSimpleWithRule(node) ==
    /\ Len(node.children) < 2
    /\ node.key # <<Path>>
    /\ \A k \in DOMAIN node.children : node.children[k].key # <<Path>>

IsSimpleNode(node) ==
    /\ node.rule = None
    /\ Len(node.children) < 2
    /\ node.key # <<Path>>
    /\ \A k \in DOMAIN node.children : node.children[k].key # <<Path>>

RECURSIVE optimizeNode(_)
optimizeNode(node) ==
    IF node.children = <<>> THEN node
    ELSE IF IsSimpleNode(node)
         THEN LET child == node.children[1]
              IN optimizeNode([child EXCEPT !.key = node.key \o @])
         ELSE [node EXCEPT !.children = [k \in DOMAIN @ |-> optimizeNode(@[k])]]

\* validate(): the head keeps its place, its children are merged.
Optimized(head) ==
    [head EXCEPT !.children = [k \in DOMAIN @ |-> optimizeNode(@[k])]]

SmallestRule(rules) == IF rules = {} THEN None ELSE Min(rules)

\* The rule of url below node, of which pos characters have been walked.
RECURSIVE FindFrom(_, _, _)
FindFrom(node, url, pos) ==
    IF pos = Len(url) THEN node.rule
    ELSE LET below(child) ==
               IF child.key = <<Path>> THEN FindFrom(child, url, Len(url))
               ELSE IF child.key = SubSeq(url, pos + 1, Min({pos + Len(child.key), Len(url)}))
                    THEN FindFrom(child, url, pos + Len(child.key))
                    ELSE None
         IN SmallestRule({below(node.children[k]) : k \in DOMAIN node.children} \ {None})

Find(m, url) == FindFrom(trie[m], url, 0)

-----------------------------------------------------------------------------
(* Starting *)

Init ==
    /\ added = [m \in Methods |-> <<>>]
    /\ trie = [m \in Methods |-> Node(<<>>)]
    /\ status = "adding"

HasTrailingSlash(route) == Len(route) > 1 /\ Last(route) = Slash

\* What internal_add_rule_object puts into the trie of m: the route, and for a
\* route with a slash at its end the redirect from the route without it.
Entries(m, route) ==
    <<[route |-> route, rule |-> Len(added[m]) + 2]>> \o
    (IF HasTrailingSlash(route) THEN <<[route |-> Front(route), rule |-> Redirect]>> ELSE <<>>)

TotalRules == Len(added["GET"]) + Len(added["POST"]) + Len(added["HEAD"])

\* The rule of route is added for m; "handler already exists for" is thrown at
\* the first entry whose place is taken.
AddRule(m, route) ==
    /\ status = "adding" /\ TotalRules < MaxRules
    /\ added' = [added EXCEPT ![m] = Append(@, route)]
    /\ LET entries == Entries(m, route)
           clash(k) == Taken(trie[m], entries[k].route)
           good == IF clash(1) THEN 0
                   ELSE IF Len(entries) = 2 /\ clash(2) THEN 1 ELSE Len(entries)
       IN /\ trie' = [trie EXCEPT ![m] =
                         FoldLeft(LAMBDA t, e : AddRoute(t, e.route, e.rule), @,
                                  SubSeq(entries, 1, good))]
          /\ status' = IF good = Len(entries) THEN "adding" ELSE "threw"

\* All rules are in: every trie is checked and merged.
Validate ==
    /\ status = "adding"
    /\ IF \A m \in Methods : IsSimpleNode(trie[m])
       THEN /\ trie' = [m \in Methods |-> Optimized(trie[m])]
            /\ status' = "serving"
       ELSE status' = "threw" /\ UNCHANGED trie
    /\ UNCHANGED added

Next ==
    \/ \E m \in Methods, route \in Routes : AddRule(m, route)
    \/ Validate

Spec == Init /\ [][Next]_routerVars

-----------------------------------------------------------------------------
(* Answering *)

\* handle_initial: what a request is answered with, a rule [of, rule] or a code.
Answer(m, url) ==
    IF m = "HEAD"
    THEN IF Find("HEAD", url) # None THEN [of |-> "HEAD", rule |-> Find("HEAD", url)]
         ELSE IF Find("GET", url) # None THEN [of |-> "GET", rule |-> Find("GET", url)]
         ELSE [code |-> 404]
    ELSE IF Find(m, url) # None THEN [of |-> m, rule |-> Find(m, url)]
    ELSE IF \E other \in Methods : Find(other, url) # None THEN [code |-> 405]
    ELSE [code |-> 404]

-----------------------------------------------------------------------------
(* Properties *)

Rule(m, i) == added[m][i - 1]
RuleNumbers(m) == 2..(Len(added[m]) + 1)

TypeOK ==
    /\ added \in [Methods -> Seq(Routes)]
    /\ status \in {"adding", "serving", "threw"}
    /\ \A m \in Methods, url \in Urls :
          Find(m, url) \in RuleNumbers(m) \cup {None, Redirect}

\* The URLs a route stands for: itself, with one or more characters for Path.
Covers(route, url) ==
    IF Last(route) = Path
    THEN Len(url) >= Len(route) /\ SubSeq(url, 1, Len(route) - 1) = Front(route)
    ELSE url = route

\* A URL is looked up as if the list of rules were searched from its beginning,
\* redirects first, before and after the tree was merged.
FindIsFirstMatch ==
    status # "threw" =>
        \A m \in Methods, url \in Urls :
            LET matches == {i \in RuleNumbers(m) : Covers(Rule(m, i), url)}
                redirects == \E i \in RuleNumbers(m) :
                                HasTrailingSlash(Rule(m, i)) /\ Rule(m, i) = url \o <<Slash>>
            IN Find(m, url) = IF redirects THEN Redirect ELSE SmallestRule(matches)

\* A URL some method has a handler for is never answered with 404 to GET or
\* POST, one that no method has is never answered with 405, and HEAD is answered
\* by the rule that answers GET unless a rule of its own matches.
AnswersAgree ==
    status = "serving" =>
        \A url \in Urls :
            LET known == \E m \in Methods : \E i \in RuleNumbers(m) :
                            Covers(Rule(m, i), url) \/ Rule(m, i) = url \o <<Slash>>
            IN /\ \A m \in {"GET", "POST"} :
                    "code" \in DOMAIN Answer(m, url) =>
                        (Answer(m, url).code = (IF known THEN 405 ELSE 404))
               /\ Answer("HEAD", url) # Answer("GET", url) =>
                    Find("HEAD", url) # None \/ Find("GET", url) = None

\* A program whose routes are written in different ways starts: validate() finds
\* every head simple, and only a route that is there twice, or with and without
\* a slash at its end, makes it throw.
OnlyClashesThrow ==
    status = "threw" =>
        \E m \in Methods : \E i, j \in RuleNumbers(m) :
            i < j /\ \/ Rule(m, i) = Rule(m, j)
                     \/ Rule(m, i) = Rule(m, j) \o <<Slash>>
                     \/ Rule(m, j) = Rule(m, i) \o <<Slash>>

=============================================================================
