------------------------------ MODULE PagesProofs ------------------------------
(***************************************************************************)
(* The properties of the pages, for any number of tabs, requests, numbers, *)
(* dates and bills.  Every page has an invariant of its own, in four or    *)
(* five parts; Pages puts the results together.                            *)
(***************************************************************************)
EXTENDS Pages, TLAPS

-----------------------------------------------------------------------------
(* sales.html *)

\* The handle tells whether the canvas has a chart, so no call of Chart.js throws
\* and the chart follows the total.
SalesInv ==
    /\ SalesPageTypeOK
    /\ total = chart
    /\ handle = "canvas" => live = 0 /\ total = 0
    /\ handle = "chart" => live = 1

LEMMA SalesInvInit == SalesPageInit => SalesInv
  BY SalesPageAssumption DEF SalesPageAssumption, SalesPageInit, SalesInv, SalesPageTypeOK, RequestOf,
     Periods

LEMMA SalesInvNext == SalesInv /\ [SalesPageNext]_salesVars => SalesInv'
  <1> SUFFICES ASSUME SalesInv, [SalesPageNext]_salesVars PROVE SalesInv'
    OBVIOUS
  <1> USE SalesPageAssumption DEF SalesPageAssumption
  <1>1. CASE LoadSalesByProduct
    <2>1. PICK start \in BOOLEAN, end \in BOOLEAN :
            salesNet' = salesNet \cup
                          {RequestOf(salesSent + 1, IF start /\ end THEN "dates" ELSE "all")}
      BY <1>1 DEF LoadSalesByProduct
    <2>2. salesNet' \subseteq [n : 1..MaxSalesRequests, period : Periods,
                               st : {"sent", "answered"}, sum : Sums]
      BY <1>1, <2>1 DEF SalesInv, SalesPageTypeOK, LoadSalesByProduct, RequestOf, Periods
    <2> QED
      BY <1>1, <2>2 DEF SalesInv, SalesPageTypeOK, LoadSalesByProduct
  <1>2. ASSUME NEW r \in salesNet, ServeSales(r) PROVE SalesInv'
    <2>1. PICK s \in Sums :
            salesNet' = (salesNet \ {r}) \cup {[r EXCEPT !.st = "answered", !.sum = s]}
      BY <1>2 DEF ServeSales
    <2>2. salesNet' \subseteq [n : 1..MaxSalesRequests, period : Periods,
                               st : {"sent", "answered"}, sum : Sums]
      BY <2>1 DEF SalesInv, SalesPageTypeOK
    <2> QED
      BY <1>2, <2>2 DEF SalesInv, SalesPageTypeOK, ServeSales
  <1>3. ASSUME NEW r \in salesNet, ReceiveSales(r) PROVE SalesInv'
    <2>1. ~Throws
      BY DEF SalesInv, SalesPageTypeOK, Throws, Left, Destroyable
    <2>2. Left = 0 /\ r.sum \in Sums
      BY DEF SalesInv, SalesPageTypeOK, Left, Destroyable
    <2>3. live' = 1 /\ total' = r.sum /\ chart' = r.sum /\ handle' = "chart"
      BY <1>3, <2>1, <2>2 DEF ReceiveSales
    <2> QED
      BY <1>3, <2>2, <2>3 DEF ReceiveSales, SalesInv, SalesPageTypeOK
  <1>4. ASSUME NEW r \in salesNet, Lose(r) PROVE SalesInv'
    BY <1>4 DEF Lose, SalesInv, SalesPageTypeOK
  <1>5. CASE UNCHANGED salesVars
    BY <1>5 DEF salesVars, SalesInv, SalesPageTypeOK
  <1> QED
    BY <1>1, <1>2, <1>3, <1>4, <1>5 DEF SalesPageNext

\* Typing of sales.html: the requests, the handle and the two numbers.
THEOREM SalesPageTypeCorrect == SalesPageSpec => []SalesPageTypeOK
  <1>1. SalesInv => SalesPageTypeOK
    BY DEF SalesInv
  <1> QED
    BY <1>1, SalesInvInit, SalesInvNext, PTL DEF SalesPageSpec

\* sales.html: the number above the chart is the sum of its bars, whatever answers
\* come in whatever order (the handle of Chart.js is never wrong).
THEOREM SalesTotalMatchesChart == SalesPageSpec => []SalesTotalIsOfChart
  <1>1. SalesInv => SalesTotalIsOfChart
    BY DEF SalesInv, SalesTotalIsOfChart, SalesPageTypeOK
  <1> QED
    BY <1>1, SalesInvInit, SalesInvNext, PTL DEF SalesPageSpec


-----------------------------------------------------------------------------
(* navbar.js *)

\* An answer of this kind has come for tab t and waits for its callback.
Stored(t, kind) == \E r \in Unseen(t) : r.kind = kind

\* A tab whose bar is not there yet has nothing under way: a reload drops the
\* requests and closes the dialog.
LoadingIsQuiet ==
    \A t \in Tabs : nav[t] = "loading" =>
        /\ "dialog" \notin modal[t]
        /\ \A r \in loginNet : r.tab # t

\* What a tab's own answers may have done to the cookie since its bar was built: with
\* the answer to a login in the jar anything, as the bar is about to be built anew;
\* with that to a logout alone the cookie is gone; with neither, nothing.
BarFollows(t) ==
    nav[t] # "loading" /\ ~stale[t] /\ ~Stored(t, "login") =>
        IF Stored(t, "logout") THEN ~SignedIn ELSE nav[t] = "links" <=> SignedIn

BarFollowsJar == \A t \in Tabs : BarFollows(t)

SessionInv == AdminSessionTypeOK /\ LoadingIsQuiet /\ BarFollowsJar

LEMMA SessionInvInit == AdminSessionInit => SessionInv
  BY AdminSessionAssumption DEF AdminSessionAssumption, AdminSessionInit, SessionInv,
     AdminSessionTypeOK, LoadingIsQuiet, BarFollowsJar, BarFollows, Stored, Unseen, Request, SignedIn

LEMMA SessionTypeNext ==
  AdminSessionTypeOK /\ [AdminSessionNext]_sessionVars => AdminSessionTypeOK'
  <1> SUFFICES ASSUME AdminSessionTypeOK, [AdminSessionNext]_sessionVars
               PROVE  AdminSessionTypeOK'
    OBVIOUS
  <1> USE AdminSessionAssumption DEF AdminSessionAssumption, AdminSessionTypeOK
  <1>1. ASSUME NEW t \in Tabs, Load(t) PROVE AdminSessionTypeOK'
    BY <1>1 DEF Load
  <1>2. ASSUME NEW t \in Tabs, BuildNavbar(t) \/ OpenDialog(t) \/ CloseDialog(t)
        PROVE  AdminSessionTypeOK'
    <2>1. CASE BuildNavbar(t)
      <3>1. nav' \in [Tabs -> {"loading", "links", "signIn"}]
        BY <2>1 DEF BuildNavbar
      <3>2. stale' \in [Tabs -> BOOLEAN]
        BY <2>1 DEF BuildNavbar
      <3> QED
        BY <2>1, <3>1, <3>2 DEF BuildNavbar
    <2>2. CASE OpenDialog(t) \/ CloseDialog(t)
      <3>1. modal' \in [Tabs -> SUBSET {"dialog", "error"}]
        BY <2>2 DEF OpenDialog, CloseDialog
      <3> QED
        BY <2>2, <3>1 DEF OpenDialog, CloseDialog
    <2> QED
      BY <1>2, <2>1, <2>2
  <1>3. ASSUME NEW t \in Tabs, NEW kind \in Kinds, SendLogin(t, kind) PROVE AdminSessionTypeOK'
    BY <1>3 DEF SendLogin, Request, Kinds
  <1>4. ASSUME NEW r \in loginNet, NEW st \in {"sent", "answered", "stored"}, Becomes(r, st)
        PROVE  loginNet' \subseteq Request
    BY <1>4 DEF Becomes, Request
  <1>5. ASSUME NEW r \in loginNet, ServeLogin(r) PROVE AdminSessionTypeOK'
    BY <1>4, <1>5 DEF ServeLogin
  <1>6. ASSUME NEW r \in loginNet, StoreCookie(r) PROVE AdminSessionTypeOK'
    <2>1. loginNet' \subseteq Request
      BY <1>4, <1>6 DEF StoreCookie
    <2>2. stale' \in [Tabs -> BOOLEAN]
      BY <1>6, Zenon DEF StoreCookie, Disturb
    <2>3. expires' \in 0..(MaxTime + Lifetime)
      BY <1>6 DEF StoreCookie
    <2> QED
      BY <1>6, <2>1, <2>2, <2>3 DEF StoreCookie
  <1>7. ASSUME NEW r \in loginNet, Callback(r) \/ BreakLogin(r) PROVE AdminSessionTypeOK'
    <2>1. r.tab \in Tabs
      BY DEF Request
    <2>2. CASE LoginDone(r)
      BY <1>1, <2>1, <2>2 DEF LoginDone
    <2>3. CASE LoginRefused(r) \/ LogoutDone(r)
      BY <2>1, <2>3 DEF LoginRefused, LogoutDone
    <2>4. CASE BreakLogin(r)
      <3>1. stale' \in [Tabs -> BOOLEAN]
        BY <2>1, <2>4 DEF BreakLogin
      <3> QED
        BY <2>4, <3>1 DEF BreakLogin
    <2> QED
      BY <1>7, <2>2, <2>3, <2>4 DEF Callback
  <1>8. CASE Tick \/ FormLogin
    <2>1. now' \in 0..MaxTime /\ expires' \in 0..(MaxTime + Lifetime) /\ loginsSent' \in 0..MaxLogins
      BY <1>8 DEF Tick, FormLogin
    <2>2. stale' \in [Tabs -> BOOLEAN]
      BY <1>8 DEF Tick, FormLogin
    <2> QED
      BY <1>8, <2>1, <2>2 DEF Tick, FormLogin
  <1>9. CASE UNCHANGED sessionVars
    BY <1>9 DEF sessionVars
  <1> QED
    BY <1>1, <1>2, <1>3, <1>5, <1>6, <1>7, <1>8, <1>9
       DEF AdminSessionNext, TabStep, Navigate, SubmitLogin, ClickLogout, Kinds

LEMMA LoadingNext ==
  AdminSessionTypeOK /\ LoadingIsQuiet /\ [AdminSessionNext]_sessionVars => LoadingIsQuiet'
  <1> SUFFICES ASSUME AdminSessionTypeOK, LoadingIsQuiet, [AdminSessionNext]_sessionVars
               PROVE  LoadingIsQuiet'
    OBVIOUS
  <1> USE DEF AdminSessionTypeOK, LoadingIsQuiet
  <1>1. ASSUME NEW t \in Tabs, Load(t) PROVE LoadingIsQuiet'
    BY <1>1 DEF Load
  <1>2. ASSUME NEW t \in Tabs, BuildNavbar(t) \/ OpenDialog(t) \/ CloseDialog(t)
        PROVE  LoadingIsQuiet'
    BY <1>2 DEF BuildNavbar, OpenDialog, CloseDialog
  <1>3. ASSUME NEW t \in Tabs, SubmitLogin(t) \/ ClickLogout(t) PROVE LoadingIsQuiet'
    BY <1>3 DEF SubmitLogin, ClickLogout, SendLogin
  <1>4. ASSUME NEW r \in loginNet, ServeLogin(r) \/ StoreCookie(r) PROVE LoadingIsQuiet'
    <2>1. PICK st \in {"answered", "stored"} : Becomes(r, st)
      BY <1>4 DEF ServeLogin, StoreCookie
    <2>2. \A q \in loginNet' : \E p \in loginNet : q.tab = p.tab
      BY <2>1 DEF Becomes, Request
    <2>3. UNCHANGED <<nav, modal>>
      BY <1>4 DEF ServeLogin, StoreCookie
    <2> QED
      BY <2>2, <2>3
  <1>5. ASSUME NEW r \in loginNet, Callback(r) PROVE LoadingIsQuiet'
    <2>1. r.tab \in Tabs
      BY DEF Request
    <2>2. CASE LoginDone(r)
      BY <1>1, <2>1, <2>2 DEF LoginDone
    <2>3. CASE LoginRefused(r) \/ LogoutDone(r)
      BY <2>1, <2>3 DEF LoginRefused, LogoutDone
    <2> QED
      BY <1>5, <2>2, <2>3 DEF Callback
  <1>6. ASSUME NEW r \in loginNet, BreakLogin(r) PROVE LoadingIsQuiet'
    BY <1>6 DEF BreakLogin
  <1>7. CASE Tick \/ FormLogin \/ UNCHANGED sessionVars
    BY <1>7 DEF Tick, FormLogin, sessionVars
  <1> QED
    BY <1>1, <1>2, <1>3, <1>4, <1>5, <1>6, <1>7 DEF AdminSessionNext, TabStep, Navigate

\* Nothing a bar depends on has changed but what waits for a callback that is of no
\* consequence.
LEMMA BarIsKept ==
  ASSUME NEW t \in Tabs, BarFollows(t), UNCHANGED <<now, expires>>,
         nav'[t] = nav[t], stale'[t] = stale[t],
         \A kind \in {"login", "logout"} : Stored(t, kind)' <=> Stored(t, kind)
  PROVE  BarFollows(t)'
  BY DEF BarFollows, SignedIn

LEMMA BarNext == SessionInv /\ [AdminSessionNext]_sessionVars => BarFollowsJar'
  <1> SUFFICES ASSUME SessionInv, [AdminSessionNext]_sessionVars, NEW t \in Tabs
               PROVE  BarFollows(t)'
    BY DEF BarFollowsJar
  <1> USE DEF SessionInv, AdminSessionTypeOK
  <1>0. BarFollows(t)
    BY DEF BarFollowsJar
  <1>1. ASSUME NEW u \in Tabs, Load(u) PROVE BarFollows(t)'
    <2>1. CASE u = t
      BY <1>1, <2>1 DEF Load, BarFollows
    <2>2. CASE u # t
      BY <1>0, <1>1, <2>2, BarIsKept DEF Load, Stored, Unseen
    <2> QED
      BY <2>1, <2>2
  <1>2. ASSUME NEW u \in Tabs, BuildNavbar(u) PROVE BarFollows(t)'
    <2>1. CASE u = t
      <3>1. ~Stored(t, "logout")'
        BY <1>2, <2>1 DEF BuildNavbar, LoadingIsQuiet, Stored, Unseen
      <3> QED
        BY <1>2, <2>1, <3>1 DEF BuildNavbar, BarFollows, SignedIn
    <2>2. CASE u # t
      BY <1>0, <1>2, <2>2, BarIsKept DEF BuildNavbar, Stored, Unseen
    <2> QED
      BY <2>1, <2>2
  <1>3. ASSUME NEW u \in Tabs, OpenDialog(u) \/ CloseDialog(u) PROVE BarFollows(t)'
    BY <1>0, <1>3, BarIsKept DEF OpenDialog, CloseDialog, Stored, Unseen
  <1>4. ASSUME NEW u \in Tabs, NEW kind \in Kinds, SendLogin(u, kind) PROVE BarFollows(t)'
    BY <1>0, <1>4, BarIsKept DEF SendLogin, Stored, Unseen
  <1>5. ASSUME NEW r \in loginNet, ServeLogin(r) PROVE BarFollows(t)'
    BY <1>0, <1>5, BarIsKept DEF ServeLogin, Becomes, Stored, Unseen, Request
  <1>6. ASSUME NEW r \in loginNet, StoreCookie(r) PROVE BarFollows(t)'
    <2>1. r.tab \in Tabs /\ nav' = nav /\ now' = now /\ now \in Nat
      BY <1>6 DEF StoreCookie, Request
    <2>2. \A kind \in Kinds : Stored(t, kind)' <=> Stored(t, kind) \/ (r.tab = t /\ r.kind = kind)
      <3> DEFINE s == [r EXCEPT !.st = "stored"]
      <3>1. s.tab = r.tab /\ s.kind = r.kind /\ s.st = "stored"
        BY DEF Request
      <3>2. loginNet' = (loginNet \ {r}) \cup {s} /\ r.st # "stored"
        BY <1>6 DEF StoreCookie, Becomes
      <3> QED
        BY <3>1, <3>2 DEF Stored, Unseen
    <2>3. CASE r.kind = "badLogin"
      BY <1>0, <1>6, <2>1, <2>2, <2>3, BarIsKept DEF StoreCookie, Kinds
    <2>4. CASE r.kind # "badLogin" /\ r.tab # t
      <3>1. stale'[t]
        BY <1>6, <2>4 DEF StoreCookie, Disturb
      <3> QED
        BY <3>1 DEF BarFollows
    <2>5. CASE r.kind = "login" /\ r.tab = t
      BY <2>2, <2>5 DEF BarFollows, Kinds
    <2>6. CASE r.kind = "logout" /\ r.tab = t
      <3>1. ~SignedIn'
        BY <1>6, <2>1, <2>6 DEF StoreCookie, SignedIn
      <3> QED
        BY <2>2, <2>6, <3>1 DEF BarFollows, Kinds
    <2> QED
      BY <1>6, <2>3, <2>4, <2>5, <2>6 DEF StoreCookie
  <1>7. ASSUME NEW r \in loginNet, Callback(r) PROVE BarFollows(t)'
    <2>1. r.tab \in Tabs
      BY DEF Request
    <2>2. CASE LoginDone(r)
      BY <1>1, <2>1, <2>2 DEF LoginDone
    <2>3. CASE LoginRefused(r)
      BY <1>0, <2>3, BarIsKept DEF LoginRefused, Stored, Unseen
    <2>4. CASE LogoutDone(r) /\ r.tab # t
      BY <1>0, <2>1, <2>4, BarIsKept DEF LogoutDone, Stored, Unseen
    <2>5. CASE LogoutDone(r) /\ r.tab = t
      <3>1. Stored(t, "logout") /\ nav[t] # "loading"
        BY <1>7, <2>5 DEF Callback, LogoutDone, Stored, Unseen, LoadingIsQuiet
      <3>2. nav'[t] = "signIn" /\ stale' = stale /\ SignedIn' = SignedIn
        BY <2>5 DEF LogoutDone, SignedIn
      <3>3. Stored(t, "login")' <=> Stored(t, "login")
        BY <2>5 DEF LogoutDone, Stored, Unseen
      <3> QED
        BY <1>0, <3>1, <3>2, <3>3 DEF BarFollows
    <2> QED
      BY <1>7, <2>2, <2>3, <2>4, <2>5 DEF Callback
  <1>8. ASSUME NEW r \in loginNet, BreakLogin(r) PROVE BarFollows(t)'
    <2>1. CASE r.tab = t /\ r.st = "stored" /\ r.kind = "login"
      <3>1. stale'[t]
        BY <1>8, <2>1 DEF BreakLogin
      <3> QED
        BY <3>1 DEF BarFollows
    <2>2. CASE ~(r.tab = t /\ r.st = "stored" /\ r.kind = "login")
      <3>1. stale'[t] = stale[t]
        BY <1>8, <2>2 DEF BreakLogin, Request
      <3>2. \A kind \in {"login", "logout"} : Stored(t, kind)' <=> Stored(t, kind)
        BY <1>8, <2>2 DEF BreakLogin, Stored, Unseen
      <3> QED
        BY <1>0, <1>8, <3>1, <3>2, BarIsKept DEF BreakLogin
    <2> QED
      BY <2>1, <2>2
  <1>9. CASE Tick
    <2>1. stale'[t] <=> stale[t] \/ now + 1 = expires
      BY <1>9 DEF Tick
    <2>2. now + 1 # expires => (SignedIn' <=> SignedIn)
      BY <1>9 DEF Tick, SignedIn
    <2>3. nav' = nav /\ \A kind \in Kinds : Stored(t, kind)' <=> Stored(t, kind)
      BY <1>9 DEF Tick, Stored, Unseen
    <2> QED
      BY <1>0, <2>1, <2>2, <2>3 DEF BarFollows, Kinds
  <1>10. CASE FormLogin
    BY <1>10 DEF FormLogin, BarFollows
  <1>11. CASE UNCHANGED sessionVars
    BY <1>0, <1>11, BarIsKept DEF sessionVars, Stored, Unseen
  <1> QED
    BY <1>1, <1>2, <1>3, <1>4, <1>5, <1>6, <1>7, <1>8, <1>9, <1>10, <1>11
       DEF AdminSessionNext, TabStep, Navigate, SubmitLogin, ClickLogout, Kinds

LEMMA SessionInvNext == SessionInv /\ [AdminSessionNext]_sessionVars => SessionInv'
  BY SessionTypeNext, LoadingNext, BarNext DEF SessionInv

\* Typing of the session: clock, cookie, bars, dialogs and the requests under way.
THEOREM AdminSessionTypeCorrect == AdminSessionSpec => []AdminSessionTypeOK
  <1>1. SessionInv => AdminSessionTypeOK
    BY DEF SessionInv
  <1> QED
    BY <1>1, SessionInvInit, SessionInvNext, PTL DEF AdminSessionSpec

\* navbar.js: the links of a bar and the cookie agree until somebody else touches the
\* cookie, for any tabs, lifetime and number of logins and logouts.
THEOREM NavbarTellsTruth == AdminSessionSpec => []NavbarTruthful
  <1>1. SessionInv => NavbarTruthful
    BY DEF SessionInv, BarFollowsJar, BarFollows, NavbarTruthful, Stored
  <1> QED
    BY <1>1, SessionInvInit, SessionInvNext, PTL DEF AdminSessionSpec

-----------------------------------------------------------------------------
(* customers.html *)

\* A results section that shows nothing will: the answer of a form is under way.
PaneIsComing ==
    formsSent > 0 =>
        (pane.visible /\ pane.what # "nothing") \/ \E r \in formNet : r.act # "viewAll"

\* A user who waits has one request under way, the last one.
OneAtATime ==
    ~overlapped => /\ \A r \in formNet : r.n = formsSent /\ formNet = {r}
                   /\ formNet = {} => pane.n = formsSent

\* A number that this sequence handed out and that was deleted is below it, out of
\* reach.
GoneFor(ans, id) ==
    ans.code = "deleted" =>
        /\ ans.from <= sequence
        /\ ans.from = sequence => id \in 1..last /\ id \notin Ids(customers)

DeletedIsGone ==
    GoneFor(pane.ans, pane.id) /\ \A r \in formNet : GoneFor(r.ans, r.id)

\* What a step does to the table: rows go, one comes with a number never used since
\* the numbers began, or the numbers begin again.
TableMoves ==
    /\ customers' \subseteq [id : CustomerIds, key : Keys]
    /\ last' \in 0..MaxCustomerId /\ sequence' \in 1..MaxSequences
    /\ \/ Ids(customers') \subseteq Ids(customers) /\ last' = last /\ sequence' = sequence
       \/ /\ last' > last /\ Ids(customers') \subseteq Ids(customers) \cup {last'}
          /\ sequence' = sequence
       \/ sequence' = sequence + 1

CustomersInv == CustomersPageTypeOK /\ PaneIsComing /\ OneAtATime /\ DeletedIsGone

\* The answers a handler gives.
LEMMA AnswersHaveType ==
  /\ Pending \in Answers /\ Refusal \in Answers /\ Unreadable \in Answers
  /\ Reply("added", {}, NoSequence) \in Answers
  /\ \A ids \in SUBSET CustomerIds : Reply("rows", ids, NoSequence) \in Answers
  /\ \A from \in 0..MaxSequences : Reply("deleted", {}, from) \in Answers
  BY CustomersPageAssumption DEF CustomersPageAssumption, NoSequence, Pending, Refusal, Unreadable, Reply, Answers, Codes

LEMMA CustomersInvInit == CustomersPageInit => CustomersInv
  <1> SUFFICES ASSUME CustomersPageInit PROVE CustomersInv
    OBVIOUS
  <1>1. EmptyPane \in [visible : BOOLEAN, what : {"nothing", "table", "json", "added", "failed"},
                       n : 0..MaxForms, id : CustomerIds \cup {NoId}, ans : Answers]
    BY CustomersPageAssumption, AnswersHaveType DEF CustomersPageAssumption, EmptyPane
  <1>2. 0 \in 0..MaxCustomerId /\ 0 \in 0..MaxForms /\ 1 \in 1..MaxSequences
    BY CustomersPageAssumption DEF CustomersPageAssumption
  <1>4. CustomersPageTypeOK
    BY <1>1, <1>2 DEF CustomersPageInit, CustomersPageTypeOK
  <1>3. EmptyPane.ans.code = "pending" /\ EmptyPane.n = 0
    BY DEF EmptyPane, Pending, Reply
  <1> QED
    BY <1>3, <1>4 DEF CustomersPageInit, CustomersInv, PaneIsComing, OneAtATime, DeletedIsGone,
       GoneFor

\* What a step of a handler does to the requests: one of them gets an answer.
LEMMA OneIsAnswered ==
  ASSUME CustomersPageTypeOK, NEW r \in formNet, NEW ans \in Answers, AnswerWith(r, ans)
  PROVE  /\ formNet' \subseteq [n : 1..MaxForms, act : Acts, id : CustomerIds \cup {NoId},
                                key : Keys \cup {NoKey}, ans : Answers]
         /\ formNet' = (formNet \ {r}) \cup {[r EXCEPT !.ans = ans]}
         /\ [r EXCEPT !.ans = ans].ans = ans
         /\ \A f \in {"n", "act", "id", "key"} : [r EXCEPT !.ans = ans][f] = r[f]
  BY DEF CustomersPageTypeOK, AnswerWith

\* An insert takes a number behind the sequence.
LEMMA InsertMovesTable ==
  ASSUME CustomersPageTypeOK, NEW key \in Keys, Insert(key)
  PROVE  TableMoves
  <1>1. PICK n \in CustomerIds :
          /\ n > last /\ customers' = customers \cup {[id |-> n, key |-> key]}
          /\ last' = n /\ sequence' = sequence
    BY DEF Insert, NextRowid
  <1>2. Ids(customers') \subseteq Ids(customers) \cup {n}
    BY <1>1 DEF Ids
  <1>3. customers' \subseteq [id : CustomerIds, key : Keys]
    BY <1>1 DEF CustomersPageTypeOK
  <1>4. last' \in 0..MaxCustomerId /\ sequence' \in 1..MaxSequences
    BY <1>1, CustomersPageAssumption
       DEF CustomersPageAssumption, CustomersPageTypeOK, CustomerIds
  <1> QED
    BY <1>1, <1>2, <1>3, <1>4 DEF TableMoves

\* A table that only loses rows.
LEMMA DeleteMovesTable ==
  ASSUME CustomersPageTypeOK, customers' \subseteq customers, UNCHANGED <<last, sequence>>
  PROVE  TableMoves
  BY DEF TableMoves, CustomersPageTypeOK, Ids

\* Every step of the server that answers a request, by the answer it gives.
LEMMA ServeGivesAnswer ==
  ASSUME CustomersPageTypeOK, NEW r \in formNet, ServeForm(r) \/ BreakForm(r)
  PROVE  /\ \E ans \in Answers :
              /\ AnswerWith(r, ans)
              /\ ans.code = "deleted" =>
                   /\ ans.from <= sequence
                   /\ ans.from = sequence => r.id \in 1..last
                   /\ customers' = {c \in customers : c.id # r.id}
                   /\ UNCHANGED <<last, sequence>>
         /\ TableMoves
  <1>1. CASE ServeList(r)
    <2>1. Ids(Selected(r)) \subseteq CustomerIds
      BY DEF Ids, Selected, CustomersPageTypeOK
    <2>2. \E ans \in Answers : AnswerWith(r, ans) /\ ans.code # "deleted"
      BY <1>1, <2>1, AnswersHaveType DEF ServeList, Reply, Unreadable
    <2> QED
      BY <1>1, <2>2, DeleteMovesTable DEF ServeList, tableVars
  <1>2. CASE ServeDelete(r)
    <2>1. PICK from : from = IF r.id \in 1..last THEN sequence ELSE NoSequence
      OBVIOUS
    <2>2. from \in 0..MaxSequences /\ from <= sequence /\ (from = sequence => r.id \in 1..last)
      BY <2>1, CustomersPageAssumption
         DEF CustomersPageAssumption, CustomersPageTypeOK, NoSequence
    <2>3. /\ AnswerWith(r, Reply("deleted", {}, from))
          /\ customers' = {c \in customers : c.id # r.id} /\ UNCHANGED <<last, sequence>>
      BY <1>2, <2>1 DEF ServeDelete
    <2>4. Reply("deleted", {}, from) \in Answers /\ Reply("deleted", {}, from).from = from
      BY <2>2, AnswersHaveType DEF Reply
    <2>5. TableMoves
      BY <2>3, DeleteMovesTable
    <2> QED
      BY <2>2, <2>3, <2>4, <2>5
  <1>3. CASE ServeAdd(r)
    <2>1. CASE r.key = NoKey
      BY <1>3, <2>1, AnswersHaveType, DeleteMovesTable DEF ServeAdd, Reply, Unreadable, tableVars
    <2>2. CASE r.key # NoKey
      <3>1. r.key \in Keys
        BY <2>2 DEF CustomersPageTypeOK
      <3>2. Insert(r.key) /\ AnswerWith(r, Reply("added", {}, NoSequence))
        BY <1>3, <2>2 DEF ServeAdd
      <3>3. TableMoves
        BY <3>1, <3>2, InsertMovesTable
      <3>4. Reply("added", {}, NoSequence).code # "deleted"
        BY DEF Reply
      <3> QED
        BY <3>2, <3>3, <3>4, AnswersHaveType
    <2> QED
      BY <2>1, <2>2
  <1>4. CASE ServeRefused(r)
    BY <1>4, AnswersHaveType, DeleteMovesTable DEF ServeRefused, Refusal, Reply, tableVars
  <1>5. CASE BreakForm(r)
    BY <1>5, AnswersHaveType, DeleteMovesTable DEF BreakForm, Unreadable, Reply, tableVars
  <1> QED
    BY <1>1, <1>2, <1>3, <1>4, <1>5 DEF ServeForm

\* What is gone stays gone, whatever happens to the table.
LEMMA GoneStaysGone ==
  ASSUME CustomersPageTypeOK, TableMoves, NEW ans \in Answers, NEW id, GoneFor(ans, id)
  PROVE  GoneFor(ans, id)'
  <1>1. ans.from \in Nat /\ sequence \in Nat /\ sequence' \in Nat /\ last \in Nat /\ last' \in Nat
    BY CustomersPageAssumption DEF CustomersPageAssumption, CustomersPageTypeOK, TableMoves, Answers
  <1>2. CASE sequence' = sequence + 1
    BY <1>1, <1>2 DEF GoneFor
  <1>3. CASE sequence' = sequence
    BY <1>1, <1>3 DEF GoneFor, TableMoves
  <1> QED
    BY <1>2, <1>3 DEF TableMoves

LEMMA CustomersInvNext == CustomersInv /\ [CustomersPageNext]_customersPageVars => CustomersInv'
  <1> SUFFICES ASSUME CustomersInv, [CustomersPageNext]_customersPageVars PROVE CustomersInv'
    OBVIOUS
  <1> USE CustomersPageAssumption DEF CustomersPageAssumption, CustomersInv
  <1>2. ASSUME NEW act \in Acts, NEW id \in CustomerIds \cup {NoId}, NEW key \in Keys \cup {NoKey},
               SendForm(act, id, key),
               \/ pane' = EmptyPane /\ act # "viewAll"
               \/ UNCHANGED pane /\ pane.visible /\ pane.what = "added"
        PROVE  CustomersInv'
    <2> DEFINE new == [n |-> formsSent + 1, act |-> act, id |-> id, key |-> key, ans |-> Pending]
    <2>1. /\ formNet' = formNet \cup {new} /\ formsSent' = formsSent + 1
          /\ formsSent < MaxForms /\ UNCHANGED <<customers, last, sequence>>
          /\ new.n = formsSent + 1 /\ new.act = act /\ new.ans = Pending
      BY <1>2 DEF SendForm, tableVars
    <2>2. new \in [n : 1..MaxForms, act : Acts, id : CustomerIds \cup {NoId},
                  key : Keys \cup {NoKey}, ans : Answers]
      BY <2>1, AnswersHaveType DEF CustomersPageTypeOK
    <2> HIDE DEF new
    <2>3. /\ EmptyPane \in [visible : BOOLEAN, what : {"nothing", "table", "json", "added", "failed"},
                            n : 0..MaxForms, id : CustomerIds \cup {NoId}, ans : Answers]
          /\ EmptyPane.ans = Pending /\ EmptyPane.id = NoId
      BY AnswersHaveType DEF EmptyPane
    <2>4. overlapped' \in BOOLEAN /\ (~overlapped' => ~overlapped /\ formNet = {})
      BY <1>2, Zenon DEF SendForm
    <2>5. CustomersPageTypeOK'
      BY <1>2, <2>1, <2>2, <2>3, <2>4 DEF CustomersPageTypeOK
    <2>6. PaneIsComing'
      BY <1>2, <2>1 DEF PaneIsComing
    <2>7. OneAtATime'
      BY <2>1, <2>4 DEF OneAtATime
    <2>8. Pending.code # "deleted"
      BY DEF Pending, Reply
    <2>9. DeletedIsGone'
      BY <1>2, <2>1, <2>3, <2>8 DEF DeletedIsGone, GoneFor
    <2> QED
      BY <2>5, <2>6, <2>7, <2>9
  <1>3. ASSUME NEW r \in formNet, ReceiveAnswer(r) PROVE CustomersInv'
    <2>1. PICK what \in {"table", "json", "added", "failed"} : pane' = ShowIn(r, what)
      BY <1>3 DEF ReceiveAnswer
    <2>2. /\ formNet' = formNet \ {r}
          /\ UNCHANGED <<customers, last, sequence, formsSent, overlapped>>
      BY <1>3 DEF ReceiveAnswer, tableVars
    <2>3. /\ pane'.visible = (pane.visible \/ r.act # "viewAll")
          /\ pane'.what = what /\ pane'.n = r.n /\ pane'.id = r.id /\ pane'.ans = r.ans
      BY <2>1 DEF ShowIn
    <2>4. CustomersPageTypeOK'
      BY <2>1, <2>2 DEF CustomersPageTypeOK, ShowIn
    <2>5. PaneIsComing'
      BY <2>2, <2>3 DEF PaneIsComing
    <2>6. OneAtATime'
      BY <2>2, <2>3 DEF OneAtATime
    <2>7. DeletedIsGone'
      BY <2>2, <2>3 DEF DeletedIsGone, GoneFor
    <2> QED
      BY <2>4, <2>5, <2>6, <2>7
  <1>4. ASSUME NEW r \in formNet, ServeForm(r) \/ BreakForm(r) PROVE CustomersInv'
    <2>1. PICK ans \in Answers :
            /\ AnswerWith(r, ans)
            /\ ans.code = "deleted" =>
                 /\ ans.from <= sequence
                 /\ ans.from = sequence => r.id \in 1..last
                 /\ customers' = {c \in customers : c.id # r.id}
                 /\ UNCHANGED <<last, sequence>>
      BY <1>4, ServeGivesAnswer
    <2> DEFINE s == [r EXCEPT !.ans = ans]
    <2>2. /\ formNet' \subseteq [n : 1..MaxForms, act : Acts, id : CustomerIds \cup {NoId},
                                key : Keys \cup {NoKey}, ans : Answers]
          /\ formNet' = (formNet \ {r}) \cup {s}
          /\ s.ans = ans /\ s.act = r.act /\ s.n = r.n /\ s.id = r.id
          /\ UNCHANGED <<formsSent, pane, overlapped>>
      BY <2>1, OneIsAnswered DEF AnswerWith
    <2>3. TableMoves
      BY <1>4, ServeGivesAnswer
    <2>4. CustomersPageTypeOK'
      BY <2>2, <2>3 DEF CustomersPageTypeOK, TableMoves
    <2>5. PaneIsComing'
      BY <2>2 DEF PaneIsComing
    <2>6. OneAtATime'
      BY <2>2 DEF OneAtATime
    <2>7. DeletedIsGone'
      <3>1. GoneFor(pane.ans, pane.id)' /\ \A q \in formNet : GoneFor(q.ans, q.id)'
        <4>1. GoneFor(pane.ans, pane.id)'
          BY <2>2, <2>3, GoneStaysGone DEF DeletedIsGone, CustomersPageTypeOK
        <4>2. ASSUME NEW q \in formNet PROVE GoneFor(q.ans, q.id)'
          BY <2>3, <4>2, GoneStaysGone DEF DeletedIsGone, CustomersPageTypeOK
        <4> QED
          BY <4>1, <4>2
      <3>2. GoneFor(ans, r.id)'
        BY <2>1 DEF GoneFor, Ids
      <3> QED
        BY <2>2, <3>1, <3>2 DEF DeletedIsGone
    <2> QED
      BY <2>4, <2>5, <2>6, <2>7
  <1>5. CASE OtherCustomerWriter
    <2>1. TableMoves
      <3>1. CASE \E k \in Keys : Insert(k)
        BY <3>1, InsertMovesTable
      <3>2. CASE \E id \in Ids(customers) :
                   customers' = {c \in customers : c.id # id} /\ UNCHANGED <<last, sequence>>
        BY <3>2, DeleteMovesTable
      <3>3. CASE RebuildTable
        <4>1. CASE customers' = {} /\ UNCHANGED <<last, sequence>>
          BY <4>1, DeleteMovesTable
        <4>2. CASE /\ sequence < MaxSequences /\ sequence' = sequence + 1
                   /\ last' = 0 /\ UNCHANGED customers
          BY <4>2 DEF TableMoves, CustomersPageTypeOK
        <4> QED
          BY <3>3, <4>1, <4>2 DEF RebuildTable
      <3> QED
        BY <1>5, <3>1, <3>2, <3>3 DEF OtherCustomerWriter
    <2>2. UNCHANGED <<formNet, formsSent, pane, overlapped>>
      BY <1>5 DEF OtherCustomerWriter
    <2>3. DeletedIsGone'
      <3>1. GoneFor(pane.ans, pane.id)'
        BY <2>1, <2>2, GoneStaysGone DEF DeletedIsGone, CustomersPageTypeOK
      <3>2. ASSUME NEW q \in formNet PROVE GoneFor(q.ans, q.id)'
        BY <2>1, <3>2, GoneStaysGone DEF DeletedIsGone, CustomersPageTypeOK
      <3> QED
        BY <2>2, <3>1, <3>2 DEF DeletedIsGone
    <2> QED
      BY <2>1, <2>2, <2>3 DEF CustomersPageTypeOK, PaneIsComing, OneAtATime, TableMoves
  <1>6. CASE UNCHANGED customersPageVars
    BY <1>6 DEF customersPageVars, tableVars, CustomersPageTypeOK, PaneIsComing, OneAtATime,
       DeletedIsGone, GoneFor
  <1>7. CASE Submit
    BY <1>2, <1>7 DEF Submit, Acts, Lists
  <1>8. CASE ViewAll
    BY <1>2, <1>8 DEF ViewAll, Acts, Lists
  <1> QED
    BY <1>3, <1>4, <1>5, <1>6, <1>7, <1>8 DEF CustomersPageNext, Answering

\* Typing of customers.html: the table, the requests under way and the results section.
THEOREM CustomersPageTypeCorrect == CustomersPageSpec => []CustomersPageTypeOK
  <1>1. CustomersInv => CustomersPageTypeOK
    BY DEF CustomersInv
  <1> QED
    BY <1>1, CustomersInvInit, CustomersInvNext, PTL DEF CustomersPageSpec

\* customers.html: the results section is shown when all requests have come back, and
\* tells a user who waited the answer to the last click, for any number of requests.
THEOREM PaneTellsTheLastAnswer == CustomersPageSpec => []PaneTellsLastAnswer
  <1>1. CustomersInv => PaneTellsLastAnswer
    BY DEF CustomersInv, PaneIsComing, OneAtATime, PaneTellsLastAnswer, PaneSettles, PaneIsCurrent
  <1> QED
    BY <1>1, CustomersInvInit, CustomersInvNext, PTL DEF CustomersPageSpec

\* DELETE /api/customers: a number that was confirmed as deleted is nobody's and stays
\* so, whoever adds customers, until the numbers start over, for any number of them.
THEOREM DeletedNumbersStayGone == CustomersPageSpec => []DeletedStaysGone
  <1>1. CustomersInv => DeletedStaysGone
    BY DEF CustomersInv, DeletedIsGone, GoneFor, DeletedStaysGone
  <1> QED
    BY <1>1, CustomersInvInit, CustomersInvNext, PTL DEF CustomersPageSpec

-----------------------------------------------------------------------------
(* billing.html *)

\* A number is one person's.
PayersAreNumbered == \A c, d \in payers : c.id = d.id => c = d

\* A row of a table loaded in the epoch that still lasts: its Overdue bill is still
\* there as it was, and nobody but its owner has the customer's number.
RowStands(row, e) ==
    /\ e <= epoch
    /\ e = epoch /\ row.bill.status = "Overdue" => row.bill \in bills
    /\ e = epoch /\ row.owner # Nobody =>
          row.bill.cust <= lastPayer /\ \A c \in payers : c.id = row.bill.cust => c.who = row.owner

RowsStand ==
    /\ \A row \in table.rows : RowStands(row, table.epoch)
    /\ \A r \in billNet : r.kind = "bills" => \A row \in r.table.rows : RowStands(row, r.table.epoch)
    /\ \A r \in billNet : r.kind = "reminder" => r.row.bill.status = "Overdue" /\ RowStands(r.row, r.epoch)

\* A mail is right when it is written, and it is not written again.
LettersAreRight ==
    \A r \in billNet : r.kind = "letter" /\ r.letter.epoch = r.letter.served =>
        /\ r.letter.due <= r.letter.row.bill.due
        /\ r.letter.row.owner # Nobody => r.letter.who = r.letter.row.owner

\* A user who waits has one request under way; if it is a load it is the last one.
OneLoadAtATime ==
    orderly => \A r \in billNet : billNet = {r} /\ LoadOf(r) \in {0, loadsSent}

BillingInv ==
    /\ BillingPageTypeOK /\ PayersAreNumbered
    /\ RowsStand /\ LettersAreRight
    /\ OneLoadAtATime /\ TableIsLastAnswer

\* The requests of the tab and the numbers of the loads they are.
LEMMA RequestKinds ==
  ASSUME NEW r \in BillRequest
  PROVE  /\ r.kind \in {"list", "bills", "reminder", "letter", "noBill"}
         /\ r.kind = "list" => r.n \in 1..MaxLoads /\ r.filter \in Filters /\ LoadOf(r) = r.n
         /\ r.kind = "bills" => r.table \in Table /\ r.table.n \in 1..MaxLoads /\ LoadOf(r) = r.table.n
         /\ r.kind = "reminder" => r.row \in Row /\ r.epoch \in 0..MaxEpochs /\ LoadOf(r) = 0
         /\ r.kind = "letter" => r.letter \in Letter /\ LoadOf(r) = 0
         /\ r.kind = "noBill" => LoadOf(r) = 0
  BY BillingPageAssumption DEF BillingPageAssumption, BillRequest, LoadOf, Table

LEMMA BillingInvInit == BillingPageInit => BillingInv
  <1> SUFFICES ASSUME BillingPageInit PROVE BillingInv
    OBVIOUS
  <1>0. 1 \in 1..MaxLoads /\ 0 \in 0..MaxLoads /\ 0 \in 0..MaxEpochs /\ 0 \in 0..MaxBillRowid
        /\ 0 \in 0..MaxPeople
    BY BillingPageAssumption DEF BillingPageAssumption
  <1>1. /\ ListAsked(1, "") \in BillRequest /\ ListAsked(1, "").kind = "list"
        /\ ListAsked(1, "").n = 1
    BY <1>0 DEF ListAsked, BillRequest, Filters
  <1>2. LoadOf(ListAsked(1, "")) = 1
    BY <1>1, RequestKinds
  <1>3. NoTable \in Table /\ NoTable.rows = {} /\ NoTable.n = 0
    BY <1>0 DEF NoTable, Table
  <1>4. BillingPageTypeOK
    BY <1>0, <1>1, <1>3 DEF BillingPageInit, BillingPageTypeOK
  <1>5. PayersAreNumbered /\ RowsStand /\ LettersAreRight
    BY <1>1, <1>3 DEF BillingPageInit, PayersAreNumbered, RowsStand, LettersAreRight
  <1>6. OneLoadAtATime
    BY <1>2 DEF BillingPageInit, OneLoadAtATime
  <1>7. TableIsLastAnswer
    <2>1. table.n = 0 /\ loadsSent = 1
      BY <1>3 DEF BillingPageInit
    <2>2. \A m \in (table.n + 1)..loadsSent : m = 1
      BY <2>1
    <2> QED
      BY <1>2, <2>2 DEF BillingPageInit, TableIsLastAnswer
  <1> QED
    BY <1>4, <1>5, <1>6, <1>7 DEF BillingInv

\* The number of a customer's person, if there is one.
LEMMA OwnerIsPerson ==
  ASSUME BillingPageTypeOK, NEW cust
  PROVE  /\ OwnerOf(cust) \in 0..MaxPeople
         /\ OwnerOf(cust) # Nobody => \E c \in payers : c.id = cust /\ c.who = OwnerOf(cust)
  <1>1. CASE \E c \in payers : c.id = cust
    <2> DEFINE c == CHOOSE x \in payers : x.id = cust
    <2>1. c \in payers /\ c.id = cust
      BY <1>1
    <2>2. OwnerOf(cust) = c.who
      BY <1>1 DEF OwnerOf
    <2>3. c.who \in 1..MaxPeople
      BY <2>1 DEF BillingPageTypeOK
    <2> HIDE DEF c
    <2> QED
      BY <2>1, <2>2, <2>3
  <1>2. CASE ~\E c \in payers : c.id = cust
    BY <1>2, BillingPageAssumption DEF OwnerOf, Nobody, BillingPageAssumption
  <1> QED
    BY <1>1, <1>2

-----------------------------------------------------------------------------

\* A step of the other programs: rows that stood stand, the tab sees nothing.
LEMMA RowsStandWhenOthersWrite ==
  ASSUME BillingInv, OtherBillWriter
  PROVE  /\ UNCHANGED billingPageVars
         /\ \/ epoch' = epoch + 1
            \/ /\ epoch' = epoch /\ lastPayer <= lastPayer'
               /\ \A b \in bills : b.status = "Overdue" => b \in bills'
               /\ \A c \in payers' : c \in payers \/ c.id > lastPayer
         /\ PayersAreNumbered'
         /\ BillingPageTypeOK'
  <1> USE BillingPageAssumption DEF BillingPageAssumption, BillingInv, BillingPageTypeOK,
          PayersAreNumbered, BillRowids
  <1>1. CASE AddCustomer
    <2>1. PICK n \in BillRowids :
            /\ n > lastPayer /\ \A c \in payers : n > c.id
            /\ payers' = payers \cup {[id |-> n, who |-> people + 1]}
            /\ lastPayer' = n
      BY <1>1 DEF AddCustomer, NextNumber
    <2>2. /\ people < MaxPeople /\ people' = people + 1
          /\ UNCHANGED <<bills, lastBill, epoch, billingPageVars>>
      BY <1>1 DEF AddCustomer
    <2>3. PayersAreNumbered'
      BY <2>1
    <2> QED
      BY <2>1, <2>2, <2>3 DEF billingPageVars
  <1>2. CASE DeleteCustomer
    BY <1>2 DEF DeleteCustomer, billingPageVars
  <1>3. CASE IssueBill
    <2>1. PICK n \in BillRowids, cust \in BillRowids, due \in Days, status \in BillStatuses :
            /\ bills' = bills \cup {[id |-> n, cust |-> cust, due |-> due, status |-> status]}
            /\ lastBill' = n
      BY <1>3 DEF IssueBill
    <2>2. bills' \subseteq Bill
      BY <2>1 DEF Bill
    <2> QED
      BY <1>3, <2>1, <2>2 DEF IssueBill, billingPageVars
  <1>4. CASE FlagOverdue
    <2>1. PICK day \in Days :
            bills' = {IF b.status = "Unpaid" /\ b.due <= day
                      THEN [b EXCEPT !.status = "Overdue"] ELSE b : b \in bills}
      BY <1>4 DEF FlagOverdue
    <2>4. "Overdue" \in BillStatuses
      BY DEF BillStatuses, Filters
    <2>2. bills' \subseteq Bill
      BY <2>1, <2>4 DEF Bill
    <2>3. \A b \in bills : b.status = "Overdue" => b \in bills'
      BY <2>1
    <2> QED
      BY <1>4, <2>2, <2>3 DEF FlagOverdue, billingPageVars
  <1>5. CASE RebuildCustomers
    BY <1>5 DEF RebuildCustomers, billingPageVars
  <1>6. CASE RebuildBills
    BY <1>6 DEF RebuildBills, billingPageVars
  <1>7. CASE RestartCustomerNumbers
    BY <1>7 DEF RestartCustomerNumbers, billingPageVars
  <1>8. CASE RestartBillNumbers
    BY <1>8 DEF RestartBillNumbers, billingPageVars
  <1> QED
    BY <1>1, <1>2, <1>3, <1>4, <1>5, <1>6, <1>7, <1>8 DEF OtherBillWriter

\* A request goes under way, or one is replaced or taken away; the tables stay.
LEMMA RowStandsStays ==
  ASSUME UNCHANGED dbVars, NEW row, NEW e, RowStands(row, e)
  PROVE  RowStands(row, e)'
  BY DEF RowStands, dbVars

LEMMA ServedRowsStand ==
  ASSUME BillingInv, NEW r \in billNet, ServeBills(r)
  PROVE  \E ans \in BillRequest :
           /\ AnswerWithBills(r, ans) /\ ans.kind = "bills" /\ LoadOf(ans) = LoadOf(r)
           /\ \A row \in ans.table.rows : RowStands(row, ans.table.epoch)
  <1> USE DEF BillingInv
  <1>1. PICK seen \in {BillsWith(r.filter), {}} :
          AnswerWithBills(r, [kind |-> "bills",
             table |-> [n |-> r.n, epoch |-> epoch,
                        rows |-> {[bill |-> b, owner |-> OwnerOnRecord(b.cust)] : b \in seen}]])
    BY DEF ServeBills
  <1> DEFINE rows == {[bill |-> b, owner |-> OwnerOnRecord(b.cust)] : b \in seen}
             t == [n |-> r.n, epoch |-> epoch, rows |-> rows]
             ans == [kind |-> "bills", table |-> t]
  <1>2. r.n \in 1..MaxLoads /\ LoadOf(r) = r.n /\ epoch \in 0..MaxEpochs
    BY RequestKinds DEF ServeBills, BillingPageTypeOK
  <1>3. seen \subseteq bills /\ bills \subseteq Bill
    BY DEF BillsWith, BillingPageTypeOK
  <1>4. ASSUME NEW b \in seen
        PROVE  /\ [bill |-> b, owner |-> OwnerOnRecord(b.cust)] \in Row
               /\ RowStands([bill |-> b, owner |-> OwnerOnRecord(b.cust)], epoch)
    <2>1. b \in bills /\ b \in Bill
      BY <1>3
    <2>2. PICK o \in 0..MaxPeople : o = OwnerOnRecord(b.cust)
      BY OwnerIsPerson, BillingPageAssumption DEF OwnerOnRecord, Nobody, BillingPageAssumption
    <2>3. o # Nobody => /\ b.cust <= lastPayer
                        /\ \E c \in payers : c.id = b.cust /\ c.who = o
      BY <2>2, OwnerIsPerson DEF OwnerOnRecord
    <2>4. o # Nobody => b.cust <= lastPayer /\ \A c \in payers : c.id = b.cust => c.who = o
      BY <2>3 DEF PayersAreNumbered
    <2>5. [bill |-> b, owner |-> o] \in Row
      BY <2>1 DEF Row
    <2>6. epoch <= epoch
      BY <1>2
    <2>7. RowStands([bill |-> b, owner |-> o], epoch)
      BY <2>1, <2>4, <2>6 DEF RowStands
    <2> QED
      BY <2>2, <2>5, <2>7
  <1>5. rows \subseteq Row /\ \A row \in rows : RowStands(row, epoch)
    BY <1>4
  <1>6. t \in Table /\ t.n = r.n /\ t.epoch = epoch /\ t.rows = rows /\ t.n # 0
    BY <1>2, <1>5 DEF Table
  <1> HIDE DEF t, rows
  <1>7. ans \in BillRequest /\ ans.kind = "bills" /\ ans.table = t
    BY <1>6 DEF BillRequest
  <1>8. LoadOf(ans) = LoadOf(r)
    BY <1>2, <1>6, <1>7, RequestKinds
  <1>9. AnswerWithBills(r, ans)
    BY <1>1 DEF t, rows
  <1> QED
    BY <1>5, <1>6, <1>7, <1>8, <1>9

LEMMA ServedLetterIsRight ==
  ASSUME BillingInv, NEW r \in billNet, ServeBillInfo(r)
  PROVE  \E ans \in BillRequest :
           /\ AnswerWithBills(r, ans) /\ ans.kind \in {"letter", "noBill"} /\ LoadOf(r) = 0
           /\ ans.kind = "letter" /\ ans.letter.epoch = ans.letter.served =>
                /\ ans.letter.due <= ans.letter.row.bill.due
                /\ ans.letter.row.owner # Nobody => ans.letter.who = ans.letter.row.owner
  <1> USE DEF BillingInv
  <1> DEFINE cust == r.row.bill.cust
  <1>1. /\ r.kind = "reminder" /\ r.row \in Row /\ r.epoch \in 0..MaxEpochs /\ LoadOf(r) = 0
        /\ r.row.bill.status = "Overdue" /\ RowStands(r.row, r.epoch)
    BY RequestKinds DEF ServeBillInfo, RowsStand, BillingPageTypeOK
  <1>2. CASE OverdueOf(cust) # {} /\ OwnerOf(cust) # Nobody
    <2>1. PICK b \in bills :
            /\ b.cust = cust /\ OldestOverdue(b)
            /\ AnswerWithBills(r, [kind |-> "letter",
                  letter |-> [row |-> r.row, epoch |-> r.epoch, served |-> epoch, due |-> b.due,
                              who |-> OwnerOf(cust)]])
      BY <1>2 DEF ServeBillInfo
    <2>2. PICK who \in 0..MaxPeople : who = OwnerOf(cust) /\ who \in 1..MaxPeople
      BY <1>2, OwnerIsPerson, BillingPageAssumption DEF BillingPageAssumption, Nobody
    <2> DEFINE m == [row |-> r.row, epoch |-> r.epoch, served |-> epoch, due |-> b.due, who |-> who]
               ans == [kind |-> "letter", letter |-> m]
    <2>3. /\ m \in Letter /\ m.row = r.row /\ m.epoch = r.epoch /\ m.served = epoch
          /\ m.due = b.due /\ m.who = who
      BY <1>1, <2>2 DEF Letter, BillingPageTypeOK, Bill
    <2>4. r.epoch = epoch => b.due <= r.row.bill.due
      BY <1>1, <2>1 DEF RowStands, OldestOverdue, OverdueOf
    <2>5. r.epoch = epoch /\ r.row.owner # Nobody => who = r.row.owner
      <3>1. \E c \in payers : c.id = cust /\ c.who = who
        BY <1>2, <2>2, OwnerIsPerson
      <3> QED
        BY <1>1, <3>1 DEF RowStands
    <2> HIDE DEF m
    <2>6. ans \in BillRequest /\ ans.kind = "letter" /\ ans.letter = m
      BY <2>3 DEF BillRequest
    <2>7. AnswerWithBills(r, ans)
      BY <2>1, <2>2 DEF m
    <2> QED
      BY <1>1, <2>3, <2>4, <2>5, <2>6, <2>7
  <1>3. CASE ~(OverdueOf(cust) # {} /\ OwnerOf(cust) # Nobody)
    <2>1. AnswerWithBills(r, [kind |-> "noBill"])
      BY <1>3 DEF ServeBillInfo
    <2>2. [kind |-> "noBill"] \in BillRequest /\ [kind |-> "noBill"].kind = "noBill"
      BY DEF BillRequest
    <2> QED
      BY <1>1, <2>1, <2>2
  <1> QED
    BY <1>2, <1>3

\* What BillingInv asks of a request under way.
RequestStands(r) ==
    /\ r \in BillRequest
    /\ r.kind = "bills" => \A row \in r.table.rows : RowStands(row, r.table.epoch)
    /\ r.kind = "reminder" => r.row.bill.status = "Overdue" /\ RowStands(r.row, r.epoch)
    /\ r.kind = "letter" /\ r.letter.epoch = r.letter.served =>
          /\ r.letter.due <= r.letter.row.bill.due
          /\ r.letter.row.owner # Nobody => r.letter.who = r.letter.row.owner

LEMMA RequestsStand ==
  RowsStand /\ LettersAreRight /\ billNet \subseteq BillRequest
  <=> /\ \A r \in billNet : RequestStands(r)
      /\ \A row \in table.rows : RowStands(row, table.epoch)
  BY DEF RowsStand, LettersAreRight, RequestStands

\* A request that stands stands as long as the tables stay.
LEMMA RequestStandsStays ==
  ASSUME UNCHANGED dbVars, NEW r, RequestStands(r)
  PROVE  RequestStands(r)'
  BY RowStandsStays DEF RequestStands

\* The steps of the tab and of the handlers: what is asked of the requests and of the table
\* shown is left to the caller, the rest is that the tables are not touched.
LEMMA TabStepKeepsRows ==
  ASSUME BillingInv, UNCHANGED dbVars,
         \A r \in billNet' : r \in billNet \/ RequestStands(r),
         table' = table \/ \E r \in billNet : r.kind = "bills" /\ table' = r.table,
         loadsSent' \in 1..MaxLoads, lost' \subseteq 1..MaxLoads, orderly' \in BOOLEAN
  PROVE  BillingPageTypeOK' /\ PayersAreNumbered' /\ RowsStand' /\ LettersAreRight'
  <1> USE DEF BillingInv
  <1>1. /\ \A r \in billNet : RequestStands(r)
        /\ \A row \in table.rows : RowStands(row, table.epoch)
    BY RequestsStand DEF BillingPageTypeOK
  <1>2. \A r \in billNet' : RequestStands(r)'
    BY <1>1, RequestStandsStays
  <1>3. table' \in Table /\ \A row \in table'.rows : RowStands(row, table'.epoch)
    BY <1>1, RequestKinds DEF RequestStands, BillingPageTypeOK
  <1>4. PICK shown : shown = table'
    OBVIOUS
  <1>5. \A row \in shown.rows : RowStands(row, shown.epoch)'
    BY <1>3, <1>4, RowStandsStays
  <1>6. (\A row \in table.rows : RowStands(row, table.epoch))'
    BY <1>4, <1>5 DEF RowStands
  <1>7. RowsStand' /\ LettersAreRight' /\ billNet' \subseteq BillRequest
    BY <1>2, <1>6 DEF RowsStand, LettersAreRight, RequestStands
  <1> QED
    BY <1>3, <1>7 DEF BillingPageTypeOK, PayersAreNumbered, dbVars

LEMMA BillingInvNext == BillingInv /\ [BillingPageNext]_billingVars => BillingInv'
  <1> SUFFICES ASSUME BillingInv, [BillingPageNext]_billingVars PROVE BillingInv'
    OBVIOUS
  <1> USE DEF BillingInv
  <1>0. /\ table.n \in 0..MaxLoads /\ loadsSent \in 1..MaxLoads /\ MaxLoads \in Nat
        /\ lost \subseteq 1..MaxLoads /\ orderly \in BOOLEAN /\ table \in Table
        /\ \A r \in billNet : r \in BillRequest
    BY BillingPageAssumption DEF BillingPageTypeOK, Table, BillingPageAssumption
  \* A request is sent.
  <1>1. ASSUME NEW new \in BillRequest, RequestStands(new), UNCHANGED <<dbVars, table, lost>>,
               billNet' = billNet \cup {new}, orderly' <=> orderly /\ billNet = {}, orderly' \in BOOLEAN,
               \/ loadsSent' = loadsSent + 1 /\ loadsSent < MaxLoads /\ LoadOf(new) = loadsSent + 1
               \/ loadsSent' = loadsSent /\ LoadOf(new) = 0
        PROVE  BillingInv'
    <2>1. loadsSent' \in 1..MaxLoads
      BY <1>0, <1>1
    <2>2. BillingPageTypeOK' /\ PayersAreNumbered' /\ RowsStand' /\ LettersAreRight'
      BY <1>0, <1>1, <2>1, TabStepKeepsRows
    <2>3. OneLoadAtATime'
      BY <1>1 DEF OneLoadAtATime
    <2>4. TableIsLastAnswer'
      <3>1. SUFFICES ASSUME orderly', NEW m \in (table.n + 1)..loadsSent'
                     PROVE  m \in lost \/ \E r \in billNet' : LoadOf(r) = m
        BY <1>1 DEF TableIsLastAnswer
      <3>2. CASE m \in (table.n + 1)..loadsSent
        BY <1>1, <3>1, <3>2 DEF TableIsLastAnswer
      <3>3. CASE m = loadsSent + 1 /\ LoadOf(new) = loadsSent + 1
        BY <1>1, <3>3
      <3> QED
        BY <1>0, <1>1, <3>1, <3>2, <3>3
    <2> QED
      BY <2>2, <2>3, <2>4
  \* A request is answered by another one, or by nothing.
  <1>2. ASSUME NEW r \in billNet, NEW ans \in BillRequest, RequestStands(ans),
               LoadOf(ans) = LoadOf(r), AnswerWithBills(r, ans)
        PROVE  BillingInv'
    <2>1. /\ billNet' = (billNet \ {r}) \cup {ans}
          /\ UNCHANGED <<dbVars, table, loadsSent, orderly, lost>>
      BY <1>2 DEF AnswerWithBills
    <2>2. BillingPageTypeOK' /\ PayersAreNumbered' /\ RowsStand' /\ LettersAreRight'
      BY <1>0, <1>2, <2>1, TabStepKeepsRows
    <2>3. OneLoadAtATime' /\ TableIsLastAnswer'
      BY <1>2, <2>1 DEF OneLoadAtATime, TableIsLastAnswer
    <2> QED
      BY <2>2, <2>3
  <1>3. ASSUME NEW r \in billNet, billNet' = billNet \ {r}, LoadOf(r) = 0,
               UNCHANGED <<dbVars, table, loadsSent, orderly, lost>>
        PROVE  BillingInv'
    <2>1. BillingPageTypeOK' /\ PayersAreNumbered' /\ RowsStand' /\ LettersAreRight'
      BY <1>0, <1>3, TabStepKeepsRows
    <2>2. OneLoadAtATime'
      BY <1>3 DEF OneLoadAtATime
    <2>3. TableIsLastAnswer'
      BY <1>0, <1>3 DEF TableIsLastAnswer
    <2> QED
      BY <2>1, <2>2, <2>3
  <1>4. CASE LoadBills
    <2>1. PICK f \in Filters : billNet' = billNet \cup {ListAsked(loadsSent + 1, f)}
      BY <1>4 DEF LoadBills
    <2>2. PICK new : new = ListAsked(loadsSent + 1, f)
      OBVIOUS
    <2>3. new \in BillRequest /\ new.kind = "list" /\ new.n = loadsSent + 1
      BY <1>0, <1>4, <2>2 DEF LoadBills, ListAsked, BillRequest
    <2>4. LoadOf(new) = loadsSent + 1 /\ RequestStands(new)
      BY <2>3, RequestKinds DEF RequestStands
    <2>5. (orderly' <=> orderly /\ billNet = {}) /\ orderly' \in BOOLEAN
      BY <1>4, Zenon DEF LoadBills
    <2> QED
      BY <1>1, <1>4, <2>1, <2>2, <2>3, <2>4, <2>5 DEF LoadBills
  <1>5. CASE SendReminder
    <2>1. PICK row \in table.rows : /\ row.bill.status = "Overdue"
                                    /\ billNet' = billNet \cup {ReminderAsked(row, table.epoch)}
      BY <1>5 DEF SendReminder
    <2>2. PICK new, e : e = table.epoch /\ new = ReminderAsked(row, e)
      OBVIOUS
    <2>3. new \in BillRequest /\ new.kind = "reminder" /\ new.row = row /\ new.epoch = e
      BY <1>0, <2>2 DEF ReminderAsked, BillRequest, Table
    <2>4. LoadOf(new) = 0 /\ RequestStands(new)
      BY <2>1, <2>2, <2>3, RequestKinds DEF RequestStands, RowsStand
    <2>5. (orderly' <=> orderly /\ billNet = {}) /\ orderly' \in BOOLEAN
      BY <1>5, Zenon DEF SendReminder
    <2> QED
      BY <1>1, <1>5, <2>1, <2>2, <2>3, <2>4, <2>5 DEF SendReminder
  <1>6. ASSUME NEW r \in billNet, ReceiveBills(r) PROVE BillingInv'
    <2>1. /\ r.kind = "bills" /\ table' = r.table /\ billNet' = billNet \ {r}
          /\ UNCHANGED <<dbVars, loadsSent, orderly, lost>>
      BY <1>6 DEF ReceiveBills
    <2>2. r.table.n \in 1..MaxLoads /\ LoadOf(r) = r.table.n
      BY <1>0, <2>1, RequestKinds
    <2>3. BillingPageTypeOK' /\ PayersAreNumbered' /\ RowsStand' /\ LettersAreRight'
      BY <1>0, <2>1, TabStepKeepsRows
    <2>4. OneLoadAtATime'
      BY <2>1 DEF OneLoadAtATime
    <2>5. TableIsLastAnswer'
      <3>1. orderly => table'.n = loadsSent
        BY <2>1, <2>2 DEF OneLoadAtATime
      <3>2. orderly => (table'.n + 1)..loadsSent = {}
        BY <1>0, <3>1
      <3> QED
        BY <2>1, <3>2 DEF TableIsLastAnswer
    <2> QED
      BY <2>3, <2>4, <2>5
  <1>7. ASSUME NEW r \in billNet, LoseBills(r) PROVE BillingInv'
    <2>1. /\ r.kind \in {"list", "bills"} /\ billNet' = billNet \ {r}
          /\ lost' = lost \cup {LoadOf(r)}
          /\ UNCHANGED <<dbVars, table, loadsSent, orderly>>
      BY <1>7 DEF LoseBills
    <2>2. LoadOf(r) \in 1..MaxLoads
      BY <1>0, <2>1, RequestKinds
    <2>3. BillingPageTypeOK' /\ PayersAreNumbered' /\ RowsStand' /\ LettersAreRight'
      BY <1>0, <2>1, <2>2, TabStepKeepsRows
    <2>4. OneLoadAtATime' /\ TableIsLastAnswer'
      BY <2>1 DEF OneLoadAtATime, TableIsLastAnswer
    <2> QED
      BY <2>3, <2>4
  <1>8. ASSUME NEW r \in billNet, OpenMail(r) \/ AlertNoBill(r) PROVE BillingInv'
    <2>1. r.kind \in {"letter", "noBill", "reminder"}
      BY <1>8 DEF OpenMail, AlertNoBill
    <2>2. LoadOf(r) = 0
      BY <1>0, <2>1, RequestKinds
    <2> QED
      BY <1>3, <1>8, <2>2 DEF OpenMail, AlertNoBill
  <1>9. ASSUME NEW r \in billNet, ServeBills(r) PROVE BillingInv'
    <2>1. PICK ans \in BillRequest :
            /\ AnswerWithBills(r, ans) /\ ans.kind = "bills" /\ LoadOf(ans) = LoadOf(r)
            /\ \A row \in ans.table.rows : RowStands(row, ans.table.epoch)
      BY <1>9, ServedRowsStand
    <2> QED
      BY <1>2, <2>1 DEF RequestStands
  <1>10. ASSUME NEW r \in billNet, ServeBillInfo(r) PROVE BillingInv'
    <2>1. PICK ans \in BillRequest :
            /\ AnswerWithBills(r, ans) /\ ans.kind \in {"letter", "noBill"} /\ LoadOf(r) = 0
            /\ ans.kind = "letter" /\ ans.letter.epoch = ans.letter.served =>
                 /\ ans.letter.due <= ans.letter.row.bill.due
                 /\ ans.letter.row.owner # Nobody => ans.letter.who = ans.letter.row.owner
      BY <1>10, ServedLetterIsRight
    <2>2. LoadOf(ans) = 0 /\ RequestStands(ans)
      BY <2>1, RequestKinds DEF RequestStands
    <2> QED
      BY <1>2, <2>1, <2>2
  <1>11. ASSUME NEW r \in billNet, ServeNoEmail(r) PROVE BillingInv'
    <2>1. PICK ans : ans = [kind |-> "noBill"]
      OBVIOUS
    <2>2. ans \in BillRequest /\ ans.kind = "noBill"
      BY <2>1 DEF BillRequest
    <2>3. LoadOf(ans) = 0 /\ LoadOf(r) = 0 /\ RequestStands(ans)
      BY <1>0, <1>11, <2>2, RequestKinds DEF RequestStands, ServeNoEmail
    <2> QED
      BY <1>2, <1>11, <2>1, <2>2, <2>3 DEF ServeNoEmail
  <1>12. CASE OtherBillWriter
    <2>1. /\ UNCHANGED billingPageVars /\ PayersAreNumbered' /\ BillingPageTypeOK'
          /\ \/ epoch' = epoch + 1
             \/ /\ epoch' = epoch /\ lastPayer <= lastPayer'
                /\ \A b \in bills : b.status = "Overdue" => b \in bills'
                /\ \A c \in payers' : c \in payers \/ c.id > lastPayer
      BY <1>12, RowsStandWhenOthersWrite
    <2>2. ASSUME NEW row \in Row, NEW e \in 0..MaxEpochs, RowStands(row, e) PROVE RowStands(row, e)'
      <3>1. /\ row.bill.cust \in Nat /\ lastPayer \in Nat /\ lastPayer' \in Nat
            /\ epoch \in Nat /\ e \in Nat
        BY <2>1 DEF Row, Bill, BillRowids, BillingPageTypeOK
      <3> QED
        BY <2>1, <2>2, <3>1 DEF RowStands, BillingPageTypeOK, BillRowids
    <2>3. RowsStand'
      <3>1. \A row \in table.rows : row \in Row /\ table.epoch \in 0..MaxEpochs
        BY <1>0 DEF Table
      <3>2. \A r \in billNet : r.kind = "bills" =>
               r.table.epoch \in 0..MaxEpochs /\ r.table.rows \subseteq Row
        BY <1>0, RequestKinds DEF Table
      <3>3. \A r \in billNet : r.kind = "reminder" => r.row \in Row /\ r.epoch \in 0..MaxEpochs
        BY <1>0, RequestKinds
      <3>4. table' = table /\ billNet' = billNet
        BY <2>1 DEF billingPageVars
      <3>5. PICK shown : shown = table
        OBVIOUS
      <3>6. \A row \in shown.rows : RowStands(row, shown.epoch)'
        BY <2>2, <3>1, <3>5 DEF RowsStand
      <3>7. (\A row \in table.rows : RowStands(row, table.epoch))'
        BY <3>4, <3>5, <3>6 DEF RowStands
      <3>8. \A r \in billNet : r.kind = "bills" => \A row \in r.table.rows : RowStands(row, r.table.epoch)'
        BY <2>2, <3>2 DEF RowsStand
      <3>9. \A r \in billNet : r.kind = "reminder" => r.row.bill.status = "Overdue" /\ RowStands(r.row, r.epoch)'
        BY <2>2, <3>3 DEF RowsStand
      <3> QED
        BY <3>4, <3>7, <3>8, <3>9 DEF RowsStand
    <2> QED
      BY <2>1, <2>3 DEF billingPageVars, LettersAreRight, OneLoadAtATime, TableIsLastAnswer
  <1>13. CASE UNCHANGED billingVars
    <2>1. UNCHANGED dbVars /\ UNCHANGED billingPageVars
      BY <1>13 DEF billingVars
    <2>2. BillingPageTypeOK' /\ PayersAreNumbered' /\ RowsStand' /\ LettersAreRight'
      BY <1>0, <2>1, TabStepKeepsRows DEF billingPageVars
    <2> QED
      BY <2>1, <2>2 DEF billingPageVars, OneLoadAtATime, TableIsLastAnswer
  <1> QED
    BY <1>4, <1>5, <1>6, <1>7, <1>8, <1>9, <1>10, <1>11, <1>12, <1>13 DEF BillingPageNext

\* Typing of billing.html: the tables, the table shown and the requests under way.
THEOREM BillingPageTypeCorrect == BillingPageSpec => []BillingPageTypeOK
  <1>1. BillingInv => BillingPageTypeOK
    BY DEF BillingInv
  <1> QED
    BY <1>1, BillingInvInit, BillingInvNext, PTL DEF BillingPageSpec

\* billing.html: the table shown is of the last load that was answered, as long as the
\* user waits, for any number of loads.
THEOREM TableShowsLastAnswer == BillingPageSpec => []TableIsLastAnswer
  <1>1. BillingInv => TableIsLastAnswer
    BY DEF BillingInv
  <1> QED
    BY <1>1, BillingInvInit, BillingInvNext, PTL DEF BillingPageSpec

\* GET /api/billInfo: a mail asked for from a table that has aged is about a debt at least
\* as old as its row's, and goes to the person the row was about, for any number of
\* customers, bills, dates and rebuilds.
THEOREM RemindersAreRight == BillingPageSpec => []ReminderIsRight
  <1>1. BillingInv => ReminderIsRight
    BY DEF BillingInv, LettersAreRight, ReminderIsRight, ReminderCoversRow, ReminderReachesOwner,
       Letters
  <1> QED
    BY <1>1, BillingInvInit, BillingInvNext, PTL DEF BillingPageSpec

-----------------------------------------------------------------------------
(* reports.html *)

\* A bill that the joins find is a bill; bills are at most MaxBills.
AssignedAreCounted ==
    /\ \A s \in Statuses : assigned[s] <= count[s]
    /\ count["Paid"] + count["Unpaid"] + count["Overdue"] <= MaxBills

\* A sum is about one status, and paid and overdue bills never get fewer within an era.
SumsStayBelow ==
    /\ \A s \in Statuses \ {"Paid"} : panel["revenue"].val[s] = 0
    /\ \A s \in Statuses \ {"Overdue"} : panel["overdue"].val[s] = 0
    /\ panel["revenue"].era = era => panel["revenue"].val["Paid"] <= count["Paid"]
    /\ panel["overdue"].era = era => panel["overdue"].val["Overdue"] <= count["Overdue"]
    /\ \A p \in Panels : panel[p].at <= version /\ panel[p].era <= era /\ era <= version

Answered(p) == panel[p].st \in {"served", "shown"}

\* A breakdown of the tables as they are now is what they have now, and one that was
\* computed no earlier than a sum of its era is not exceeded by it.
BreakdownIsUpToDate ==
    Answered("status") /\ panel["status"].whole =>
        /\ panel["status"].at = version => panel["status"].val = count
        /\ \A p \in {"revenue", "overdue"}, s \in Statuses :
              /\ Answered(p) /\ panel[p].at <= panel["status"].at
              /\ panel[p].era = panel["status"].era
              => panel[p].val[s] <= panel["status"].val[s]

ReportsInv == ReportsPageTypeOK /\ AssignedAreCounted /\ SumsStayBelow /\ BreakdownIsUpToDate

LEMMA ReportsInvInit == ReportsPageInit => ReportsInv
  <1> SUFFICES ASSUME ReportsPageInit PROVE ReportsInv
    OBVIOUS
  <1> USE ReportsPageAssumption DEF ReportsPageAssumption
  <1>1. NoValue \in Breakdown /\ \A s \in Statuses : NoValue[s] = 0
    BY DEF NoValue, Breakdown, Amount
  <1>2. /\ count = NoValue /\ assigned = NoValue /\ version = 0 /\ era = 0
        /\ \A p \in Panels :
              panel[p] = [st |-> "asked", val |-> NoValue, at |-> 0, era |-> 0, whole |-> TRUE]
    BY DEF ReportsPageInit
  <1>3. ReportsPageTypeOK
    BY <1>1 DEF ReportsPageInit, ReportsPageTypeOK
  <1>4. AssignedAreCounted
    BY <1>1, <1>2 DEF AssignedAreCounted, Statuses
  <1>5. SumsStayBelow
    BY <1>1, <1>2 DEF SumsStayBelow, Statuses, Panels
  <1>6. BreakdownIsUpToDate
    BY <1>2 DEF BreakdownIsUpToDate, Answered, Panels
  <1> QED
    BY <1>3, <1>4, <1>5, <1>6 DEF ReportsInv

\* A write makes a new version and lets no paid and no overdue bill go, or begins an
\* era, so whatever was computed before in this era stays below what is there, and is
\* of an older version.
LEMMA WriteKeepsPanels ==
  ASSUME ReportsInv, Wrote,
         count' \in Breakdown, assigned' \in Breakdown, AssignedAreCounted',
         \/ era' = era + 1
         \/ era' = era /\ count["Paid"] <= count'["Paid"] /\ count["Overdue"] <= count'["Overdue"]
  PROVE  ReportsInv'
  <1> USE DEF ReportsInv
  <1>1. /\ count \in Breakdown /\ version \in Nat /\ era \in Nat
        /\ version' = version + 1 /\ version' \in 0..MaxWrites /\ panel' = panel
        /\ \A p \in Panels : /\ panel[p].val \in Breakdown
                            /\ panel[p].at \in Nat /\ panel[p].era \in Nat
    BY ReportsPageAssumption DEF ReportsPageTypeOK, Wrote, ReportsPageAssumption
  <1>2. \A p \in Panels : /\ panel[p].at <= version /\ panel[p].era <= era /\ era <= version
    BY DEF SumsStayBelow
  <1>3. era' <= version' /\ era' \in Nat /\ era <= era'
    BY <1>1, <1>2 DEF Panels
  <1>4. ReportsPageTypeOK'
    <2>1. era' \in 0..MaxWrites
      BY <1>1, <1>3, ReportsPageAssumption DEF ReportsPageAssumption
    <2> QED
      BY <1>1, <2>1 DEF ReportsPageTypeOK
  <1>5. /\ count["Paid"] \in Nat /\ count'["Paid"] \in Nat
        /\ count["Overdue"] \in Nat /\ count'["Overdue"] \in Nat
        /\ panel["revenue"].val["Paid"] \in Nat /\ panel["overdue"].val["Overdue"] \in Nat
    BY <1>1, ReportsPageAssumption
       DEF Breakdown, Amount, Statuses, Panels, ReportsPageAssumption
  <1>6. ASSUME NEW p \in Panels
        PROVE  /\ panel[p].at <= version' /\ panel[p].era <= era' /\ panel[p].at # version'
               /\ panel[p].era = era' => panel[p].era = era /\ era' = era
    BY <1>1, <1>2, <1>3
  <1>7. SumsStayBelow'
    <2>1. panel["revenue"].era = era' => panel["revenue"].val["Paid"] <= count'["Paid"]
      BY <1>1, <1>5, <1>6 DEF SumsStayBelow, Panels
    <2>2. panel["overdue"].era = era' => panel["overdue"].val["Overdue"] <= count'["Overdue"]
      BY <1>1, <1>5, <1>6 DEF SumsStayBelow, Panels
    <2> QED
      BY <1>1, <1>3, <1>6, <2>1, <2>2 DEF SumsStayBelow
  <1>8. BreakdownIsUpToDate'
    BY <1>1, <1>6 DEF BreakdownIsUpToDate, Answered, Panels
  <1> QED
    BY <1>4, <1>7, <1>8

LEMMA WritesKeepReports ==
  ASSUME ReportsInv, IssueCountedBill \/ FlagCountedBills \/ ChangeJoins \/ ThrowBillsAway
  PROVE  ReportsInv'
  <1> USE ReportsPageAssumption DEF ReportsPageAssumption, ReportsInv
  <1>1. /\ Wrote
        /\ count \in [Statuses -> 0..MaxBills] /\ assigned \in [Statuses -> 0..MaxBills]
    BY DEF IssueCountedBill, FlagCountedBills, ChangeJoins, ThrowBillsAway, ReportsPageTypeOK,
           Breakdown, Amount
  <1>2. \A s \in Statuses : count[s] \in Nat /\ assigned[s] \in Nat /\ assigned[s] <= count[s]
    BY <1>1 DEF AssignedAreCounted
  <1>3. count["Paid"] + count["Unpaid"] + count["Overdue"] <= MaxBills
    BY DEF AssignedAreCounted
  <1>4. CASE IssueCountedBill
    <2>1. PICK s \in Statuses, known \in {0, 1} :
            /\ count' = [count EXCEPT ![s] = @ + 1]
            /\ assigned' = [assigned EXCEPT ![s] = @ + known]
            /\ count["Paid"] + count["Unpaid"] + count["Overdue"] < MaxBills
            /\ era' = era
      BY <1>4 DEF IssueCountedBill
    <2>2. \A q \in Statuses : /\ count'[q] = IF q = s THEN count[q] + 1 ELSE count[q]
                              /\ assigned'[q] = IF q = s THEN assigned[q] + known ELSE assigned[q]
      BY <1>1, <2>1
    <2>3. AssignedAreCounted'
      BY <1>2, <2>1, <2>2 DEF AssignedAreCounted, Statuses
    <2>4. count' \in Breakdown /\ assigned' \in Breakdown
      <3>1. \A q \in Statuses : count'[q] \in 0..MaxBills /\ assigned'[q] \in 0..MaxBills
        BY <1>2, <2>2, <2>3 DEF AssignedAreCounted, Statuses
      <3> QED
        BY <1>1, <2>1, <3>1 DEF Breakdown, Amount
    <2>5. count["Paid"] <= count'["Paid"] /\ count["Overdue"] <= count'["Overdue"]
      BY <1>2, <2>2 DEF Statuses
    <2> QED
      BY <1>1, <2>1, <2>3, <2>4, <2>5, WriteKeepsPanels
  <1>5. CASE FlagCountedBills
    <2>1. PICK n \in 1..count["Unpaid"], k \in 0..assigned["Unpaid"] :
            /\ k <= n /\ n - k <= count["Unpaid"] - assigned["Unpaid"]
            /\ count' = [count EXCEPT !["Unpaid"] = @ - n, !["Overdue"] = @ + n]
            /\ assigned' = [assigned EXCEPT !["Unpaid"] = @ - k, !["Overdue"] = @ + k]
            /\ era' = era
      BY <1>5 DEF FlagCountedBills
    <2>2. /\ count'["Paid"] = count["Paid"] /\ assigned'["Paid"] = assigned["Paid"]
          /\ count'["Unpaid"] = count["Unpaid"] - n /\ assigned'["Unpaid"] = assigned["Unpaid"] - k
          /\ count'["Overdue"] = count["Overdue"] + n /\ assigned'["Overdue"] = assigned["Overdue"] + k
      BY <1>1, <2>1 DEF Statuses
    <2>3. AssignedAreCounted'
      BY <1>2, <1>3, <2>1, <2>2 DEF AssignedAreCounted, Statuses
    <2>4. count' \in Breakdown /\ assigned' \in Breakdown
      <3>1. /\ n \in Nat /\ k \in Nat /\ n <= count["Unpaid"] /\ k <= assigned["Unpaid"] /\ k <= n
            /\ \A s \in {"Paid", "Unpaid", "Overdue"} : count[s] \in Nat /\ assigned[s] \in Nat
        BY <1>2, <2>1 DEF Statuses
      <3>2. count'["Paid"] \in 0..MaxBills /\ count'["Unpaid"] \in 0..MaxBills /\ count'["Overdue"] \in 0..MaxBills
        BY <1>3, <2>2, <3>1
      <3>4. assigned'["Paid"] \in Nat /\ assigned'["Unpaid"] \in Nat /\ assigned'["Overdue"] \in Nat
        BY <2>2, <3>1
      <3>5. assigned'["Paid"] <= count'["Paid"] /\ assigned'["Unpaid"] <= count'["Unpaid"]
            /\ assigned'["Overdue"] <= count'["Overdue"]
        BY <2>3 DEF AssignedAreCounted, Statuses
      <3>6. \A q \in Statuses : count'[q] \in 0..MaxBills /\ assigned'[q] \in 0..MaxBills
        BY <3>2, <3>4, <3>5 DEF Statuses
      <3>3. count' = [q \in Statuses |-> count'[q]] /\ assigned' = [q \in Statuses |-> assigned'[q]]
        BY <1>1, <2>1
      <3> QED
        BY <3>3, <3>6 DEF Breakdown, Amount
    <2>5. count["Paid"] <= count'["Paid"] /\ count["Overdue"] <= count'["Overdue"]
      BY <1>2, <2>1, <2>2 DEF Statuses
    <2> QED
      BY <1>1, <2>1, <2>3, <2>4, <2>5, WriteKeepsPanels
  <1>6. CASE ChangeJoins
    <2>1. /\ count' = count /\ era' = era
          /\ assigned' \in Breakdown /\ \A s \in Statuses : assigned'[s] <= count[s]
      BY <1>6 DEF ChangeJoins
    <2>2. AssignedAreCounted'
      BY <1>3, <2>1 DEF AssignedAreCounted
    <2>3. count' \in Breakdown
      BY <1>1, <2>1 DEF Breakdown, Amount
    <2>4. count["Paid"] <= count'["Paid"] /\ count["Overdue"] <= count'["Overdue"]
      BY <1>2, <2>1 DEF Statuses
    <2> QED
      BY <1>1, <2>1, <2>2, <2>3, <2>4, WriteKeepsPanels
  <1>7. CASE ThrowBillsAway
    <2>1. count' = NoValue /\ assigned' = NoValue /\ era' = era + 1
      BY <1>7 DEF ThrowBillsAway
    <2>2. NoValue \in Breakdown /\ \A s \in Statuses : NoValue[s] = 0
      BY DEF NoValue, Breakdown, Amount
    <2>3. AssignedAreCounted'
      BY <2>1, <2>2 DEF AssignedAreCounted, Statuses
    <2> QED
      BY <1>1, <2>1, <2>2, <2>3, WriteKeepsPanels
  <1> QED
    BY <1>4, <1>5, <1>6, <1>7

\* What the statements compute is no more than what there is.
LEMMA AnswersAreBelow ==
  ASSUME ReportsInv
  PROVE  /\ \A p \in Panels : AnswerTo(p) \in Breakdown
         /\ AnswerTo("status") = count
         /\ \A s \in Statuses \ {"Paid"} : AnswerTo("revenue")[s] = 0
         /\ \A s \in Statuses \ {"Overdue"} : AnswerTo("overdue")[s] = 0
         /\ AnswerTo("revenue")["Paid"] = assigned["Paid"]
         /\ AnswerTo("overdue")["Overdue"] = assigned["Overdue"]
         /\ NoValue \in Breakdown /\ \A s \in Statuses : NoValue[s] = 0
  <1> USE ReportsPageAssumption DEF ReportsPageAssumption, ReportsInv
  <1>1. NoValue \in Breakdown /\ \A s \in Statuses : NoValue[s] = 0
    BY DEF NoValue, Breakdown, Amount
  <1>2. assigned["Paid"] \in Amount /\ assigned["Overdue"] \in Amount /\ count \in Breakdown
    BY DEF ReportsPageTypeOK, Breakdown, Statuses
  <1>3. ASSUME NEW s \in Statuses, NEW value \in Amount
        PROVE  /\ Only(s, value) \in Breakdown /\ Only(s, value)[s] = value
               /\ \A q \in Statuses \ {s} : Only(s, value)[q] = 0
    BY <1>1 DEF Only, Breakdown
  <1>4. AnswerTo("revenue") = Only("Paid", assigned["Paid"])
    BY DEF AnswerTo
  <1>5. AnswerTo("overdue") = Only("Overdue", assigned["Overdue"])
    BY DEF AnswerTo
  <1>6. AnswerTo("status") = count
    BY DEF AnswerTo
  <1>7. "Paid" \in Statuses /\ "Overdue" \in Statuses
    BY DEF Statuses
  <1> QED
    BY <1>1, <1>2, <1>3, <1>4, <1>5, <1>6, <1>7 DEF Panels

\* A panel gets an answer: the one of now, or nothing.
LEMMA PanelIsServed ==
  ASSUME ReportsInv, NEW p \in Panels, ServePanel(p) \/ ServeNothing(p) PROVE ReportsInv'
  <1> USE ReportsPageAssumption DEF ReportsPageAssumption, ReportsInv
  <1>1. PICK val \in Breakdown, at \in 0..MaxWrites, of \in 0..MaxWrites, whole \in BOOLEAN :
          /\ panel' = [panel EXCEPT ![p] = [st |-> "served", val |-> val, at |-> at, era |-> of,
                                            whole |-> whole]]
          /\ \/ val = AnswerTo(p) /\ at = version /\ of = era /\ whole
             \/ val = NoValue /\ at = 0 /\ of = 0 /\ ~whole
    <2>1. /\ version \in 0..MaxWrites /\ era \in 0..MaxWrites /\ 0 \in 0..MaxWrites
          /\ AnswerTo(p) \in Breakdown /\ NoValue \in Breakdown
      BY AnswersAreBelow DEF ReportsPageTypeOK
    <2>2. CASE ServePanel(p)
      BY <2>1, <2>2 DEF ServePanel
    <2>3. CASE ServeNothing(p)
      BY <2>1, <2>3 DEF ServeNothing
    <2> QED
      BY <2>2, <2>3
  <1>2. /\ UNCHANGED <<count, assigned, version, era>> /\ version \in Nat /\ era \in Nat
        /\ count \in Breakdown /\ assigned \in Breakdown
        /\ panel \in [Panels -> [st : {"asked", "served", "shown", "lost"},
                                 val : Breakdown, at : 0..MaxWrites, era : 0..MaxWrites,
                                 whole : BOOLEAN]]
    BY DEF ServePanel, ServeNothing, billVars, ReportsPageTypeOK
  <1>3. ReportsPageTypeOK' /\ AssignedAreCounted'
    BY <1>1, <1>2 DEF ReportsPageTypeOK, AssignedAreCounted
  <1>4. \A q \in Panels : IF q = p THEN /\ panel'[q].st = "served" /\ panel'[q].val = val
                                         /\ panel'[q].at = at /\ panel'[q].era = of
                                         /\ panel'[q].whole = whole
                          ELSE panel'[q] = panel[q]
    BY <1>1, <1>2
  <1>5. \A s \in Statuses : /\ assigned[s] \in Nat /\ count[s] \in Nat /\ assigned[s] <= count[s]
                            /\ val[s] \in Nat
                            /\ \A q \in Panels : panel[q].val[s] \in Nat
    BY <1>2 DEF AssignedAreCounted, Breakdown, Amount
  <1>6. \A q \in Panels : panel[q].at \in Nat /\ panel[q].at <= version /\ panel[q].era <= era
    BY <1>2 DEF SumsStayBelow
  <1>7. SumsStayBelow'
    BY <1>1, <1>2, <1>4, <1>5, AnswersAreBelow DEF SumsStayBelow, Panels, Statuses
  <1>8. \A q \in {"revenue", "overdue"}, s \in Statuses :
           panel'[q].era = era => panel'[q].val[s] <= count[s]
    BY <1>2, <1>3, <1>5, <1>7 DEF SumsStayBelow, Statuses, Panels
  <1>9. CASE p = "status"
    <2>1. whole => val = count /\ at = version /\ of = era
      BY <1>1, <1>9, AnswersAreBelow
    <2>2. /\ panel'["status"].val = val /\ panel'["status"].at = at
          /\ panel'["status"].era = of /\ panel'["status"].whole = whole
      BY <1>4, <1>9
    <2> QED
      BY <1>2, <1>3, <1>7, <1>8, <2>1, <2>2 DEF BreakdownIsUpToDate
  <1>10. CASE p # "status"
    <2>1. panel'["status"] = panel["status"] /\ "status" \in Panels
      BY <1>4, <1>10 DEF Panels
    <2>2. ASSUME Answered("status"), panel["status"].whole
          PROVE  /\ panel["status"].at = version => panel["status"].val = count
                 /\ \A q \in {"revenue", "overdue"}, s \in Statuses :
                      /\ Answered(q)' /\ panel'[q].at <= panel["status"].at
                      /\ panel'[q].era = panel["status"].era
                      => panel'[q].val[s] <= panel["status"].val[s]
      <3>1. panel["status"].at = version => panel["status"].val = count
        BY <2>2 DEF BreakdownIsUpToDate
      <3>2. ASSUME NEW q \in {"revenue", "overdue"}, NEW s \in Statuses,
                   Answered(q)', panel'[q].at <= panel["status"].at,
                   panel'[q].era = panel["status"].era
            PROVE  panel'[q].val[s] <= panel["status"].val[s]
        <4>1. CASE q # p
          BY <1>4, <2>2, <3>2, <4>1 DEF BreakdownIsUpToDate, Answered, Panels
        <4>2. CASE q = p /\ ~whole
          BY <1>1, <1>4, <1>5, <2>1, <4>2, AnswersAreBelow DEF Panels
        <4>3. CASE q = p /\ whole
          <5>1. panel["status"].at = version
            BY <1>1, <1>2, <1>4, <1>6, <2>1, <3>2, <4>3
          <5>2. panel'[q].era = era
            BY <1>1, <1>4, <4>3 DEF Panels
          <5> QED
            BY <1>8, <3>1, <5>1, <5>2
        <4> QED
          BY <4>1, <4>2, <4>3
      <3> QED
        BY <3>1, <3>2
    <2>3. BreakdownIsUpToDate'
      BY <1>2, <2>1, <2>2 DEF BreakdownIsUpToDate, Answered
    <2> QED
      BY <1>3, <1>7, <2>3
  <1> QED
    BY <1>9, <1>10

LEMMA PanelIsDrawnOrLost ==
  ASSUME ReportsInv, NEW p \in Panels, ShowPanel(p) \/ LosePanel(p) PROVE ReportsInv'
  <1> USE ReportsPageAssumption DEF ReportsPageAssumption, ReportsInv
  <1>1. /\ UNCHANGED <<count, assigned, version, era>> /\ version \in Nat /\ era \in Nat
        /\ count \in Breakdown /\ assigned \in Breakdown
        /\ panel \in [Panels -> [st : {"asked", "served", "shown", "lost"},
                                 val : Breakdown, at : 0..MaxWrites, era : 0..MaxWrites,
                                 whole : BOOLEAN]]
    BY DEF ShowPanel, LosePanel, billVars, ReportsPageTypeOK
  <1>2. CASE ShowPanel(p)
    <2>1. \A q \in Panels : /\ panel'[q].val = panel[q].val /\ panel'[q].at = panel[q].at
                            /\ panel'[q].era = panel[q].era
                            /\ panel'[q].whole = panel[q].whole /\ (Answered(q)' <=> Answered(q))
      BY <1>1, <1>2 DEF ShowPanel, Answered
    <2>2. ReportsPageTypeOK'
      BY <1>1, <1>2 DEF ShowPanel, ReportsPageTypeOK
    <2> QED
      BY <1>1, <2>1, <2>2 DEF AssignedAreCounted, SumsStayBelow, BreakdownIsUpToDate, Panels
  <1>3. CASE LosePanel(p)
    <2>1. \A q \in Panels : IF q = p THEN /\ panel'[q].val = NoValue /\ panel'[q].at = 0
                                            /\ panel'[q].era = 0 /\ ~Answered(q)'
                            ELSE panel'[q] = panel[q] /\ (Answered(q)' <=> Answered(q))
      BY <1>1, <1>3 DEF LosePanel, Answered
    <2>2. ReportsPageTypeOK'
      BY <1>1, <1>3, AnswersAreBelow DEF LosePanel, ReportsPageTypeOK
    <2>3. AssignedAreCounted'
      BY <1>1 DEF AssignedAreCounted
    <2>4. \A s \in Statuses : count[s] \in Nat
      BY <1>1 DEF Breakdown, Amount
    <2>5. SumsStayBelow'
      BY <1>1, <2>1, <2>4, AnswersAreBelow DEF SumsStayBelow, Panels, Statuses
    <2>6. BreakdownIsUpToDate'
      BY <1>1, <2>1 DEF BreakdownIsUpToDate, Panels
    <2> QED
      BY <2>2, <2>3, <2>5, <2>6
  <1> QED
    BY <1>2, <1>3

LEMMA ReportsInvNext == ReportsInv /\ [ReportsPageNext]_reportsPageVars => ReportsInv'
  <1> SUFFICES ASSUME ReportsInv, [ReportsPageNext]_reportsPageVars PROVE ReportsInv'
    OBVIOUS
  <1>1. CASE UNCHANGED reportsPageVars
    BY <1>1 DEF reportsPageVars, billVars, ReportsInv, ReportsPageTypeOK, AssignedAreCounted,
       SumsStayBelow, BreakdownIsUpToDate, Answered
  <1> QED
    BY <1>1, WritesKeepReports, PanelIsServed, PanelIsDrawnOrLost DEF ReportsPageNext

\* Typing of reports.html: the bills by status and the panels.
THEOREM ReportsPageTypeCorrect == ReportsPageSpec => []ReportsPageTypeOK
  <1>1. ReportsInv => ReportsPageTypeOK
    BY DEF ReportsInv
  <1> QED
    BY <1>1, ReportsInvInit, ReportsInvNext, PTL DEF ReportsPageSpec

\* reports.html: panels of different moments agree, for any number of bills: a sum that is
\* not younger than the breakdown does not exceed it, whatever is written in between,
\* unless seed_paid_bills deletes all bills.
THEOREM PanelsAgree == ReportsPageSpec => []PanelsTellOneStory
  <1>1. ReportsInv => PanelsTellOneStory
    BY DEF ReportsInv, BreakdownIsUpToDate, Answered, PanelsTellOneStory, Shown
  <1> QED
    BY <1>1, ReportsInvInit, ReportsInvNext, PTL DEF ReportsPageSpec

-----------------------------------------------------------------------------
(* All pages *)

\* The state of every page has its type.
THEOREM PagesTypeCorrect == PagesSpec => []PagesTypeOK
  <1>1. CustomersPageTypeOK /\ BillingPageTypeOK /\ ReportsPageTypeOK /\ SalesPageTypeOK
          /\ AdminSessionTypeOK => PagesTypeOK
    BY DEF PagesTypeOK
  <1> QED
    BY <1>1, CustomersPageTypeCorrect, BillingPageTypeCorrect, ReportsPageTypeCorrect,
       SalesPageTypeCorrect, AdminSessionTypeCorrect, PTL DEF PagesSpec

\* billing.html, sales.html, reports.html: the rows of the bills table are of one answer,
\* and so are the total and the bars of the sales page; a sum on the reports page never
\* exceeds the count of a later breakdown, whatever is written in between, unless
\* seed_paid_bills throws all bills away.
THEOREM PagesShowOneStory == PagesSpec => []PagesShowOneAnswer
  <1>1. TableIsLastAnswer /\ SalesTotalIsOfChart /\ PanelsTellOneStory => PagesShowOneAnswer
    BY DEF PagesShowOneAnswer
  <1> QED
    BY <1>1, TableShowsLastAnswer, SalesTotalMatchesChart, PanelsAgree, PTL DEF PagesSpec

=============================================================================
