----------------------------- MODULE AdminSession -----------------------------
(***************************************************************************)
(* Signing in and out.  The server keeps no session: a good login answers  *)
(* with a cookie that lives Lifetime after it arrives, a logout with one   *)
(* that removes it, and /admin/dashboard looks at the cookie it is sent.   *)
(* The browser has one cookie jar for all its tabs.  Each tab runs         *)
(* navbar.js when it loads: the script looks at the cookie once, builds    *)
(* the list of links, and changes it again only when this tab logs out.    *)
(* An answer reaches the jar when its headers come in and the tab's        *)
(* callback afterwards, so other tabs and answers get in between.          *)
(***************************************************************************)
EXTENDS Naturals, FiniteSets

CONSTANTS
    Tabs,
    Lifetime,  \* Max-Age: 3600 seconds
    MaxTime,   \* bound: how long the clock runs
    MaxLogins  \* bound: logins and logouts sent

ASSUME AdminSessionAssumption ==
    /\ Lifetime \in Nat \ {0}
    /\ MaxTime \in Nat /\ MaxLogins \in Nat

VARIABLES
    now,         \* the clock
    expires,     \* when the cookie admin_session expires, 0 when there is none
    nav,         \* nav[t]: what the navigation bar of t shows
    modal,       \* modal[t]: what t displays: the login dialog, the error inside it
    loginNet,    \* requests under way: [n, tab, kind, st]
    loginsSent,  \* number of requests sent
    stale        \* history: stale[t]: since t built its bar, the cookie was set or
                 \* removed for another tab, or expired, or the answer to a login of
                 \* t broke off behind its headers

sessionVars == <<now, expires, nav, modal, loginNet, loginsSent, stale>>

Kinds == {"login", "badLogin", "logout"}
Request == [n : 1..MaxLogins, tab : Tabs, kind : Kinds, st : {"sent", "answered", "stored"}]

AdminSessionTypeOK ==
    /\ now \in 0..MaxTime
    /\ expires \in 0..(MaxTime + Lifetime)
    /\ nav \in [Tabs -> {"loading", "links", "signIn"}]
    /\ modal \in [Tabs -> SUBSET {"dialog", "error"}]
    /\ loginNet \subseteq Request
    /\ loginsSent \in 0..MaxLogins
    /\ stale \in [Tabs -> BOOLEAN]

AdminSessionInit ==
    /\ now = 0 /\ expires = 0
    /\ nav = [t \in Tabs |-> "loading"]
    /\ modal = [t \in Tabs |-> {}]
    /\ loginNet = {} /\ loginsSent = 0
    /\ stale = [t \in Tabs |-> FALSE]

\* The browser has the cookie, so document.cookie shows it and requests carry it.
SignedIn == now < expires

-----------------------------------------------------------------------------
(* A tab *)

\* A reload, or a link to another page: the requests of the page are dropped.
Load(t) ==
    /\ nav' = [nav EXCEPT ![t] = "loading"]
    /\ modal' = [modal EXCEPT ![t] = {}]
    /\ loginNet' = {r \in loginNet : r.tab # t}
    /\ UNCHANGED <<now, expires, loginsSent, stale>>

Navigate(t) == nav[t] # "loading" /\ Load(t)

\* navbar.html has come and navbar.js runs.
BuildNavbar(t) ==
    /\ nav[t] = "loading"
    /\ nav' = [nav EXCEPT ![t] = IF SignedIn THEN "links" ELSE "signIn"]
    /\ stale' = [stale EXCEPT ![t] = FALSE]
    /\ UNCHANGED <<now, expires, modal, loginNet, loginsSent>>

OpenDialog(t) ==
    /\ nav[t] = "signIn"
    /\ modal' = [modal EXCEPT ![t] = @ \cup {"dialog"}]
    /\ UNCHANGED <<now, expires, nav, loginNet, loginsSent, stale>>

\* The cross, or a click outside: an error stays in the hidden dialog.
CloseDialog(t) ==
    /\ "dialog" \in modal[t]
    /\ modal' = [modal EXCEPT ![t] = @ \ {"dialog"}]
    /\ UNCHANGED <<now, expires, nav, loginNet, loginsSent, stale>>

SendLogin(t, kind) ==
    /\ loginsSent < MaxLogins
    /\ loginsSent' = loginsSent + 1
    /\ loginNet' = loginNet \cup {[n |-> loginsSent + 1, tab |-> t, kind |-> kind, st |-> "sent"]}
    /\ UNCHANGED <<now, expires, nav, modal, stale>>

SubmitLogin(t) ==
    /\ "dialog" \in modal[t]
    /\ SendLogin(t, "login") \/ SendLogin(t, "badLogin")

ClickLogout(t) == nav[t] = "links" /\ SendLogin(t, "logout")

Becomes(r, st) == loginNet' = (loginNet \ {r}) \cup {[r EXCEPT !.st = st]}

\* Nobody but t knows of a change t's answer makes to the jar.
Disturb(t) == stale' = [u \in Tabs |-> stale[u] \/ u # t]

\* The headers of the answer arrive: the jar is changed.
StoreCookie(r) ==
    /\ r.st = "answered"
    /\ Becomes(r, "stored")
    /\ \/ r.kind = "login" /\ expires' = now + Lifetime /\ Disturb(r.tab)
       \/ r.kind = "logout" /\ expires' = 0 /\ Disturb(r.tab)
       \/ r.kind = "badLogin" /\ UNCHANGED <<expires, stale>>
    /\ UNCHANGED <<now, nav, modal, loginsSent>>

\* Status 200: the page is reloaded to build the bar anew.
LoginDone(r) == r.kind = "login" /\ Load(r.tab)

LoginRefused(r) ==
    /\ r.kind = "badLogin"
    /\ modal' = [modal EXCEPT ![r.tab] = @ \cup {"error"}]
    /\ loginNet' = loginNet \ {r}
    /\ UNCHANGED <<now, expires, nav, loginsSent, stale>>

\* Mutant of LogoutDone: the bar is left as it is.
LogoutDoneQuietly(r) ==
    /\ r.kind = "logout"
    /\ loginNet' = loginNet \ {r}
    /\ UNCHANGED <<now, expires, nav, modal, loginsSent, stale>>

\* The bar is rebuilt with the Sign In button alone; the rest of the page stays.
LogoutDone(r) ==
    /\ r.kind = "logout"
    /\ nav' = [nav EXCEPT ![r.tab] = "signIn"]
    /\ loginNet' = loginNet \ {r}
    /\ UNCHANGED <<now, expires, modal, loginsSent, stale>>

Callback(r) == r.st = "stored" /\ (LoginDone(r) \/ LoginRefused(r) \/ LogoutDone(r))

-----------------------------------------------------------------------------
(* The server, the network, the clock *)

\* POST /admin/login and GET /admin/logout change nothing at the server.
ServeLogin(r) ==
    /\ r.st = "sent"
    /\ Becomes(r, "answered")
    /\ UNCHANGED <<now, expires, nav, modal, loginsSent, stale>>

\* The fetch is rejected before an answer came, or the text of the answer to a
\* login cannot be read; the error is logged.
BreakLogin(r) ==
    /\ r.st = "stored" => r.kind # "logout"
    /\ loginNet' = loginNet \ {r}
    /\ stale' = [stale EXCEPT ![r.tab] = @ \/ (r.st = "stored" /\ r.kind = "login")]
    /\ UNCHANGED <<now, expires, nav, modal, loginsSent>>

Tick ==
    /\ now < MaxTime
    /\ now' = now + 1
    /\ stale' = [t \in Tabs |-> stale[t] \/ now + 1 = expires]
    /\ UNCHANGED <<expires, nav, modal, loginNet, loginsSent>>

\* Mutant of FormLogin: the cookie there is prolonged.
FormLoginProlongs ==
    /\ loginsSent < MaxLogins
    /\ loginsSent' = loginsSent + 1
    /\ expires' = IF SignedIn THEN expires + Lifetime ELSE now + Lifetime
    /\ stale' = [t \in Tabs |-> TRUE]
    /\ UNCHANGED <<now, nav, modal, loginNet>>

\* The form of /admin/login in a window without navigation bar.
FormLogin ==
    /\ loginsSent < MaxLogins
    /\ loginsSent' = loginsSent + 1
    /\ expires' = now + Lifetime
    /\ stale' = [t \in Tabs |-> TRUE]
    /\ UNCHANGED <<now, nav, modal, loginNet>>

TabStep(t) ==
    \/ Navigate(t) \/ BuildNavbar(t)
    \/ OpenDialog(t) \/ CloseDialog(t) \/ SubmitLogin(t) \/ ClickLogout(t)

AdminSessionNext ==
    \/ \E t \in Tabs : TabStep(t)
    \/ \E r \in loginNet : ServeLogin(r) \/ StoreCookie(r) \/ Callback(r) \/ BreakLogin(r)
    \/ Tick
    \/ FormLogin

AdminSessionSpec == AdminSessionInit /\ [][AdminSessionNext]_sessionVars

-----------------------------------------------------------------------------
(* Properties *)

\* Answers the tab has in its jar but has not reacted to.
Unseen(t) == {r \in loginNet : r.tab = t /\ r.st = "stored"}

\* A bar that was built, or rebuilt after a logout, agrees with the cookie the
\* server will see, until another tab signs in or out, the cookie expires or the
\* answer to a login breaks off behind its headers:
\* however many logins and logouts of the tab are under way and in whatever
\* order they are answered, lost or dropped by a reload.
NavbarTruthful ==
    \A t \in Tabs :
        nav[t] # "loading" /\ ~stale[t] /\ Unseen(t) = {} => (nav[t] = "links" <=> SignedIn)

=============================================================================
