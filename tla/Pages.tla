--------------------------------- MODULE Pages ---------------------------------
(***************************************************************************)
(* The pages a browser shows, each in a tab of its own.  They have nothing *)
(* in common but the server, which each module brings along as far as its  *)
(* page can see it: no step of one page changes a variable of another.     *)
(***************************************************************************)
EXTENDS CustomersPage, BillingPage, ReportsPage, SalesPage, AdminSession

\* All the pages at once, each by its own specification.
PagesSpec ==
    /\ CustomersPageSpec
    /\ BillingPageSpec
    /\ ReportsPageSpec
    /\ SalesPageSpec
    /\ AdminSessionSpec

-----------------------------------------------------------------------------
(* Properties *)

\* The state of every page has its type.
PagesTypeOK ==
    /\ CustomersPageTypeOK
    /\ BillingPageTypeOK
    /\ ReportsPageTypeOK
    /\ SalesPageTypeOK
    /\ AdminSessionTypeOK

\* customers.html: when every request has come back, on whatever path, the
\* results section is shown again, and a user who waited for each answer sees
\* the answer to the last click.
PaneTellsLastAnswer == PaneSettles /\ PaneIsCurrent

\* billing.html, GET /api/billInfo: a reminder asked for from a table that has
\* aged is about the oldest overdue bill of the customer of its row, and not
\* about a person who got the number later.
ReminderIsRight == ReminderCoversRow /\ ReminderReachesOwner

\* What a page shows together is of one answer: the rows of the bills table, the
\* total and the bars of the sales page; and the panels of the reports page, which
\* are of different moments, tell one story whatever was written in between, unless
\* seed_paid_bills threw the bills away.
PagesShowOneAnswer == TableIsLastAnswer /\ SalesTotalIsOfChart /\ PanelsTellOneStory

=============================================================================
