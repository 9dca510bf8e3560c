-------------------------------- MODULE MCPages --------------------------------
(***************************************************************************)
(* The pages one at a time: a behaviour is one of the page that is open,   *)
(* and the variables of the others stay as they begin.  The billing page   *)
(* comes twice: with several loads of the table, and with the reminders    *)
(* asked for from one table while the tables are rebuilt.                  *)
(***************************************************************************)
EXTENDS Pages

VARIABLE page  \* the page that is open

Init ==
    /\ page \in {"customers", "billing", "reminders", "session", "reports", "sales"}
    /\ CustomersPageInit /\ BillingPageInit /\ ReportsPageInit /\ SalesPageInit /\ AdminSessionInit

Open(p) == page = p /\ UNCHANGED page

\* Bounds of "billing": one number, one person, one due date and two statuses are
\* enough for tables to differ; one epoch begun.
OneRow ==
    /\ lastPayer' <= 1 /\ people' <= 1 /\ epoch' <= 1
    /\ \A b \in bills' : b.id = 1 /\ b.cust = 1 /\ b.due = 1 /\ b.status # "Paid"

\* Bounds of "reminders": one load of the table, one epoch begun, no Paid bills, and
\* bills that keep their numbers.
OneTable ==
    /\ loadsSent' = 1 /\ epoch' <= 1
    /\ \A b \in bills' : b.status # "Paid"
    /\ lastBill' >= lastBill

Next ==
    \/ /\ Open("customers") /\ CustomersPageNext
       /\ UNCHANGED <<billingVars, sessionVars, reportsPageVars, salesVars>>
    \/ /\ Open("billing") /\ BillingPageNext /\ OneRow
       /\ UNCHANGED <<customersPageVars, sessionVars, reportsPageVars, salesVars>>
    \/ /\ Open("reminders") /\ BillingPageNext /\ OneTable
       /\ UNCHANGED <<customersPageVars, sessionVars, reportsPageVars, salesVars>>
    \/ /\ Open("session") /\ AdminSessionNext
       /\ UNCHANGED <<customersPageVars, billingVars, reportsPageVars, salesVars>>
    \/ /\ Open("reports") /\ ReportsPageNext
       /\ UNCHANGED <<customersPageVars, billingVars, sessionVars, salesVars>>
    \/ /\ Open("sales") /\ SalesPageNext
       /\ UNCHANGED <<customersPageVars, billingVars, sessionVars, reportsPageVars>>

pagesVars == <<page, customersPageVars, billingVars, sessionVars, reportsPageVars, salesVars>>

Spec == Init /\ [][Next]_pagesVars

=============================================================================
