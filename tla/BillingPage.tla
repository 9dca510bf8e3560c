----------------------------- MODULE BillingPage -----------------------------
(***************************************************************************)
(* The page billing.html in one browser tab, the handlers of /api/bills    *)
(* and /api/billInfo, and the programs that change Bills and Customers     *)
(* while the page shows a table it fetched earlier.  loadBills runs once   *)
(* when the page has loaded and at every click of Apply; it has no catch,  *)
(* so an answer that is lost leaves the table as it was.  "Send Reminder"  *)
(* is a button in the rows of Overdue bills; it asks for the customer's    *)
(* oldest overdue bill and opens a mail to the customer.                   *)
(*                                                                         *)
(* A bill is [id, cust, due, status].  A customer is [id, who]: the number *)
(* and the person, who is counted by the inserts, since seed_paid_bills    *)
(* hands the numbers out again.                                            *)
(***************************************************************************)
EXTENDS Naturals

CONSTANTS
    MaxBillRowid,  \* bound: customer and bill numbers
    MaxPeople,     \* bound: customers ever added
    Days,          \* due dates
    MaxLoads,      \* bound: requests this tab sends
    MaxEpochs      \* bound: times seed_paid_bills begins an epoch

ASSUME BillingPageAssumption ==
    /\ MaxBillRowid \in Nat /\ MaxPeople \in Nat
    /\ Days \subseteq Nat \ {0}
    /\ MaxLoads \in Nat \ {0} /\ MaxEpochs \in Nat

VARIABLES
    payers, lastPayer, people,  \* Customers, their row of sqlite_sequence, persons so far
    bills, lastBill,            \* Bills and their row of sqlite_sequence
    epoch,                      \* history: times seed_paid_bills threw the bills away or
                                \* started the customers' numbers over
    table,                      \* the table shown: [n, rows, epoch]
    billNet,                    \* requests under way
    loadsSent,                  \* number of loadBills requests sent
    orderly,                    \* history: the user always waited for the answer
    lost                        \* history: the loadBills requests whose answer was lost

dbVars == <<payers, lastPayer, people, bills, lastBill, epoch>>
billingPageVars == <<table, billNet, loadsSent, orderly, lost>>
billingVars == <<dbVars, billingPageVars>>

BillRowids == 1..MaxBillRowid
Filters == {"", "Paid", "Unpaid", "Overdue"}
BillStatuses == Filters \ {""}
Nobody == 0
Bill == [id : BillRowids, cust : BillRowids, due : Days, status : BillStatuses]
\* A row of the table; owner is history: the person who had the customer's number
\* then, if the sequence had come that far.
Row == [bill : Bill, owner : 0..MaxPeople]
Table == [n : 0..MaxLoads, rows : SUBSET Row, epoch : 0..MaxEpochs]
NoTable == [n |-> 0, rows |-> {}, epoch |-> 0]
Letter ==
    [row : Row, epoch : 0..MaxEpochs, served : 0..MaxEpochs, due : Days, who : 1..MaxPeople]

\* Requests: a list asked for or answered, a reminder asked for or answered.
BillRequest ==
    [kind : {"list"}, n : 1..MaxLoads, filter : Filters]
    \cup [kind : {"bills"}, table : {t \in Table : t.n # 0}]
    \cup [kind : {"reminder"}, row : Row, epoch : 0..MaxEpochs]
    \cup [kind : {"letter"}, letter : Letter]
    \cup [kind : {"noBill"}]

BillingPageTypeOK ==
    /\ payers \subseteq [id : BillRowids, who : 1..MaxPeople]
    /\ lastPayer \in 0..MaxBillRowid /\ people \in 0..MaxPeople
    /\ bills \subseteq Bill /\ lastBill \in 0..MaxBillRowid
    /\ epoch \in 0..MaxEpochs
    /\ table \in Table
    /\ loadsSent \in 1..MaxLoads /\ lost \subseteq 1..MaxLoads
    /\ billNet \subseteq BillRequest
    /\ orderly \in BOOLEAN

ListAsked(n, f) == [kind |-> "list", n |-> n, filter |-> f]
ReminderAsked(row, e) == [kind |-> "reminder", row |-> row, epoch |-> e]

\* The number of the load a request is, 0 for a reminder.
LoadOf(r) == CASE r.kind = "list" -> r.n [] r.kind = "bills" -> r.table.n [] OTHER -> 0

\* window.onload: the first list is on its way.
BillingPageInit ==
    /\ payers = {} /\ lastPayer = 0 /\ people = 0
    /\ bills = {} /\ lastBill = 0 /\ epoch = 0
    /\ table = NoTable
    /\ billNet = {ListAsked(1, "")} /\ loadsSent = 1
    /\ orderly = TRUE /\ lost = {}

-----------------------------------------------------------------------------
(* The tab *)

\* Apply, with some option of the filter selected
LoadBills ==
    /\ loadsSent < MaxLoads
    /\ loadsSent' = loadsSent + 1
    /\ \E f \in Filters : billNet' = billNet \cup {ListAsked(loadsSent + 1, f)}
    /\ orderly' = (orderly /\ billNet = {})
    /\ UNCHANGED <<dbVars, table, lost>>

ReceiveBills(r) ==
    /\ r.kind = "bills"
    /\ table' = r.table
    /\ billNet' = billNet \ {r}
    /\ UNCHANGED <<dbVars, loadsSent, orderly, lost>>

\* No catch: nothing is shown and nothing is cleared.
LoseBills(r) ==
    /\ r.kind \in {"list", "bills"}
    /\ billNet' = billNet \ {r}
    /\ lost' = lost \cup {LoadOf(r)}
    /\ UNCHANGED <<dbVars, table, loadsSent, orderly>>

\* Bound: one reminder at a time.
SendReminder ==
    /\ \A r \in billNet : r.kind # "reminder"
    /\ \E row \in table.rows :
         /\ row.bill.status = "Overdue"
         /\ billNet' = billNet \cup {ReminderAsked(row, table.epoch)}
    /\ orderly' = (orderly /\ billNet = {})
    /\ UNCHANGED <<dbVars, table, loadsSent, lost>>

\* window.location.href = "mailto:..."
OpenMail(r) ==
    /\ r.kind = "letter"
    /\ billNet' = billNet \ {r}
    /\ UNCHANGED <<dbVars, table, loadsSent, orderly, lost>>

\* No bill in the answer, or no answer: an alert.
AlertNoBill(r) ==
    /\ r.kind \in {"noBill", "reminder"}
    /\ billNet' = billNet \ {r}
    /\ UNCHANGED <<dbVars, table, loadsSent, orderly, lost>>

-----------------------------------------------------------------------------
(* The server *)

AnswerWithBills(r, ans) ==
    /\ billNet' = (billNet \ {r}) \cup {ans}
    /\ UNCHANGED <<dbVars, table, loadsSent, orderly, lost>>

OwnerOf(cust) ==
    IF \E c \in payers : c.id = cust THEN (CHOOSE c \in payers : c.id = cust).who ELSE Nobody

OwnerOnRecord(cust) == IF cust <= lastPayer THEN OwnerOf(cust) ELSE Nobody

\* WHERE status = ?, left out for the empty filter
BillsWith(f) == IF f = "" THEN bills ELSE {b \in bills : b.status = f}

\* GET /api/bills; a scan that meets a lock answers with no bills.
ServeBills(r) ==
    /\ r.kind = "list"
    /\ \E seen \in {BillsWith(r.filter), {}} :
         AnswerWithBills(r, [kind |-> "bills",
                    table |-> [n |-> r.n, epoch |-> epoch,
                               rows |-> {[bill |-> b, owner |-> OwnerOnRecord(b.cust)] : b \in seen}]])

OverdueOf(cust) == {b \in bills : b.cust = cust /\ b.status = "Overdue"}

\* Mutant of OldestOverdue: ORDER BY due_date DESC.
NewestOverdue(b) == b \in OverdueOf(b.cust) /\ \A d \in OverdueOf(b.cust) : d.due <= b.due

\* ORDER BY due_date ASC LIMIT 1
OldestOverdue(b) == b \in OverdueOf(b.cust) /\ \A d \in OverdueOf(b.cust) : b.due <= d.due

\* GET /api/billInfo: the join with Customers gives the address.
ServeBillInfo(r) ==
    /\ r.kind = "reminder"
    /\ LET cust == r.row.bill.cust
       IN  IF OverdueOf(cust) # {} /\ OwnerOf(cust) # Nobody
           THEN \E b \in bills :
                  /\ b.cust = cust /\ OldestOverdue(b)
                  /\ AnswerWithBills(r, [kind |-> "letter",
                                letter |-> [row |-> r.row, epoch |-> r.epoch,
                                            served |-> epoch, due |-> b.due,
                                            who |-> OwnerOf(cust)]])
           ELSE AnswerWithBills(r, [kind |-> "noBill"])

\* The address column may be empty: the page finds no e-mail; a scan that meets a
\* lock finds no bill.
ServeNoEmail(r) == r.kind = "reminder" /\ AnswerWithBills(r, [kind |-> "noBill"])

-----------------------------------------------------------------------------
(* The other programs *)

\* AUTOINCREMENT: behind the sequence and behind every row.
NextNumber(n, last, rows) ==
    /\ n > last /\ \A r \in rows : n > r.id
    /\ n - 1 = last \/ \E r \in rows : n - 1 = r.id

AddCustomer ==
    /\ people < MaxPeople
    /\ people' = people + 1
    /\ \E n \in BillRowids :
         /\ NextNumber(n, lastPayer, payers)
         /\ payers' = payers \cup {[id |-> n, who |-> people + 1]}
         /\ lastPayer' = n
    /\ UNCHANGED <<bills, lastBill, epoch, billingPageVars>>

DeleteCustomer ==
    /\ \E id \in BillRowids : payers' = {c \in payers : c.id # id}
    /\ UNCHANGED <<lastPayer, people, bills, lastBill, epoch, billingPageVars>>

\* seed_data writes a bill for a number it has handed out, seed_paid_bills for the
\* numbers 1 to 500, and Overdue ones too, whoever has them and whether or not its
\* other statements were refused.
IssueBill ==
    /\ \E n \in BillRowids, cust \in BillRowids, due \in Days, status \in BillStatuses :
         /\ NextNumber(n, lastBill, bills)
         /\ bills' = bills \cup {[id |-> n, cust |-> cust, due |-> due, status |-> status]}
         /\ lastBill' = n
    /\ UNCHANGED <<payers, lastPayer, people, epoch, billingPageVars>>

\* The last statement of checkOverduePayments, for some day.
FlagOverdue ==
    /\ \E day \in Days :
         bills' = {IF b.status = "Unpaid" /\ b.due <= day THEN [b EXCEPT !.status = "Overdue"] ELSE b :
                     b \in bills}
    /\ UNCHANGED <<payers, lastPayer, people, lastBill, epoch, billingPageVars>>

\* The four statements with which seed_paid_bills begins.  Each commits by itself and
\* each may be refused, which the program does not notice: any of them may be the
\* only one that takes effect.
RebuildCustomers ==
    /\ payers' = {}
    /\ UNCHANGED <<lastPayer, people, bills, lastBill, epoch, billingPageVars>>

RestartCustomerNumbers ==
    /\ epoch < MaxEpochs
    /\ epoch' = epoch + 1
    /\ lastPayer' = 0
    /\ UNCHANGED <<payers, people, bills, lastBill, billingPageVars>>

RebuildBills ==
    /\ epoch < MaxEpochs
    /\ epoch' = epoch + 1
    /\ bills' = {}
    /\ UNCHANGED <<payers, lastPayer, people, lastBill, billingPageVars>>

RestartBillNumbers ==
    /\ lastBill' = 0
    /\ UNCHANGED <<payers, lastPayer, people, bills, epoch, billingPageVars>>

OtherBillWriter ==
    \/ AddCustomer \/ DeleteCustomer \/ IssueBill \/ FlagOverdue
    \/ RebuildCustomers \/ RestartCustomerNumbers
    \/ RebuildBills \/ RestartBillNumbers

BillingPageNext ==
    \/ LoadBills \/ SendReminder
    \/ \E r \in billNet :
         \/ ReceiveBills(r) \/ LoseBills(r) \/ OpenMail(r) \/ AlertNoBill(r)
         \/ ServeBills(r) \/ ServeBillInfo(r) \/ ServeNoEmail(r)
    \/ OtherBillWriter

BillingPageSpec == BillingPageInit /\ [][BillingPageNext]_billingVars

-----------------------------------------------------------------------------
(* Properties *)

\* As long as the user waits for each answer, no load after the one shown has
\* been answered: every later one is lost or still under way.  (Without waiting
\* an older answer, for a filter selected before, may replace a newer one.)
TableIsLastAnswer ==
    orderly => \A m \in (table.n + 1)..loadsSent :
                   m \in lost \/ \E r \in billNet : LoadOf(r) = m

\* The mails about to be opened, which nothing stops any more.
Letters == {r.letter : r \in {q \in billNet : q.kind = "letter"}}

\* A mail for a row of an old table still is about a debt at least as old as
\* the bill of the row, whatever was written since, unless seed_paid_bills has
\* thrown the bills away: bills are flagged, never unflagged, never removed.
ReminderCoversRow ==
    \A m \in Letters : m.epoch = m.served => m.due <= m.row.bill.due

\* The mail goes to the person who had the customer's number when the table was
\* loaded, if there was one: a deleted customer's number is not given to somebody
\* else, unless seed_paid_bills starts the numbers over.  (When it does, and its DELETE
\* is refused, numbers of customers who stay are above the sequence: those may be
\* given again at any time after.)
ReminderReachesOwner ==
    \A m \in Letters : m.epoch = m.served /\ m.row.owner # Nobody => m.who = m.row.owner

=============================================================================
