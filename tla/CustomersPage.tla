---------------------------- MODULE CustomersPage ----------------------------
(***************************************************************************)
(* The page customers.html in one browser tab, the handlers of             *)
(* /api/customers it calls, and whoever else changes the Customers table.  *)
(* A submitted form sends one request; the tab does not wait for it, does  *)
(* not number it and does not cancel it, so several are under way at once  *)
(* and their answers come in any order or, when the connection breaks, not *)
(* at all.  A handler is one atomic step here: SqliteAccess implements     *)
(* CustomerRegistry.                                                       *)
(*                                                                         *)
(* A customer is [id, key]; key stands for what the region filter or the   *)
(* name lookup tells apart.  The JSON of a list is put together without    *)
(* escaping, so one name with a quotation mark in it makes the text        *)
(* unreadable: such a name has a key in Quoted.                            *)
(***************************************************************************)
EXTENDS Naturals

CONSTANTS
    Keys,           \* regions or names
    NoKey,          \* the field was left blank
    Quoted,         \* the keys of names that JSON would have to escape
    MaxCustomerId,  \* bound: customer ids
    MaxForms,       \* bound: requests this tab sends
    MaxSequences    \* bound: times the customers' numbers begin

ASSUME CustomersPageAssumption ==
    /\ Quoted \subseteq Keys
    /\ NoKey \notin Keys
    /\ MaxCustomerId \in Nat
    /\ MaxForms \in Nat
    /\ MaxSequences \in Nat \ {0}

VARIABLES
    customers,  \* the Customers table
    last,       \* its row of sqlite_sequence
    sequence,   \* history: times the numbers have begun, at 1 again with seed_paid_bills
    formNet,    \* requests under way: [n, act, id, key, ans]
    formsSent,  \* number of requests sent
    pane,       \* the results section: [visible, what, n, id, ans]
    overlapped  \* history: two requests were under way at the same time

tableVars == <<customers, last, sequence>>
customersPageVars == <<tableVars, formNet, formsSent, pane, overlapped>>

CustomerIds == 1..MaxCustomerId
NoId == 0            \* the field was left blank
Ids(rows) == {c.id : c \in rows}

\* "filter" stands for the filter by region and for the lookup by name.
Lists == {"manage", "filter", "edit", "viewAll"}
Acts == Lists \cup {"delete", "add"}

\* What comes back: a list; the two messages; a JSON object with an error; a
\* body that is no JSON, or a broken connection.  "pending" is none yet.  from is
\* history: the sequence that had handed out the number of a deleted customer.
Reply(code, ids, from) == [code |-> code, ids |-> ids, from |-> from]
NoSequence == 0
Pending == Reply("pending", {}, NoSequence)
Refusal == Reply("error", {}, NoSequence)
Unreadable == Reply("unreadable", {}, NoSequence)
Codes == {"pending", "rows", "deleted", "added", "error", "unreadable"}
Answers == [code : Codes, ids : SUBSET CustomerIds, from : 0..MaxSequences]

CustomersPageTypeOK ==
    /\ customers \subseteq [id : CustomerIds, key : Keys]
    /\ last \in 0..MaxCustomerId /\ sequence \in 1..MaxSequences
    /\ formNet \subseteq [n : 1..MaxForms, act : Acts, id : CustomerIds \cup {NoId},
                          key : Keys \cup {NoKey}, ans : Answers]
    /\ formsSent \in 0..MaxForms
    /\ pane \in [visible : BOOLEAN, what : {"nothing", "table", "json", "added", "failed"},
                 n : 0..MaxForms, id : CustomerIds \cup {NoId}, ans : Answers]
    /\ overlapped \in BOOLEAN

EmptyPane == [visible |-> FALSE, what |-> "nothing", n |-> 0, id |-> NoId, ans |-> Pending]

CustomersPageInit ==
    /\ customers = {} /\ last = 0 /\ sequence = 1
    /\ formNet = {} /\ formsSent = 0
    /\ pane = EmptyPane
    /\ overlapped = FALSE

-----------------------------------------------------------------------------
(* The tab *)

SendForm(act, id, key) ==
    /\ formsSent < MaxForms
    /\ formsSent' = formsSent + 1
    /\ formNet' = formNet \cup
                    {[n |-> formsSent + 1, act |-> act, id |-> id, key |-> key, ans |-> Pending]}
    /\ overlapped' = (overlapped \/ formNet # {})
    /\ UNCHANGED tableVars

\* The form: the results are cleared and hidden, the request is sent.
Submit ==
    /\ \/ SendForm("manage", NoId, NoKey)
       \/ \E act \in {"filter", "add"}, k \in Keys \cup {NoKey} : SendForm(act, NoId, k)
       \/ \E act \in {"edit", "delete"}, id \in CustomerIds \cup {NoId} : SendForm(act, id, NoKey)
    /\ pane' = EmptyPane

\* The button that is shown with the message about an added customer.
ViewAll ==
    /\ pane.visible /\ pane.what = "added"
    /\ SendForm("viewAll", NoId, NoKey)
    /\ UNCHANGED pane

\* Mutant of ShowIn: a failed fetch is only logged, as on the other pages.
ShowUnlessFailed(r, what) ==
    IF what = "failed" THEN pane
    ELSE [visible |-> pane.visible \/ r.act # "viewAll", what |-> what, n |-> r.n,
          id |-> r.id, ans |-> r.ans]

\* The contents are replaced whatever is shown; only the answer of a form
\* makes the section visible.
ShowIn(r, what) ==
    [visible |-> pane.visible \/ r.act # "viewAll", what |-> what, n |-> r.n,
     id |-> r.id, ans |-> r.ans]

\* Any JSON that answers a POST is taken for a success.
ReceiveAnswer(r) ==
    /\ r.ans # Pending
    /\ pane' = CASE r.ans.code = "unreadable" -> ShowIn(r, "failed")
                 [] r.ans.code # "unreadable" /\ r.act = "add" -> ShowIn(r, "added")
                 [] r.ans.code = "rows" -> ShowIn(r, "table")
                 [] OTHER -> ShowIn(r, "json")
    /\ formNet' = formNet \ {r}
    /\ UNCHANGED <<tableVars, formsSent, overlapped>>

-----------------------------------------------------------------------------
(* The server *)

AnswerWith(r, ans) ==
    /\ formNet' = (formNet \ {r}) \cup {[r EXCEPT !.ans = ans]}
    /\ UNCHANGED <<formsSent, pane, overlapped>>

\* A parameter that is empty is not bound: its value is NULL and nothing
\* is equal to it or like it.
Selected(r) ==
    CASE r.act \in {"manage", "viewAll"} -> customers
      [] r.act = "edit" -> {c \in customers : c.id = r.id}
      [] OTHER -> {c \in customers : c.key = r.key}

\* getCustomersAsJson: a scan that meets a lock ends with no rows.
ServeList(r) ==
    /\ r.act \in Lists
    /\ \/ AnswerWith(r, IF \E c \in Selected(r) : c.key \in Quoted THEN Unreadable
                        ELSE Reply("rows", Ids(Selected(r)), NoSequence))
       \/ AnswerWith(r, Reply("rows", {}, NoSequence))
    /\ UNCHANGED tableVars

\* Deleting a customer that is not there succeeds.
ServeDelete(r) ==
    /\ r.act = "delete"
    /\ customers' = {c \in customers : c.id # r.id}
    /\ AnswerWith(r, Reply("deleted", {}, IF r.id \in 1..last THEN sequence ELSE NoSequence))
    /\ UNCHANGED <<last, sequence>>

\* Mutant of NextRowid: without AUTOINCREMENT the largest id is used again.
NextFreeRowid(n) == n - 1 \in Ids(customers) \cup {0} /\ \A i \in Ids(customers) : n > i

\* AUTOINCREMENT: behind the sequence and behind every row.
NextRowid(n) ==
    /\ n - 1 \in Ids(customers) \cup {last}
    /\ n > last /\ \A i \in Ids(customers) : n > i

Insert(key) ==
    \E n \in CustomerIds :
        /\ NextRowid(n)
        /\ customers' = customers \cup {[id |-> n, key |-> key]}
        /\ last' = n
        /\ UNCHANGED sequence

\* Without a region the body holds null, and reading it as a number throws:
\* the answer is 500 with no JSON.
ServeAdd(r) ==
    /\ r.act = "add"
    /\ IF r.key = NoKey
       THEN AnswerWith(r, Unreadable) /\ UNCHANGED tableVars
       ELSE Insert(r.key) /\ AnswerWith(r, Reply("added", {}, NoSequence))

\* The database is locked by another program: 500 with the error as JSON.
ServeRefused(r) ==
    /\ r.act = "delete" \/ (r.act = "add" /\ r.key # NoKey)
    /\ AnswerWith(r, Refusal)
    /\ UNCHANGED tableVars

ServeForm(r) ==
    /\ r.ans = Pending
    /\ ServeList(r) \/ ServeDelete(r) \/ ServeAdd(r) \/ ServeRefused(r)

\* The connection breaks before or after the handler has run.
BreakForm(r) ==
    /\ r.ans # Unreadable
    /\ AnswerWith(r, Unreadable)
    /\ UNCHANGED tableVars

\* The first two statements of seed_paid_bills, each of which may be refused alone:
\* the numbers may start over while customers keep theirs.
RebuildTable ==
    \/ customers' = {} /\ UNCHANGED <<last, sequence>>
    \/ /\ sequence < MaxSequences
       /\ sequence' = sequence + 1
       /\ last' = 0
       /\ UNCHANGED customers

\* Other tabs, the console and the seed programs.
OtherCustomerWriter ==
    /\ \/ \E k \in Keys : Insert(k)
       \/ \E id \in Ids(customers) :
            customers' = {c \in customers : c.id # id} /\ UNCHANGED <<last, sequence>>
       \/ RebuildTable
    /\ UNCHANGED <<formNet, formsSent, pane, overlapped>>

Answering == \E r \in formNet : ServeForm(r) \/ ReceiveAnswer(r)

CustomersPageNext ==
    \/ Submit \/ ViewAll
    \/ Answering
    \/ \E r \in formNet : BreakForm(r)
    \/ OtherCustomerWriter

CustomersPageSpec == CustomersPageInit /\ [][CustomersPageNext]_customersPageVars

-----------------------------------------------------------------------------
(* Properties *)

\* When every request has come back, on whatever path, the results section is
\* shown and says something about a request: a submit hides it, and the answer
\* of the View All button does not show it again, so it takes each branch of
\* the other callbacks to do so.
PaneSettles ==
    formNet = {} /\ formsSent > 0 => pane.visible /\ pane.what # "nothing"

\* A user who never clicks before the last answer is there sees the answer to
\* the last click.  (With two requests under way the older one may come last.)
PaneIsCurrent ==
    ~overlapped /\ formNet = {} => pane.n = formsSent

\* "Customer deleted successfully.", however late it is shown, about a customer
\* number that had been handed out: that number is nobody's and stays so, whoever
\* adds customers meanwhile, until seed_paid_bills starts the numbers over.
DeletedStaysGone ==
    pane.ans.code = "deleted" /\ pane.ans.from = sequence => pane.id \notin Ids(customers)

\* "Customer added successfully." is shown for a request that added one.
AddedClaimTrue ==
    pane.what = "added" => pane.ans.code = "added"

=============================================================================
