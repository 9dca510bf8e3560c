------------------------------ MODULE EnergyDB ------------------------------
(***************************************************************************)
(* The tables of energypro.db and the SQL statements that the programs of  *)
(* the repository run on them.  Every program opens the same file and runs *)
(* each statement on its own, outside any explicit transaction, so one     *)
(* statement is one atomic action and a program is a sequence of them.     *)
(*                                                                         *)
(* A row is a record.  A column no program tells apart (name, email,       *)
(* address, month, units) is left out.  A day is counted from 2024-09-30,  *)
(* so that 2024-10-01 is day 1 and NoDate is an SQL NULL.                  *)
(***************************************************************************)
EXTENDS Integers, FiniteSets

CONSTANTS
    MaxRowid,   \* largest rowid SQLite hands out (2^63 - 1 in the library)
    RegionIds,  \* region ids a request or a seed program may write
    NumTypes,   \* energy types: 4
    Amounts,    \* amounts a seed program may draw for a bill
    PaidDates   \* the days a bill may have been paid on

NoDate == 0

ASSUME EnergyDBAssumption ==
    /\ MaxRowid \in Nat
    /\ NumTypes \in Nat \ {0}
    /\ Amounts \subseteq Nat
    /\ PaidDates \subseteq Nat \ {NoDate}

VARIABLES
    regions,    \* Regions: the set of region ids
    types,      \* Energy_Types: the set of energy type ids
    customers,  \* Customers: rows [id, region]
    custSeq,    \* sqlite_sequence of Customers, 0 when the row is missing
    bills,      \* Bills: rows [id, cust, amount, due, paid, status]
    billSeq,    \* sqlite_sequence of Bills, 0 when the row is missing
    usage,      \* Energy_Usage: rows [id, cust, type]
    usageSeq,   \* sqlite_sequence of Energy_Usage
    atRisk      \* At_Risk_Customers: rows [cust, amount], one per customer

dbVars == <<regions, types, customers, custSeq, bills, billSeq, usage, usageSeq, atRisk>>
customerVars == <<customers, custSeq>>
billVars == <<bills, billSeq>>
usageVars == <<usage, usageSeq>>

Rowids == 1..MaxRowid
Statuses == {"Paid", "Unpaid", "Overdue"}
CustomerRow == [id : Rowids, region : RegionIds]
BillRow == [id : Rowids, cust : Nat, amount : Amounts, due : Nat,
            paid : Nat, status : Statuses]
UsageRow == [id : Rowids, cust : Nat, type : 1..NumTypes]
AtRiskRow == [cust : Nat, amount : Amounts]

\* The type invariant of the tables.
DBTypeOK ==
    /\ regions \subseteq RegionIds
    /\ types \subseteq 1..NumTypes
    /\ customers \subseteq CustomerRow
    /\ custSeq \in 0..MaxRowid
    /\ bills \subseteq BillRow
    /\ billSeq \in 0..MaxRowid
    /\ usage \subseteq UsageRow
    /\ usageSeq \in 0..MaxRowid
    /\ atRisk \subseteq AtRiskRow

\* The file as init_db leaves it: every table exists and none has a row.
DBInit ==
    /\ regions = {} /\ types = {}
    /\ customers = {} /\ custSeq = 0
    /\ bills = {} /\ billSeq = 0
    /\ usage = {} /\ usageSeq = 0
    /\ atRisk = {}

Ids(rows) == {r.id : r \in rows}
CustomersOf(rows) == {r.cust : r \in rows}

-----------------------------------------------------------------------------
(***************************************************************************)
(* Rowids.  The tables are declared INTEGER PRIMARY KEY AUTOINCREMENT: the *)
(* next rowid is one more than the larger of the table's largest rowid and *)
(* its row in sqlite_sequence, and an insert fails (SQLITE_FULL) when that *)
(* is beyond the largest integer.                                          *)
(***************************************************************************)
\* Mutant of IsNextRowid: a table without AUTOINCREMENT.
IsNextRowidReused(n, seq, ids) ==
    /\ \A i \in ids : n > i
    /\ n = 1 \/ \E i \in ids : n = i + 1

IsNextRowid(n, seq, ids) ==
    /\ n > seq
    /\ \A i \in ids : n > i
    /\ n = seq + 1 \/ \E i \in ids : n = i + 1

RowidsExhausted(seq, ids) == seq >= MaxRowid \/ \E i \in ids : i >= MaxRowid

-----------------------------------------------------------------------------
(* Statements on Regions, Energy_Types and Customers *)

\* INSERT OR IGNORE INTO Regions
InsertRegion(r) ==
    /\ regions' = regions \cup {r}
    /\ UNCHANGED <<types, customerVars, billVars, usageVars, atRisk>>

\* INSERT OR IGNORE INTO Energy_Types
InsertType(t) ==
    /\ types' = types \cup {t}
    /\ UNCHANGED <<regions, customerVars, billVars, usageVars, atRisk>>

\* INSERT INTO Customers: no program turns PRAGMA foreign_keys on, so the
\* region is not looked up.
InsertCustomer(r) ==
    /\ \/ \E n \in Rowids :
            /\ IsNextRowid(n, custSeq, Ids(customers))
            /\ customers' = customers \cup {[id |-> n, region |-> r]}
            /\ custSeq' = n
       \/ /\ RowidsExhausted(custSeq, Ids(customers))
          /\ UNCHANGED customerVars
    /\ UNCHANGED <<regions, types, billVars, usageVars, atRisk>>

\* DELETE FROM Customers WHERE customer_id = id: bills, usage rows and the
\* at-risk row of the customer stay.
DeleteCustomer(id) ==
    /\ customers' = {c \in customers : c.id # id}
    /\ UNCHANGED <<regions, types, custSeq, billVars, usageVars, atRisk>>

\* UPDATE Customers SET region_id = r WHERE customer_id = id
UpdateCustomerRegion(id, r) ==
    /\ customers' = {IF c.id = id THEN [c EXCEPT !.region = r] ELSE c : c \in customers}
    /\ UNCHANGED <<regions, types, custSeq, billVars, usageVars, atRisk>>

\* DELETE FROM Customers
DeleteAllCustomers ==
    /\ customers' = {}
    /\ UNCHANGED <<regions, types, custSeq, billVars, usageVars, atRisk>>

\* DELETE FROM sqlite_sequence WHERE name = 'Customers'
ResetCustomerSequence ==
    /\ custSeq' = 0
    /\ UNCHANGED <<regions, types, customers, billVars, usageVars, atRisk>>

-----------------------------------------------------------------------------
(* Statements on Bills, Energy_Usage and At_Risk_Customers *)

\* Database::logEnergyUsage
InsertUsage(cust, type) ==
    /\ \/ \E n \in Rowids :
            /\ IsNextRowid(n, usageSeq, Ids(usage))
            /\ usage' = usage \cup {[id |-> n, cust |-> cust, type |-> type]}
            /\ usageSeq' = n
       \/ /\ RowidsExhausted(usageSeq, Ids(usage))
          /\ UNCHANGED usageVars
    /\ UNCHANGED <<regions, types, customerVars, billVars, atRisk>>

\* Database::generateFullBill
InsertBill(cust, amount, due, paid, status) ==
    /\ \/ \E n \in Rowids :
            /\ IsNextRowid(n, billSeq, Ids(bills))
            /\ bills' = bills \cup {[id |-> n, cust |-> cust, amount |-> amount,
                                     due |-> due, paid |-> paid, status |-> status]}
            /\ billSeq' = n
       \/ /\ RowidsExhausted(billSeq, Ids(bills))
          /\ UNCHANGED billVars
    /\ UNCHANGED <<regions, types, customerVars, usageVars, atRisk>>

\* DELETE FROM Bills
DeleteAllBills ==
    /\ bills' = {}
    /\ UNCHANGED <<regions, types, customerVars, billSeq, usageVars, atRisk>>

\* Mutant of ResetBillSequence: no row of sqlite_sequence has the name given.
ResetNoSequence == UNCHANGED dbVars

\* DELETE FROM sqlite_sequence WHERE name = 'Bills'
ResetBillSequence ==
    /\ billSeq' = 0
    /\ UNCHANGED <<regions, types, customerVars, bills, usageVars, atRisk>>

\* status != 'Paid' AND julianday(today) - julianday(due_date) > 30
IsLate(b, today) == b.status # "Paid" /\ today - b.due > 30

LateBills(today) == {b \in bills : IsLate(b, today)}

\* The rows INSERT OR REPLACE leaves for the late bills: the SELECT walks
\* Bills by rowid and customer_id is the primary key of At_Risk_Customers, so
\* the last late bill of each customer wins.
LastPerCustomer(late) ==
    {b \in late : \A d \in late : d.cust = b.cust => d.id <= b.id}

\* Mutant of InsertAtRisk: INSERT OR IGNORE.
InsertAtRiskIgnore(today) ==
    LET late == LateBills(today)
    IN  /\ atRisk' = atRisk \cup {[cust |-> b.cust, amount |-> b.amount] :
                        b \in {d \in LastPerCustomer(late) : d.cust \notin CustomersOf(atRisk)}}
        /\ UNCHANGED <<regions, types, customerVars, billVars, usageVars>>

\* Mutant of InsertAtRisk: a table without a primary key.
InsertAtRiskKeyless(today) ==
    /\ atRisk' = atRisk \cup {[cust |-> b.cust, amount |-> b.amount] : b \in LateBills(today)}
    /\ UNCHANGED <<regions, types, customerVars, billVars, usageVars>>

\* Mutant of InsertAtRisk: the age of the bill is not asked for.
InsertAtRiskUnpaid(today) ==
    LET unpaid == {b \in bills : b.status # "Paid"}
    IN  /\ atRisk' = {r \in atRisk : r.cust \notin CustomersOf(unpaid)}
                       \cup {[cust |-> b.cust, amount |-> b.amount] : b \in LastPerCustomer(unpaid)}
        /\ UNCHANGED <<regions, types, customerVars, billVars, usageVars>>

\* First statement of checkOverduePayments
InsertAtRisk(today) ==
    LET late == LateBills(today)
    IN  /\ atRisk' = {r \in atRisk : r.cust \notin CustomersOf(late)}
                       \cup {[cust |-> b.cust, amount |-> b.amount] : b \in LastPerCustomer(late)}
        /\ UNCHANGED <<regions, types, customerVars, billVars, usageVars>>

\* Mutant of MarkOverdue: the status is not asked for.
MarkOverduePaid(today) ==
    /\ bills' = {IF today - b.due > 30 THEN [b EXCEPT !.status = "Overdue"] ELSE b : b \in bills}
    /\ UNCHANGED <<regions, types, customerVars, billSeq, usageVars, atRisk>>

\* Second statement of checkOverduePayments
MarkOverdue(today) ==
    /\ bills' = {IF IsLate(b, today) THEN [b EXCEPT !.status = "Overdue"] ELSE b : b \in bills}
    /\ UNCHANGED <<regions, types, customerVars, billSeq, usageVars, atRisk>>

=============================================================================
