----------------------------- MODULE ReportsSystem -----------------------------
(***************************************************************************)
(* The reports, asked at any moment of a history of the whole system.      *)
(***************************************************************************)
EXTENDS FullSystem, Reports

\* After a complete run of seed_paid_bills on its own, with the regions seeded,
\* the six month revenue accounts for every paid bill.
RevenueIsComplete ==
    sp.pc = "done" /\ sp.fails = 0 /\ sp.alone /\ 1..NumRegions \subseteq regions =>
        GrandTotal(RevenueByRegion("6m")) = Total(WithStatus("Paid"))

\* The sales page joins bills with usage rows: after the first run of seed_data
\* it shows every paid bill once for each month of usage, so 6 times what was
\* paid, whichever energy types were drawn, whatever administrators did to the
\* customers meanwhile and wherever seed_paid_bills is in writing other bills.
SalesCountEveryMonth ==
    sd.pc = "done" /\ sd.fails = 0 /\ sd.runs = 1 =>
        GrandTotal(SalesByProduct) = NumMonths * Total(WithStatus("Paid"))

-----------------------------------------------------------------------------
(* What comments, schema and pages say, which the runs of the kind         *)
(* "violation" refute                                                      *)

\* server.cpp:382, "revenue based on Bills amount for paid bills": the sales
\* never exceed what was paid.
SalesAreRevenue == GrandTotal(SalesByProduct) <= Total(WithStatus("Paid"))

\* database.cxx:42, FOREIGN KEY (customer_id) REFERENCES Customers(customer_id):
\* an issued bill has a customer.
BillsReferenceCustomers == CustomersOf(bills) \subseteq Ids(customers)

=============================================================================
