------------------------------- MODULE Reports -------------------------------
(***************************************************************************)
(* The aggregate queries behind the reports and sales pages, each one SQL  *)
(* statement over the tables of EnergyDB.  A join with Customers or        *)
(* Regions keeps a bill at most once, as both are joined on their primary  *)
(* key, and drops it when there is no such row; a join with Energy_Usage   *)
(* keeps a bill once for every usage row of its customer.                  *)
(***************************************************************************)
EXTENDS EnergyDB, Functions

Total(bs) == SumFunction([b \in bs |-> b.amount])

WithStatus(s) == {b \in bills : b.status = s}

\* Mutant of BillsOfRegion: the join with Customers has no condition.
BillsOfAnyCustomer(bs, r) == {b \in bs : r \in regions /\ \E c \in customers : c.region = r}

\* FROM Bills JOIN Customers JOIN Regions: the bills of region r.
BillsOfRegion(bs, r) ==
    {b \in bs : r \in regions /\ \E c \in customers : c.id = b.cust /\ c.region = r}

\* Rows of a GROUP BY: the groups that have a bill.
ByRegion(bs) ==
    {[region |-> r, total |-> Total(BillsOfRegion(bs, r))] :
        r \in {q \in regions : BillsOfRegion(bs, q) # {}}}

\* Mutant of Cutoff: the default is three months.
CutoffThreeMonths(period) == CASE period = "1m" -> 152 [] OTHER -> 93

\* GET /api/revenueByRegion: the days 2025-03-01, 2025-01-01 and 2024-10-01 are
\* literals; any other period is taken for six months.
Cutoff(period) == CASE period = "1m" -> 152 [] period = "3m" -> 93 [] OTHER -> 1

RevenueByRegion(period) == ByRegion({b \in WithStatus("Paid") : b.paid >= Cutoff(period)})

\* GET /api/overdueTotal: SUM over no row is NULL, read as 0.
OverdueTotal == Total(WithStatus("Overdue"))

\* GET /api/overdueByRegion
OverdueByRegion == ByRegion(WithStatus("Overdue"))

\* GET /api/salesByProduct, without dates or with both of them.
SalesRows(bs) == {[bill |-> b, use |-> u] : b \in bs, u \in {v \in usage : v.type \in types}}
\* Mutant of Sales: the usage rows of every customer are joined.
SalesOfAnyCustomer(bs) ==
    LET ofType(t) == {x \in SalesRows(bs) : x.use.type = t}
    IN  {[product |-> t, total |-> SumFunction([x \in ofType(t) |-> x.bill.amount])] :
            t \in {s \in types : ofType(s) # {}}}

Sales(bs) ==
    LET joined == {x \in SalesRows(bs) : x.bill.cust = x.use.cust}
        ofType(t) == {x \in joined : x.use.type = t}
    IN  {[product |-> t, total |-> SumFunction([x \in ofType(t) |-> x.bill.amount])] :
            t \in {s \in types : ofType(s) # {}}}
SalesByProduct == Sales(WithStatus("Paid"))
SalesByProductBetween(from, to) ==
    Sales({b \in WithStatus("Paid") : from <= b.paid /\ b.paid <= to})

\* GET /api/billStatusBreakdown
BillStatusBreakdown ==
    <<Cardinality(WithStatus("Paid")), Cardinality(WithStatus("Unpaid")),
      Cardinality(WithStatus("Overdue"))>>

GrandTotal(report) == SumFunction([x \in report |-> x.total])

-----------------------------------------------------------------------------
(* Properties *)

\* Bills an inner join with Customers and Regions loses: the customer was
\* deleted or is not there yet, or the customer's region was never seeded.
Unassigned(bs) ==
    {b \in bs : ~\E c \in customers : c.id = b.cust /\ c.region \in regions}

\* The total on the overdue tile and the bars of the overdue chart never
\* disagree by anything but the bills without a customer in a known region: no
\* bill is counted in two regions and no other bill is lost, while customers
\* move, come and go and ids are re-used.
OverdueReportsAgree ==
    GrandTotal(OverdueByRegion) + Total(Unassigned(WithStatus("Overdue"))) = OverdueTotal

\* reports.html:100, "Overdue by Region and Total": the bars add up to the
\* overdue total of the database.
OverdueByRegionIsTotal == GrandTotal(OverdueByRegion) = OverdueTotal

=============================================================================
