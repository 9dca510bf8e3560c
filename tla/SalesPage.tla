------------------------------ MODULE SalesPage ------------------------------
(***************************************************************************)
(* The page sales.html in a tab.  It asks for the sales when it is loaded  *)
(* and at every click of Apply, with whatever period is entered, and draws *)
(* each answer, in the order they come, on one canvas, on which Chart.js   *)
(* accepts one chart at a time.  The handle of the chart is kept in        *)
(* window.salesChart, which is the canvas itself at first, because the id  *)
(* of an element is a property of the window.                              *)
(***************************************************************************)
EXTENDS Naturals

CONSTANTS
    Sums,             \* what the bars of an answer may add up to; 0 is no bars
    MaxSalesRequests  \* bound: requests of the tab

ASSUME SalesPageAssumption == Sums \subseteq Nat /\ 0 \in Sums /\ MaxSalesRequests \in Nat \ {0}

VARIABLES
    salesNet,   \* requests under way: [n, period, st, sum]
    salesSent,  \* number of requests
    handle,     \* what window.salesChart is
    live,       \* charts on the canvas
    total,      \* the number shown above the chart
    chart       \* the sum of the bars shown

salesVars == <<salesNet, salesSent, handle, live, total, chart>>

Periods == {"all", "dates"}

SalesPageTypeOK ==
    /\ salesNet \subseteq [n : 1..MaxSalesRequests, period : Periods,
                           st : {"sent", "answered"}, sum : Sums]
    /\ salesSent \in 1..MaxSalesRequests
    /\ handle \in {"canvas", "chart"}
    /\ live \in {0, 1}
    /\ total \in Sums /\ chart \in Sums

RequestOf(n, p) == [n |-> n, period |-> p, st |-> "sent", sum |-> 0]

\* The load event has sent the first request; no date is entered yet.
SalesPageInit ==
    /\ salesNet = {RequestOf(1, "all")} /\ salesSent = 1
    /\ handle = "canvas" /\ live = 0
    /\ total = 0 /\ chart = 0

\* loadSalesByProduct: the period is sent only when both dates are entered.
LoadSalesByProduct ==
    /\ salesSent < MaxSalesRequests
    /\ salesSent' = salesSent + 1
    /\ \E start, end \in BOOLEAN :
         salesNet' = salesNet \cup
                        {RequestOf(salesSent + 1, IF start /\ end THEN "dates" ELSE "all")}
    /\ UNCHANGED <<handle, live, total, chart>>

\* A period without sales and a scan that meets a lock give an empty list.
ServeSales(r) ==
    /\ r.st = "sent"
    /\ \E s \in Sums : salesNet' = (salesNet \ {r}) \cup {[r EXCEPT !.st = "answered", !.sum = s]}
    /\ UNCHANGED <<salesSent, handle, live, total, chart>>

\* Mutant of Destroyable: the type of the handle is not looked at.
DestroyableAlways == TRUE

\* window.salesChart && typeof window.salesChart.destroy === 'function'
Destroyable == handle = "chart"

\* Destroying what is no chart throws, and so does a second chart on the canvas.
Left == IF Destroyable THEN 0 ELSE live
Throws == (Destroyable /\ handle # "chart") \/ Left > 0

\* The total is shown first, then renderSalesChart is called; an exception of it
\* ends in the catch, which writes to the console only.
ReceiveSales(r) ==
    /\ r.st = "answered"
    /\ total' = r.sum
    /\ IF Throws
       THEN live' = Left /\ UNCHANGED <<chart, handle>>
       ELSE live' = Left + 1 /\ chart' = r.sum /\ handle' = "chart"
    /\ salesNet' = salesNet \ {r}
    /\ UNCHANGED salesSent

\* A lost answer is written to the console.
Lose(r) ==
    /\ salesNet' = salesNet \ {r}
    /\ UNCHANGED <<salesSent, handle, live, total, chart>>

SalesPageNext ==
    \/ LoadSalesByProduct
    \/ \E r \in salesNet : ServeSales(r) \/ ReceiveSales(r) \/ Lose(r)

SalesPageSpec == SalesPageInit /\ [][SalesPageNext]_salesVars

-----------------------------------------------------------------------------
(* Properties *)

\* The number above the chart is the sum of its bars and the canvas has its
\* chart, whichever answer came last and whichever were lost: the two are set
\* one after the other, and an exception between them would part them.
SalesTotalIsOfChart == total = chart /\ (total # 0 => live = 1)

=============================================================================
