---------------------------- MODULE SeedPaidBills ----------------------------
(***************************************************************************)
(* The seed_paid_bills program: it empties Customers and Bills, starts     *)
(* their rowids over, and fills them again.  The loop over the bills is    *)
(* inside the loop over the regions: after the customers of each region a  *)
(* bill is written for every customer number 1..NumCustomers.  It leaves   *)
(* Energy_Usage and At_Risk_Customers alone and marks bills Overdue itself.*)
(***************************************************************************)
EXTENDS Seeding

VARIABLE sp   \* the program: where it is, the region it fills, its inner loop
              \* counter, the number of times it was started, the statements of
              \* this run that failed, and (history) whether no other program
              \* changed a table since it started

RebuildPc == {"idle", "deleteCustomers", "resetCustomers", "deleteBills", "resetBills",
              "customers", "bills", "done"}

RebuildTypeOK ==
    sp \in [pc : RebuildPc, region : Nat, i : Nat, runs : Nat, fails : Nat, alone : BOOLEAN]

RebuildInit ==
    sp = [pc |-> "idle", region |-> 1, i |-> 1, runs |-> 0, fails |-> 0, alone |-> TRUE]

RebuildRunning == sp.pc \notin {"idle", "done"}

\* Where the program goes after the statement it is at.
RebuildAfter(s) ==
    CASE s.pc = "deleteCustomers" -> [s EXCEPT !.pc = "resetCustomers"]
      [] s.pc = "resetCustomers"  -> [s EXCEPT !.pc = "deleteBills"]
      [] s.pc = "deleteBills"     -> [s EXCEPT !.pc = "resetBills"]
      [] s.pc = "resetBills"      -> [s EXCEPT !.pc = "customers"]
      [] s.pc = "customers" ->
           IF s.i < PerRegion THEN [s EXCEPT !.i = @ + 1] ELSE [s EXCEPT !.pc = "bills", !.i = 1]
      [] s.pc = "bills" ->
           IF s.i < NumCustomers THEN [s EXCEPT !.i = @ + 1]
           ELSE IF s.region < NumRegions
           THEN [s EXCEPT !.pc = "customers", !.region = @ + 1, !.i = 1]
           ELSE [s EXCEPT !.pc = "done", !.region = 1, !.i = 1]

-----------------------------------------------------------------------------
(* Steps *)

StartRebuild ==
    /\ ~RebuildRunning
    /\ sp.runs < MaxRuns
    /\ sp' = [pc |-> "deleteCustomers", region |-> 1, i |-> 1, runs |-> sp.runs + 1,
              fails |-> 0, alone |-> TRUE]
    /\ UNCHANGED dbVars

\* The four statements that make room.
RebuildClear ==
    /\ \/ sp.pc = "deleteCustomers" /\ DeleteAllCustomers
       \/ sp.pc = "resetCustomers" /\ ResetCustomerSequence
       \/ sp.pc = "deleteBills" /\ DeleteAllBills
       \/ sp.pc = "resetBills" /\ ResetBillSequence
    /\ sp' = RebuildAfter(sp)

RebuildCustomer ==
    /\ sp.pc = "customers"
    /\ InsertCustomer(sp.region)
    /\ sp' = RebuildAfter(sp)

\* By the customer's number: due 2024-12-15 and Overdue, due 2025-03-25 and paid
\* on one of six days, due 2025-04-15 and Unpaid.
RebuildBill ==
    /\ sp.pc = "bills"
    /\ \E amount \in Amounts :
         \/ sp.i % 3 = 0 /\ InsertBill(sp.i, amount, 76, NoDate, "Overdue")
         \/ sp.i % 3 = 1 /\ \E paid \in PaidDates : InsertBill(sp.i, amount, 176, paid, "Paid")
         \/ sp.i % 3 = 2 /\ InsertBill(sp.i, amount, 197, NoDate, "Unpaid")
    /\ sp' = RebuildAfter(sp)

\* The statement returns SQLITE_BUSY, the error is printed, the next one runs.
RebuildStatementFails ==
    /\ RebuildRunning
    /\ sp.fails < MaxFails
    /\ sp' = [RebuildAfter(sp) EXCEPT !.fails = @ + 1]
    /\ UNCHANGED dbVars

RebuildKilled ==
    /\ RebuildRunning
    /\ sp' = [sp EXCEPT !.pc = "idle", !.region = 1, !.i = 1]
    /\ UNCHANGED dbVars

RebuildNext ==
    \/ StartRebuild
    \/ RebuildClear \/ RebuildCustomer \/ RebuildBill
    \/ RebuildStatementFails
    \/ RebuildKilled

rebuildVars == <<dbVars, sp>>

\* The program alone with the database.
RebuildAlone == DBInit /\ RebuildInit

RebuildSpec == RebuildAlone /\ [][RebuildNext]_rebuildVars

-----------------------------------------------------------------------------
(* Properties *)

\* The data set of the program: the customers 1..500 in their regions and, for
\* each, one bill per pass of the region loop, numbered from 1.
HoldsDataSet ==
    /\ customers = {[id |-> i, region |-> RegionOf(i)] : i \in 1..NumCustomers}
    /\ \A i \in 1..NumCustomers :
          Cardinality({b \in bills : b.cust = i}) = NumRegions
    /\ Ids(bills) = 1..(NumRegions * NumCustomers)

\* A run during which no statement failed and no other program took a step
\* leaves the data set and nothing else in the two tables: whatever the other
\* programs and its own killed runs had left there and in sqlite_sequence.
RebuildComplete == sp.pc = "done" /\ sp.fails = 0 /\ sp.alone => HoldsDataSet

=============================================================================
