------------------------------- MODULE SeedData -------------------------------
(***************************************************************************)
(* The seed_data program: it fills the database in a fixed order, one SQL  *)
(* statement at a time, and ends with checkOverduePayments.  It does not   *)
(* look at what a statement returns: a failed one is printed and the next  *)
(* one runs.  Usage rows and bills name the customers 1..NumCustomers by   *)
(* number, whatever ids the inserts of this run were given.                *)
(*                                                                         *)
(* The program may be killed between any two statements and may be run     *)
(* again at any later time.                                                *)
(***************************************************************************)
EXTENDS Seeding

VARIABLE sd   \* the program: where it is, its loop counters, the number of times it
              \* was started and the number of statements of this run that failed

SeedPc == {"idle", "regions", "customers", "types", "usage", "bills", "atRisk", "overdue", "done"}
SeedState == [pc : SeedPc, i : Nat, j : Nat, runs : Nat, fails : Nat]

SeedTypeOK == sd \in SeedState

SeedInit == sd = [pc |-> "idle", i |-> 1, j |-> 1, runs |-> 0, fails |-> 0]

CheckDay == 202       \* "2025-04-20"

-----------------------------------------------------------------------------
(* Control: where the program goes after the statement it is at.           *)

Goto(s, pc) == [s EXCEPT !.pc = pc, !.i = 1, !.j = 1]

\* Mutant of LoopTo: <= for <.
LoopPast(s, n, pc) == IF s.i <= n THEN [s EXCEPT !.i = s.i + 1] ELSE Goto(s, pc)

\* Mutant of LoopTo: the counter is not incremented.
LoopForever(s, n, pc) == IF s.i < n THEN s ELSE Goto(s, pc)

\* for (i = 1; i <= n; ++i), then on to the next loop
LoopTo(s, n, pc) == IF s.i < n THEN [s EXCEPT !.i = s.i + 1] ELSE Goto(s, pc)

After(s) ==
    CASE s.pc = "regions"   -> LoopTo(s, NumRegions, "customers")
      [] s.pc = "customers" -> LoopTo(s, NumCustomers, "types")
      [] s.pc = "types"     -> LoopTo(s, NumTypes, "usage")
      [] s.pc = "usage"     -> IF s.j < NumMonths
                               THEN [s EXCEPT !.j = s.j + 1]
                               ELSE LoopTo([s EXCEPT !.j = 1], NumCustomers, "bills")
      [] s.pc = "bills"     -> LoopTo(s, NumCustomers, "atRisk")
      [] s.pc = "atRisk"    -> Goto(s, "overdue")
      [] s.pc = "overdue"   -> Goto(s, "done")

SeedRunning == sd.pc \notin {"idle", "done"}

-----------------------------------------------------------------------------
(* Steps *)

StartSeed ==
    /\ ~SeedRunning
    /\ sd.runs < MaxRuns
    /\ sd' = [pc |-> "regions", i |-> 1, j |-> 1, runs |-> sd.runs + 1, fails |-> 0]
    /\ UNCHANGED dbVars

SeedRegion ==
    /\ sd.pc = "regions"
    /\ InsertRegion(sd.i)
    /\ sd' = After(sd)

SeedCustomer ==
    /\ sd.pc = "customers"
    /\ InsertCustomer(RegionOf(sd.i))
    /\ sd' = After(sd)

SeedType ==
    /\ sd.pc = "types"
    /\ InsertType(sd.i)
    /\ sd' = After(sd)

\* Mutant of SeedUsage: customers counted from 1 where they are numbered from 2.
SeedUsageShifted ==
    /\ sd.pc = "usage"
    /\ \E t \in 1..NumTypes : InsertUsage(sd.i + 1, t)
    /\ sd' = After(sd)

SeedUsage ==
    /\ sd.pc = "usage"
    /\ \E t \in 1..NumTypes : InsertUsage(sd.i, t)
    /\ sd' = After(sd)

\* Bills of three kinds by the customer's number: due 2024-11-01 and not paid,
\* due 2025-03-10 and paid 2025-03-08, due 2025-04-15 and not paid.
SeedBill ==
    /\ sd.pc = "bills"
    /\ \E amount \in Amounts :
         \/ sd.i % 4 = 0 /\ InsertBill(sd.i, amount, 32, NoDate, "Unpaid")
         \/ sd.i % 4 = 1 /\ InsertBill(sd.i, amount, 161, 159, "Paid")
         \/ sd.i % 4 \in {2, 3} /\ InsertBill(sd.i, amount, 197, NoDate, "Unpaid")
    /\ sd' = After(sd)

\* Mutant of SeedAtRisk: the update of the bills comes first.
SeedAtRiskSecond ==
    /\ sd.pc = "atRisk"
    /\ MarkOverdue(CheckDay)
    /\ sd' = After(sd)

SeedAtRisk ==
    /\ sd.pc = "atRisk"
    /\ InsertAtRisk(CheckDay)
    /\ sd' = After(sd)

SeedOverdue ==
    /\ sd.pc = "overdue"
    /\ MarkOverdue(CheckDay)
    /\ sd' = After(sd)

\* The statement returns SQLITE_BUSY: no busy timeout is set, the error is
\* printed, and the program goes on.
SeedStatementFails ==
    /\ sd.fails < MaxFails
    /\ SeedRunning
    /\ sd' = [After(sd) EXCEPT !.fails = @ + 1]
    /\ UNCHANGED dbVars

\* The process is killed.
SeedKilled ==
    /\ SeedRunning
    /\ sd' = Goto(sd, "idle")
    /\ UNCHANGED dbVars

\* What a scheduled process does.
SeedStep ==
    \/ SeedRegion \/ SeedCustomer \/ SeedType \/ SeedUsage \/ SeedBill
    \/ SeedAtRisk \/ SeedOverdue
    \/ SeedStatementFails

SeedNext == StartSeed \/ SeedStep \/ SeedKilled

seedVars == <<dbVars, sd>>

\* The program alone with the database, run any number of times.
SeedAlone == DBInit /\ SeedInit

SeedSpec == SeedAlone /\ [][SeedNext]_seedVars

-----------------------------------------------------------------------------
(* Properties *)

\* A run of seed_data whose statements all took effect leaves no late bill
\* unmarked, and every customer with a late bill has an at-risk row with the
\* amount of the last one, whatever administrators and earlier runs did.
CheckComplete ==
    sd.pc = "done" /\ sd.fails = 0 =>
        \A b \in LateBills(CheckDay) :
            /\ b.status = "Overdue"
            /\ b \in LastPerCustomer(LateBills(CheckDay)) =>
                 [cust |-> b.cust, amount |-> b.amount] \in atRisk

\* No customer is declared at risk without a late bill of that amount, even
\* when statements fail or the program is killed between its two checks.
AtRiskJustified ==
    \A r \in atRisk : \E b \in LateBills(CheckDay) : b.cust = r.cust /\ b.amount = r.amount

\* The two statements of checkOverduePayments are in the order that matters:
\* a crash between them never leaves an Overdue bill whose customer is not at
\* risk.
OverdueHasAtRisk ==
    MaxFails = 0 => \A b \in bills : b.status = "Overdue" => b.cust \in CustomersOf(atRisk)

\* A bill that was issued stays as it was, except that checkOverduePayments
\* may turn an Unpaid one, and only one that is late, Overdue.
BillsAreFinalStep ==
    \A b \in bills :
        \/ b \in bills'
        \/ /\ b.status = "Unpaid" /\ IsLate(b, CheckDay)
           /\ [b EXCEPT !.status = "Overdue"] \in bills'

BillsAreFinal == [][BillsAreFinalStep]_seedVars

\* At most one at-risk row per customer (customer_id is the primary key), with
\* several late bills for one customer and the check run again.
OneRiskPerCustomer ==
    \A r1, r2 \in atRisk : r1.cust = r2.cust => r1 = r2

=============================================================================
