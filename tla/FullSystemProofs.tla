--------------------------- MODULE FullSystemProofs ---------------------------
(***************************************************************************)
(* Theorems of FullSystem, SeedPaidBills and Reports for every value of    *)
(* the constants, while all programs run at once:                          *)
(*   - the tables keep their types and no two rows of a table share a      *)
(*     rowid, although seed_paid_bills empties the tables and              *)
(*     sqlite_sequence in four statements that the others run between and  *)
(*     any of which may be refused;                                        *)
(*   - a run of seed_paid_bills nobody disturbs leaves exactly its data    *)
(*     set, whatever the tables held before;                               *)
(*   - the reports add up: the bars of the overdue report to the overdue   *)
(*     total, the revenue by region to what was paid, and the sales to     *)
(*     what was paid times the months of usage.                            *)
(***************************************************************************)
EXTENDS ReportsSystem, LiveSystemProofs, SumTheorems

\* No two customers have the same id.
CustomerIdsUnique == \A c, d \in customers : c.id = d.id => c = d

\* seed_paid_bills fills one of the regions.
RebuildInv == RebuildTypeOK /\ sp.region \in 1..NumRegions

KeysInv == CustomerIdsUnique /\ BillIdsUnique

FullInv == TypeInv /\ RebuildInv /\ KeysInv

-----------------------------------------------------------------------------
(* Every statement on the two tables keeps their rowids apart.             *)

\* The rowid of a new customer is larger than any in the table, whatever
\* sqlite_sequence says.
LEMMA InsertCustomerKeys ==
    ASSUME DBTypeOK, CustomerIdsUnique, NEW r, InsertCustomer(r)
    PROVE  CustomerIdsUnique' /\ bills' = bills
<1>1. bills' = bills
  BY DEF InsertCustomer, billVars
<1>2. CASE UNCHANGED customerVars
  BY <1>1, <1>2 DEF customerVars, CustomerIdsUnique
<1>3. CASE ~UNCHANGED customerVars
  <2>1. PICK n \in Rowids :
          /\ IsNextRowid(n, custSeq, Ids(customers))
          /\ customers' = customers \cup {[id |-> n, region |-> r]}
    BY <1>3 DEF InsertCustomer
  <2>2. \A c \in customers : n > c.id /\ c.id \in Nat /\ n \in Nat
    BY <2>1 DEF IsNextRowid, Ids, DBTypeOK, CustomerRow, Rowids
  <2>3. \A c \in customers : c.id # n
    BY <2>2
  <2>4. CustomerIdsUnique'
    BY <2>1, <2>3 DEF CustomerIdsUnique
  <2> QED
    BY <1>1, <2>4
<1> QED
  BY <1>2, <1>3

\* Moving a customer to another region keeps its id.
LEMMA UpdateCustomerKeys ==
    ASSUME DBTypeOK, CustomerIdsUnique, NEW id, NEW r, UpdateCustomerRegion(id, r)
    PROVE  CustomerIdsUnique' /\ bills' = bills
<1> DEFINE Moved(c) == IF c.id = id THEN [c EXCEPT !.region = r] ELSE c
<1>1. \A c \in customers : Moved(c).id = c.id
  BY DEF DBTypeOK, CustomerRow
<1>2. \A c \in customers' : \E d \in customers : c = Moved(d)
  BY DEF UpdateCustomerRegion
<1>3. bills' = bills
  BY DEF UpdateCustomerRegion, billVars
<1> HIDE DEF Moved
<1> QED
  BY <1>1, <1>2, <1>3 DEF CustomerIdsUnique

\* Fewer rows share no more rowids.
LEMMA DeleteCustomerKeys ==
    ASSUME CustomerIdsUnique, NEW id, DeleteCustomer(id)
    PROVE  CustomerIdsUnique' /\ bills' = bills
  BY DEF CustomerIdsUnique, DeleteCustomer, billVars

LEMMA SeedStepKeys ==
    ASSUME TypeInv, KeysInv, SeedNext
    PROVE  KeysInv'
<1>0. DBTypeOK /\ CustomerIdsUnique /\ BillIdsUnique
  BY DEF TypeInv, TypeOK, KeysInv
<1>1. CASE UNCHANGED <<customers, bills>>
  BY <1>0, <1>1 DEF KeysInv, CustomerIdsUnique, BillIdsUnique
<1>2. CASE SeedCustomer
  BY <1>0, <1>2, InsertCustomerKeys DEF SeedCustomer, KeysInv, BillIdsUnique
<1>3. CASE SeedBill
  <2>1. PICK c, a, due, paid, s : InsertBill(c, a, due, paid, s)
    BY <1>3 DEF SeedBill
  <2>2. customers' = customers
    BY <2>1 DEF InsertBill, customerVars
  <2>3. BillIdsUnique'
    BY <1>0, <2>1, InsertBillStep
  <2> QED
    BY <1>0, <2>2, <2>3 DEF KeysInv, CustomerIdsUnique
<1>4. CASE SeedOverdue
  <2>1. MarkOverdue(CheckDay)
    BY <1>4 DEF SeedOverdue
  <2>2. customers' = customers
    BY <2>1 DEF MarkOverdue, customerVars
  <2>3. BillIdsUnique'
    BY <1>0, <2>1, MarkOverdueStep
  <2> QED
    BY <1>0, <2>2, <2>3 DEF KeysInv, CustomerIdsUnique
<1>5. SeedNext => \/ UNCHANGED <<customers, bills>>
                  \/ SeedCustomer \/ SeedBill \/ SeedOverdue
  BY DEF SeedNext, SeedStep, StartSeed, SeedRegion, SeedType, SeedUsage, SeedAtRisk,
         SeedStatementFails, SeedKilled, InsertRegion, InsertType, InsertUsage, InsertAtRisk,
         dbVars, customerVars, billVars
<1> QED
  BY <1>1, <1>2, <1>3, <1>4, <1>5

LEMMA AdminStepKeys ==
    ASSUME TypeInv, KeysInv, AdminNext
    PROVE  KeysInv'
<1>0. DBTypeOK /\ CustomerIdsUnique /\ BillIdsUnique
  BY DEF TypeInv, TypeOK, KeysInv
<1>1. CustomerIdsUnique' /\ bills' = bills
  <2>1. CASE PostCustomer \/ MenuAddCustomer
    BY <1>0, <2>1, InsertCustomerKeys DEF PostCustomer, MenuAddCustomer
  <2>2. CASE GetDeleteCustomer \/ MenuDeleteCustomer
    BY <1>0, <2>2, DeleteCustomerKeys DEF GetDeleteCustomer, MenuDeleteCustomer
  <2>3. CASE MenuUpdateCustomer
    BY <1>0, <2>3, UpdateCustomerKeys DEF MenuUpdateCustomer
  <2> QED
    BY <2>1, <2>2, <2>3 DEF AdminNext
<1> QED
  BY <1>0, <1>1 DEF KeysInv, BillIdsUnique

-----------------------------------------------------------------------------
(* seed_paid_bills                                                         *)

RebuildState == [pc : RebuildPc, region : Nat, i : Nat, runs : Nat, fails : Nat, alone : BOOLEAN]

\* A jump to the first statement of a loop.
LEMMA JumpStep ==
    ASSUME NEW s \in RebuildState, NEW pc \in RebuildPc, NEW r \in 1..NumRegions,
           NEW t, t = [s EXCEPT !.pc = pc, !.region = r, !.i = 1]
    PROVE  /\ t \in RebuildState
           /\ t.region \in 1..NumRegions
<1>1. PICK a : a = [s EXCEPT !.pc = pc]
  OBVIOUS
<1>2. a \in RebuildState
  BY <1>1 DEF RebuildState
<1>3. PICK b : b = [a EXCEPT !.region = r]
  OBVIOUS
<1>4. b \in RebuildState /\ b.region = r
  BY <1>2, <1>3, SeedingAssumption DEF RebuildState
<1>5. t = [b EXCEPT !.i = 1]
  BY <1>1, <1>3
<1>6. t \in RebuildState /\ t.region = r
  BY <1>4, <1>5 DEF RebuildState
<1> QED
  BY <1>6

\* The program goes from one of its statements to another.
LEMMA RebuildAfterStep ==
    ASSUME RebuildInv, RebuildRunning, NEW t, t = RebuildAfter(sp)
    PROVE  /\ t \in RebuildState
           /\ t.region \in 1..NumRegions
<1>0. /\ sp \in RebuildState
      /\ sp.region \in 1..NumRegions /\ NumRegions \in Nat \ {0}
      /\ NumCustomers \in Nat /\ PerRegion \in Nat
  BY SeedingAssumption, EnergyDBAssumption DEF RebuildInv, RebuildTypeOK, RebuildState
<1>1. CASE sp.pc \in {"deleteCustomers", "resetCustomers", "deleteBills", "resetBills"}
  <2>1. CASE sp.pc = "deleteCustomers"
    BY <1>0, <2>1 DEF RebuildAfter, RebuildPc, RebuildState
  <2>2. CASE sp.pc = "resetCustomers"
    BY <1>0, <2>2 DEF RebuildAfter, RebuildPc, RebuildState
  <2>3. CASE sp.pc = "deleteBills"
    BY <1>0, <2>3 DEF RebuildAfter, RebuildPc, RebuildState
  <2>4. CASE sp.pc = "resetBills"
    BY <1>0, <2>4 DEF RebuildAfter, RebuildPc, RebuildState
  <2> QED
    BY <1>1, <2>1, <2>2, <2>3, <2>4
<1>2. CASE sp.pc = "customers"
  <2>1. CASE sp.i < PerRegion
    BY <1>0, <1>2, <2>1 DEF RebuildAfter, RebuildPc, RebuildState
  <2>2. CASE ~(sp.i < PerRegion)
    BY <1>0, <1>2, <2>2 DEF RebuildAfter, RebuildPc, RebuildState
  <2> QED
    BY <2>1, <2>2
<1>3. CASE sp.pc = "bills"
  <2>1. CASE sp.i < NumCustomers
    BY <1>0, <1>3, <2>1 DEF RebuildAfter, RebuildPc, RebuildState
  <2>2. CASE ~(sp.i < NumCustomers) /\ sp.region < NumRegions
    <3>1. RebuildAfter(sp) = [sp EXCEPT !.pc = "customers", !.region = sp.region + 1, !.i = 1]
      BY <1>3, <2>2 DEF RebuildAfter
    <3>2. sp.region + 1 \in 1..NumRegions /\ "customers" \in RebuildPc
      BY <1>0, <2>2 DEF RebuildPc
    <3> QED
      BY <1>0, <3>1, <3>2, JumpStep
  <2>3. CASE ~(sp.i < NumCustomers) /\ ~(sp.region < NumRegions)
    <3>1. RebuildAfter(sp) = [sp EXCEPT !.pc = "done", !.region = 1, !.i = 1]
      BY <1>3, <2>3 DEF RebuildAfter
    <3>2. 1 \in 1..NumRegions /\ "done" \in RebuildPc
      BY <1>0, <2>3 DEF RebuildPc
    <3> QED
      BY <1>0, <3>1, <3>2, JumpStep
  <2> QED
    BY <2>1, <2>2, <2>3
<1> QED
  BY <1>0, <1>1, <1>2, <1>3 DEF RebuildRunning, RebuildPc, RebuildState

LEMMA RebuildStepInv ==
    ASSUME RebuildInv, RebuildNext
    PROVE  RebuildInv'
<1>0. /\ sp \in RebuildState
      /\ sp.region \in 1..NumRegions /\ NumRegions \in Nat \ {0}
  BY SeedingAssumption DEF RebuildInv, RebuildTypeOK, RebuildState
<1>1. CASE StartRebuild
  <2>1. sp' = [pc |-> "deleteCustomers", region |-> 1, i |-> 1, runs |-> sp.runs + 1,
               fails |-> 0, alone |-> TRUE]
    BY <1>1 DEF StartRebuild
  <2> QED
    BY <1>0, <2>1 DEF RebuildInv, RebuildTypeOK, RebuildPc, RebuildState
<1>2. CASE RebuildClear \/ RebuildCustomer \/ RebuildBill
  <2>1. sp' = RebuildAfter(sp) /\ RebuildRunning
    BY <1>2 DEF RebuildClear, RebuildCustomer, RebuildBill, RebuildRunning
  <2> QED
    BY <2>1, RebuildAfterStep DEF RebuildInv, RebuildTypeOK, RebuildState
<1>3. CASE RebuildStatementFails
  <2>1. PICK t : t = RebuildAfter(sp)
    OBVIOUS
  <2>2. RebuildRunning /\ sp' = [t EXCEPT !.fails = t.fails + 1]
    BY <1>3, <2>1 DEF RebuildStatementFails
  <2>3. /\ t \in RebuildState
        /\ t.region \in 1..NumRegions
    BY <2>1, <2>2, RebuildAfterStep
  <2> QED
    BY <2>2, <2>3 DEF RebuildInv, RebuildTypeOK, RebuildState
<1>4. CASE RebuildKilled
  <2>1. sp' = [sp EXCEPT !.pc = "idle", !.region = 1, !.i = 1]
    BY <1>4 DEF RebuildKilled
  <2>2. 1 \in 1..NumRegions /\ "idle" \in RebuildPc
    BY <1>0 DEF RebuildPc
  <2> QED
    BY <1>0, <2>1, <2>2, JumpStep DEF RebuildInv, RebuildTypeOK, RebuildState
<1> QED
  BY <1>1, <1>2, <1>3, <1>4 DEF RebuildNext

\* A bill of seed_paid_bills is a row of the table.
LEMMA RebuildBillWrites ==
    ASSUME RebuildBill, RebuildInv
    PROVE  \E a \in Amounts, due \in Nat, paid \in Nat, s \in Statuses :
              InsertBill(sp.i, a, due, paid, s)
<1>1. /\ "Paid" \in Statuses /\ "Unpaid" \in Statuses /\ "Overdue" \in Statuses
      /\ NoDate \in Nat /\ 76 \in Nat /\ 176 \in Nat /\ 197 \in Nat
      /\ PaidDates \subseteq Nat
  BY EnergyDBAssumption DEF Statuses, NoDate
<1>2. PICK amount \in Amounts :
        \/ InsertBill(sp.i, amount, 76, NoDate, "Overdue")
        \/ \E paid \in PaidDates : InsertBill(sp.i, amount, 176, paid, "Paid")
        \/ InsertBill(sp.i, amount, 197, NoDate, "Unpaid")
  BY DEF RebuildBill
<1> QED
  BY <1>1, <1>2

LEMMA RebuildStepTables ==
    ASSUME FullInv, Rebuild
    PROVE  TypeInv' /\ KeysInv'
<1>0. /\ DBTypeOK /\ SeedTypeOK /\ LoopOK /\ RebuildInv
      /\ CustomerIdsUnique /\ BillIdsUnique
  BY DEF FullInv, TypeInv, TypeOK, KeysInv
<1>1. sd' = sd
  BY DEF Rebuild
<1>2. SeedTypeOK' /\ LoopOK'
  BY <1>0, <1>1 DEF SeedTypeOK, LoopOK
<1>3. DBTypeOK' /\ KeysInv'
  <2>1. CASE UNCHANGED dbVars
    BY <1>0, <2>1 DEF dbVars, DBTypeOK, KeysInv, CustomerIdsUnique, BillIdsUnique
  <2>2. CASE RebuildClear
    <3>1. CASE DeleteAllCustomers
      BY <1>0, <3>1 DEF DeleteAllCustomers, DBTypeOK, KeysInv, CustomerIdsUnique,
                        BillIdsUnique, billVars, usageVars
    <3>2. CASE ResetCustomerSequence
      BY <1>0, <3>2, EnergyDBAssumption
         DEF ResetCustomerSequence, DBTypeOK, KeysInv, CustomerIdsUnique,
             BillIdsUnique, billVars, usageVars
    <3>3. CASE DeleteAllBills
      BY <1>0, <3>3 DEF DeleteAllBills, DBTypeOK, KeysInv, CustomerIdsUnique,
                        BillIdsUnique, customerVars, usageVars
    <3>4. CASE ResetBillSequence
      BY <1>0, <3>4, EnergyDBAssumption
         DEF ResetBillSequence, DBTypeOK, KeysInv, CustomerIdsUnique,
             BillIdsUnique, customerVars, usageVars
    <3> QED
      BY <2>2, <3>1, <3>2, <3>3, <3>4 DEF RebuildClear
  <2>3. CASE RebuildCustomer
    <3>1. InsertCustomer(sp.region) /\ sp.region \in RegionIds
      BY <1>0, <2>3, SeedingAssumption DEF RebuildCustomer, RebuildInv
    <3>2. DBTypeOK'
      BY <1>0, <3>1, InsertCustomerType
    <3>3. CustomerIdsUnique' /\ bills' = bills
      BY <1>0, <3>1, InsertCustomerKeys
    <3> QED
      BY <1>0, <3>2, <3>3 DEF KeysInv, BillIdsUnique
  <2>4. CASE RebuildBill
    <3>1. PICK a \in Amounts, due \in Nat, paid \in Nat, s \in Statuses :
             InsertBill(sp.i, a, due, paid, s)
      BY <1>0, <2>4, RebuildBillWrites
    <3>2. sp.i \in Nat
      BY <1>0 DEF RebuildInv, RebuildTypeOK, RebuildState
    <3>3. DBTypeOK'
      BY <1>0, <3>1, <3>2, InsertBillType
    <3>4. BillIdsUnique'
      BY <1>0, <3>1, InsertBillStep
    <3>5. customers' = customers
      BY <3>1 DEF InsertBill, customerVars
    <3> QED
      BY <1>0, <3>3, <3>4, <3>5 DEF KeysInv, CustomerIdsUnique
  <2> QED
    BY <2>1, <2>2, <2>3, <2>4
       DEF Rebuild, RebuildNext, StartRebuild, RebuildStatementFails, RebuildKilled
<1> QED
  BY <1>2, <1>3 DEF TypeInv, TypeOK

-----------------------------------------------------------------------------
(* The invariant of all programs together.                                 *)

LEMMA FullStep == FullInv /\ [FullNext]_fullVars => FullInv'
<1> SUFFICES ASSUME FullInv, [FullNext]_fullVars PROVE FullInv'
  OBVIOUS
<1>0. TypeInv /\ RebuildInv /\ KeysInv
  BY DEF FullInv
<1>1. CASE OtherProgram
  <2>1. sp' = [sp EXCEPT !.alone = FALSE] /\ Next
    BY <1>1 DEF OtherProgram
  <2>2. RebuildInv'
    BY <1>0, <2>1 DEF RebuildInv, RebuildTypeOK, RebuildState
  <2>3. CASE SeedNext
    BY <1>0, <2>2, <2>3, SeedStepType, SeedStepKeys DEF FullInv
  <2>4. CASE AdminNext
    BY <1>0, <2>2, <2>4, AdminStepType, AdminStepKeys DEF FullInv
  <2> QED
    BY <2>1, <2>3, <2>4 DEF Next
<1>2. CASE Rebuild
  <2>1. RebuildInv'
    BY <1>0, <1>2, RebuildStepInv DEF Rebuild
  <2> QED
    BY <1>2, <2>1, RebuildStepTables DEF FullInv
<1>3. CASE UNCHANGED fullVars
  BY <1>0, <1>3 DEF fullVars, vars, seedVars, dbVars, FullInv, TypeInv, TypeOK, DBTypeOK,
                    SeedTypeOK, LoopOK, RebuildInv, RebuildTypeOK, KeysInv,
                    CustomerIdsUnique, BillIdsUnique
<1> QED
  BY <1>1, <1>2, <1>3 DEF FullNext

LEMMA FullInvHolds == FullSpec => []FullInv
<1>1. FullInit => FullInv
  <2> SUFFICES ASSUME FullInit PROVE FullInv
    OBVIOUS
  <2>1. TypeInv
    BY InitType DEF FullInit
  <2>2. RebuildInv
    BY SeedingAssumption DEF FullInit, RebuildInit, RebuildInv, RebuildTypeOK, RebuildPc
  <2>3. KeysInv
    BY DEF FullInit, Init, DBInit, KeysInv, CustomerIdsUnique, BillIdsUnique
  <2> QED
    BY <2>1, <2>2, <2>3 DEF FullInv
<1> QED
  BY <1>1, FullStep, PTL DEF FullSpec

\* All programs at once keep the types of the tables and of their own loops.
THEOREM FullTypeCorrect == FullSpec => []FullTypeOK
<1>1. FullInv => FullTypeOK
  BY DEF FullInv, FullTypeOK, TypeInv, RebuildInv
<1> QED
  BY <1>1, FullInvHolds, PTL

-----------------------------------------------------------------------------
(* What an undisturbed run of seed_paid_bills leaves in the tables.        *)

\* Every bill of a run has a rowid: 2500 bills and 2^63 - 1 rowids.
RoomForBills == NumRegions * NumCustomers <= MaxRowid

\* The run has not been disturbed.
Undisturbed == sp.alone /\ sp.fails = 0

\* Customers holds the first n customers of the data set.
HasCustomers(n) ==
    /\ customers = {[id |-> k, region |-> RegionOf(k)] : k \in 1..n}
    /\ custSeq = n

\* Bills holds n bills, numbered from 1.
HasBills(n) == IsFiniteSet(bills) /\ Ids(bills) = 1..n /\ billSeq = n

BillsOf(c) == {b \in bills : b.cust = c}

\* In pass r over the customers those below i have their bill of the pass.
PassReached(r, i) ==
    \A c \in 1..NumCustomers : Cardinality(BillsOf(c)) = IF c < i THEN r ELSE r - 1

Written(r, i) == HasBills((r - 1) * NumCustomers + (i - 1)) /\ PassReached(r, i)

\* How far an undisturbed run has got, at each of its statements.
Progress ==
    /\ sp.pc \in {"deleteCustomers", "resetCustomers", "deleteBills", "resetBills"} =>
          sp.region = 1 /\ sp.i = 1
    /\ sp.pc \in {"resetCustomers", "deleteBills", "resetBills"} => customers = {}
    /\ sp.pc \in {"deleteBills", "resetBills"} => custSeq = 0
    /\ sp.pc = "resetBills" => bills = {}
    /\ sp.pc = "customers" =>
          /\ sp.i \in 1..PerRegion
          /\ HasCustomers((sp.region - 1) * PerRegion + (sp.i - 1))
          /\ Written(sp.region, 1)
    /\ sp.pc = "bills" =>
          /\ sp.i \in 1..NumCustomers
          /\ HasCustomers(sp.region * PerRegion)
          /\ Written(sp.region, sp.i)
    /\ sp.pc = "done" => HasCustomers(NumCustomers) /\ Written(NumRegions, NumCustomers + 1)

ProgressInv == Undisturbed => Progress

-----------------------------------------------------------------------------
(* Arithmetic of the two nested loops.                                     *)

LEMMA ProductMonotone ==
    ASSUME NEW r \in Nat, NEW q \in Nat, NEW p \in Nat, r <= q
    PROVE  r * p <= q * p /\ r * p \in Nat /\ q * p \in Nat
  OBVIOUS

LEMMA ProductNext ==
    ASSUME NEW r \in Nat \ {0}, NEW p \in Nat
    PROVE  (r - 1) * p + p = r * p /\ (r - 1) * p \in Nat
  OBVIOUS

\* The i-th customer of pass r is the one the pass is for.
LEMMA RegionOfPass ==
    ASSUME NEW r \in 1..NumRegions, NEW i \in 1..PerRegion
    PROVE  /\ (r - 1) * PerRegion + (i - 1) \in Nat
           /\ (r - 1) * PerRegion + (i - 1) < MaxRowid
           /\ RegionOf((r - 1) * PerRegion + (i - 1) + 1) = r
<1>1. /\ NumRegions \in Nat \ {0} /\ PerRegion \in Nat \ {0} /\ MaxRowid \in Nat
      /\ NumCustomers = NumRegions * PerRegion /\ NumCustomers <= MaxRowid
  BY SeedingAssumption, EnergyDBAssumption
<1>2. /\ (r - 1) * PerRegion + PerRegion = r * PerRegion
      /\ (r - 1) * PerRegion \in Nat
  BY <1>1, ProductNext
<1>3. r * PerRegion <= NumRegions * PerRegion
  BY <1>1, ProductMonotone
<1>4. ((r - 1) * PerRegion + (i - 1)) \div PerRegion = r - 1
  BY <1>1
<1>5. RegionOf((r - 1) * PerRegion + (i - 1) + 1) = r
  <2>1. \A m \in Nat : m + 1 - 1 = m
    OBVIOUS
  <2>2. RegionOf((r - 1) * PerRegion + (i - 1) + 1) =
          ((r - 1) * PerRegion + (i - 1)) \div PerRegion + 1
    BY <1>2, <2>1 DEF RegionOf
  <2> QED
    BY <1>4, <2>2
<1> QED
  BY <1>1, <1>2, <1>3, <1>5

\* A bill of a run finds a rowid.
LEMMA BillsFit ==
    ASSUME RoomForBills, NEW r \in 1..NumRegions, NEW i \in 1..NumCustomers
    PROVE  /\ (r - 1) * NumCustomers + (i - 1) \in Nat
           /\ (r - 1) * NumCustomers + (i - 1) < MaxRowid
<1>1. NumRegions \in Nat /\ NumCustomers \in Nat /\ MaxRowid \in Nat
  BY SeedingAssumption, EnergyDBAssumption
<1>2. /\ (r - 1) * NumCustomers + NumCustomers = r * NumCustomers
      /\ (r - 1) * NumCustomers \in Nat
  BY <1>1, ProductNext
<1>3. r * NumCustomers <= NumRegions * NumCustomers
  BY <1>1, ProductMonotone
<1> QED
  BY <1>1, <1>2, <1>3 DEF RoomForBills

-----------------------------------------------------------------------------
(* The inserts.                                                            *)

\* The rowid after 1..n is n + 1.
LEMMA NextRowidAfter ==
    ASSUME NEW n \in Nat, NEW m \in Rowids, IsNextRowid(m, n, 1..n)
    PROVE  m = n + 1
  BY DEF IsNextRowid, Rowids

LEMMA RowidsLeft ==
    ASSUME NEW n \in Nat, n < MaxRowid
    PROVE  ~RowidsExhausted(n, 1..n)
  BY EnergyDBAssumption DEF RowidsExhausted

LEMMA NextCustomer ==
    ASSUME NEW n \in Nat, n < MaxRowid, HasCustomers(n), InsertCustomer(RegionOf(n + 1))
    PROVE  HasCustomers(n + 1)' /\ UNCHANGED billVars
<1>1. custSeq = n /\ customers = {[id |-> k, region |-> RegionOf(k)] : k \in 1..n}
  BY DEF HasCustomers
<1>2. Ids(customers) = 1..n
  <2>1. \A c \in customers : c.id \in 1..n
    BY <1>1
  <2>2. \A k \in 1..n : [id |-> k, region |-> RegionOf(k)] \in customers
    BY <1>1
  <2>3. \A k \in 1..n : \E c \in customers : c.id = k
    BY <2>2
  <2> QED
    BY <2>1, <2>3 DEF Ids
<1>3. PICK m \in Rowids :
        /\ IsNextRowid(m, n, 1..n)
        /\ customers' = customers \cup {[id |-> m, region |-> RegionOf(n + 1)]}
        /\ custSeq' = m
  BY <1>1, <1>2, RowidsLeft DEF InsertCustomer
<1>4. m = n + 1
  BY <1>3, NextRowidAfter
<1>5. 1..(n + 1) = (1..n) \cup {n + 1}
  OBVIOUS
<1>6. customers' = {[id |-> k, region |-> RegionOf(k)] : k \in 1..(n + 1)}
  <2> DEFINE Row(k) == [id |-> k, region |-> RegionOf(k)]
  <2>1. customers = {Row(k) : k \in 1..n} /\ customers' = customers \cup {Row(n + 1)}
    BY <1>1, <1>3, <1>4
  <2> HIDE DEF Row
  <2>2. {Row(k) : k \in 1..(n + 1)} = {Row(k) : k \in 1..n} \cup {Row(n + 1)}
    BY <1>5
  <2>3. customers' = {Row(k) : k \in 1..(n + 1)}
    BY <2>1, <2>2
  <2> QED
    BY <2>3 DEF Row
<1>7. UNCHANGED billVars
  BY DEF InsertCustomer
<1> QED
  BY <1>3, <1>4, <1>6, <1>7 DEF HasCustomers

LEMMA NextBill ==
    ASSUME NEW n \in Nat, n < MaxRowid, HasBills(n),
           NEW c, NEW a, NEW due, NEW paid, NEW s, InsertBill(c, a, due, paid, s)
    PROVE  /\ HasBills(n + 1)'
           /\ UNCHANGED customerVars
           /\ \E b : b \notin bills /\ b.cust = c /\ bills' = bills \cup {b}
<1>1. IsFiniteSet(bills) /\ Ids(bills) = 1..n /\ billSeq = n
  BY DEF HasBills
<1>2. PICK m \in Rowids :
        /\ IsNextRowid(m, n, 1..n)
        /\ bills' = bills \cup {[id |-> m, cust |-> c, amount |-> a,
                                 due |-> due, paid |-> paid, status |-> s]}
        /\ billSeq' = m
  BY <1>1, RowidsLeft DEF InsertBill
<1>3. m = n + 1
  BY <1>2, NextRowidAfter
<1>4. PICK b : b = [id |-> m, cust |-> c, amount |-> a, due |-> due, paid |-> paid, status |-> s]
  OBVIOUS
<1>5. b.id = n + 1 /\ b.cust = c /\ bills' = bills \cup {b}
  BY <1>2, <1>3, <1>4
<1>6. b \notin bills
  <2>1. n + 1 \notin 1..n
    OBVIOUS
  <2> QED
    BY <1>1, <1>5, <2>1 DEF Ids
<1>7. IsFiniteSet(bills')
  BY <1>1, <1>5, FS_AddElement
<1>8. Ids(bills') = Ids(bills) \cup {n + 1}
  BY <1>5 DEF Ids
<1>9. Ids(bills') = 1..(n + 1)
  BY <1>1, <1>8
<1>10. UNCHANGED customerVars
  BY DEF InsertBill
<1> QED
  BY <1>2, <1>3, <1>5, <1>6, <1>7, <1>9, <1>10 DEF HasBills, Ids

\* One more bill for customer i of the pass.
LEMMA PassGoesOn ==
    ASSUME NEW r \in Nat \ {0}, NEW i \in 1..NumCustomers, IsFiniteSet(bills),
           PassReached(r, i),
           NEW b, b \notin bills, b.cust = i, bills' = bills \cup {b}
    PROVE  PassReached(r, i + 1)'
<1> SUFFICES ASSUME NEW c \in 1..NumCustomers
             PROVE  Cardinality(BillsOf(c)') = IF c < i + 1 THEN r ELSE r - 1
  BY DEF PassReached
<1>1. NumCustomers \in Nat
  BY SeedingAssumption
<1>2. Cardinality(BillsOf(c)) = IF c < i THEN r ELSE r - 1
  BY DEF PassReached
<1>3. CASE c = i
  <2>1. BillsOf(c)' = BillsOf(c) \cup {b} /\ b \notin BillsOf(c)
    BY <1>3 DEF BillsOf
  <2>2. IsFiniteSet(BillsOf(c))
    BY FS_Subset DEF BillsOf
  <2>3. Cardinality(BillsOf(c)') = Cardinality(BillsOf(c)) + 1
    BY <2>1, <2>2, FS_AddElement
  <2>4. ~(c < i) /\ c < i + 1
    BY <1>1, <1>3
  <2> QED
    BY <1>2, <2>3, <2>4
<1>4. CASE c # i
  <2>1. BillsOf(c)' = BillsOf(c)
    BY <1>4 DEF BillsOf
  <2>2. c < i + 1 <=> c < i
    BY <1>1, <1>4
  <2> QED
    BY <1>2, <2>1, <2>2
<1> QED
  BY <1>3, <1>4

\* When every customer has its bill of pass r, pass r + 1 begins.
LEMMA PassEnds ==
    ASSUME NEW r \in Nat \ {0}, Written(r, NumCustomers + 1)'
    PROVE  Written(r + 1, 1)'
<1>1. NumCustomers \in Nat
  BY SeedingAssumption
<1>2. (r - 1) * NumCustomers + (NumCustomers + 1 - 1) = (r + 1 - 1) * NumCustomers + (1 - 1)
  BY <1>1, ProductNext
<1>3. PassReached(r + 1, 1)'
  BY <1>1 DEF Written, PassReached
<1>4. HasBills((r + 1 - 1) * NumCustomers + (1 - 1))'
  BY <1>1, <1>2 DEF Written, HasBills
<1> QED
  BY <1>3, <1>4 DEF Written

-----------------------------------------------------------------------------
(* The control of the program, statement by statement.                     *)

\* From state s to the statement pc with these loop counters.
Reaches(s, t, pc, r, i) ==
    t.pc = pc /\ t.region = r /\ t.i = i /\ t.alone = s.alone /\ t.fails = s.fails

LEMMA JumpReaches ==
    ASSUME NEW s \in RebuildState, NEW pc \in RebuildPc, NEW r \in 1..NumRegions,
           NEW t, t = [s EXCEPT !.pc = pc, !.region = r, !.i = 1]
    PROVE  Reaches(s, t, pc, r, 1)
<1>1. PICK a : a = [s EXCEPT !.pc = pc]
  OBVIOUS
<1>2. /\ a \in RebuildState
      /\ a.pc = pc /\ a.alone = s.alone /\ a.fails = s.fails
  BY <1>1 DEF RebuildState
<1>3. PICK b : b = [a EXCEPT !.region = r]
  OBVIOUS
<1>4. /\ b \in RebuildState
      /\ b.pc = pc /\ b.region = r /\ b.alone = s.alone /\ b.fails = s.fails
  BY <1>2, <1>3, SeedingAssumption DEF RebuildState
<1>5. t = [b EXCEPT !.i = 1]
  BY <1>1, <1>3
<1> QED
  BY <1>4, <1>5 DEF RebuildState, Reaches

LEMMA RebuildAfterReaches ==
    ASSUME RebuildInv
    PROVE  LET t == RebuildAfter(sp) IN
           /\ sp.pc = "deleteCustomers" => Reaches(sp, t, "resetCustomers", sp.region, sp.i)
           /\ sp.pc = "resetCustomers" => Reaches(sp, t, "deleteBills", sp.region, sp.i)
           /\ sp.pc = "deleteBills" => Reaches(sp, t, "resetBills", sp.region, sp.i)
           /\ sp.pc = "resetBills" => Reaches(sp, t, "customers", sp.region, sp.i)
           /\ sp.pc = "customers" =>
                 IF sp.i < PerRegion THEN Reaches(sp, t, "customers", sp.region, sp.i + 1)
                 ELSE Reaches(sp, t, "bills", sp.region, 1)
           /\ sp.pc = "bills" =>
                 IF sp.i < NumCustomers THEN Reaches(sp, t, "bills", sp.region, sp.i + 1)
                 ELSE IF sp.region < NumRegions
                 THEN Reaches(sp, t, "customers", sp.region + 1, 1)
                 ELSE Reaches(sp, t, "done", 1, 1)
<1>0. /\ sp \in RebuildState
      /\ sp.region \in 1..NumRegions /\ NumRegions \in Nat \ {0}
      /\ NumCustomers \in Nat /\ PerRegion \in Nat
  BY SeedingAssumption, EnergyDBAssumption DEF RebuildInv, RebuildTypeOK, RebuildState
<1> DEFINE t == RebuildAfter(sp)
<1>1. CASE sp.pc = "deleteCustomers"
  BY <1>0, <1>1 DEF RebuildAfter, RebuildState, Reaches
<1>2. CASE sp.pc = "resetCustomers"
  BY <1>0, <1>2 DEF RebuildAfter, RebuildState, Reaches
<1>3. CASE sp.pc = "deleteBills"
  BY <1>0, <1>3 DEF RebuildAfter, RebuildState, Reaches
<1>4. CASE sp.pc = "resetBills"
  BY <1>0, <1>4 DEF RebuildAfter, RebuildState, Reaches
<1>5. CASE sp.pc = "customers"
  <2>1. CASE sp.i < PerRegion
    BY <1>0, <1>5, <2>1 DEF RebuildAfter, RebuildState, Reaches
  <2>2. CASE ~(sp.i < PerRegion)
    BY <1>0, <1>5, <2>2 DEF RebuildAfter, RebuildState, Reaches
  <2> QED
    BY <1>5, <2>1, <2>2
<1>6. CASE sp.pc = "bills"
  <2>1. CASE sp.i < NumCustomers
    BY <1>0, <1>6, <2>1 DEF RebuildAfter, RebuildState, Reaches
  <2>2. CASE ~(sp.i < NumCustomers) /\ sp.region < NumRegions
    <3>1. t = [sp EXCEPT !.pc = "customers", !.region = sp.region + 1, !.i = 1]
      BY <1>6, <2>2 DEF RebuildAfter
    <3>2. sp.region + 1 \in 1..NumRegions /\ "customers" \in RebuildPc
      BY <1>0, <2>2 DEF RebuildPc
    <3>3. Reaches(sp, t, "customers", sp.region + 1, 1)
      BY <1>0, <3>1, <3>2, JumpReaches
    <3> QED
      BY <1>6, <2>2, <3>3
  <2>3. CASE ~(sp.i < NumCustomers) /\ ~(sp.region < NumRegions)
    <3>1. t = [sp EXCEPT !.pc = "done", !.region = 1, !.i = 1]
      BY <1>6, <2>3 DEF RebuildAfter
    <3>2. 1 \in 1..NumRegions /\ "done" \in RebuildPc
      BY <1>0 DEF RebuildPc
    <3>3. Reaches(sp, t, "done", 1, 1)
      BY <1>0, <3>1, <3>2, JumpReaches
    <3> QED
      BY <1>6, <2>3, <3>3
  <2> QED
    BY <1>6, <2>1, <2>2, <2>3
<1>7. CASE sp.pc \notin {"deleteCustomers", "resetCustomers", "deleteBills", "resetBills",
                         "customers", "bills"}
  BY <1>7
<1> QED
  BY <1>1, <1>2, <1>3, <1>4, <1>5, <1>6, <1>7

-----------------------------------------------------------------------------
(* Every step keeps the progress of an undisturbed run.                    *)

\* Nothing is said of a run before its first statement or after it was killed.
LEMMA ClearProgress ==
    ASSUME RebuildInv, Progress, RebuildClear
    PROVE  Progress'
<1>1. sp' = RebuildAfter(sp)
  BY DEF RebuildClear
<1>2. CASE sp.pc = "deleteCustomers"
  <2>1. Reaches(sp, sp', "resetCustomers", sp.region, sp.i) /\ customers' = {}
    BY <1>1, <1>2, RebuildAfterReaches DEF RebuildClear, DeleteAllCustomers
  <2> QED
    BY <1>2, <2>1 DEF Progress, Reaches
<1>3. CASE sp.pc = "resetCustomers"
  <2>1. /\ Reaches(sp, sp', "deleteBills", sp.region, sp.i)
        /\ custSeq' = 0 /\ customers' = customers
    BY <1>1, <1>3, RebuildAfterReaches DEF RebuildClear, ResetCustomerSequence
  <2> QED
    BY <1>3, <2>1 DEF Progress, Reaches
<1>4. CASE sp.pc = "deleteBills"
  <2>1. /\ Reaches(sp, sp', "resetBills", sp.region, sp.i)
        /\ bills' = {} /\ customers' = customers /\ custSeq' = custSeq
    BY <1>1, <1>4, RebuildAfterReaches DEF RebuildClear, DeleteAllBills, customerVars
  <2> QED
    BY <1>4, <2>1 DEF Progress, Reaches
<1>5. CASE sp.pc = "resetBills"
  <2>1. /\ Reaches(sp, sp', "customers", 1, 1)
        /\ billSeq' = 0 /\ bills' = {} /\ customers' = {} /\ custSeq' = 0
    <3>1. /\ Reaches(sp, sp', "customers", sp.region, sp.i)
          /\ billSeq' = 0 /\ bills' = bills /\ customers' = customers /\ custSeq' = custSeq
      BY <1>1, <1>5, RebuildAfterReaches DEF RebuildClear, ResetBillSequence, customerVars
    <3> QED
      BY <1>5, <3>1 DEF Progress
  <2>2. /\ NumCustomers \in Nat /\ PerRegion \in Nat \ {0}
        /\ (1 - 1) * PerRegion + (1 - 1) = 0 /\ (1 - 1) * NumCustomers + (1 - 1) = 0
    BY SeedingAssumption
  <2>3. HasCustomers((1 - 1) * PerRegion + (1 - 1))'
    <3>1. 1..0 = {}
      OBVIOUS
    <3> QED
      BY <2>1, <2>2, <3>1 DEF HasCustomers
  <2>4. HasBills((1 - 1) * NumCustomers + (1 - 1))'
    <3>1. 1..0 = {} /\ IsFiniteSet({})
      BY FS_EmptySet
    <3> QED
      BY <2>1, <2>2, <3>1 DEF HasBills, Ids
  <2>5. PassReached(1, 1)'
    <3>1. \A c : BillsOf(c)' = {}
      BY <2>1 DEF BillsOf
    <3>2. \A c \in 1..NumCustomers : ~(c < 1)
      BY <2>2
    <3>3. \A c \in 1..NumCustomers : Cardinality(BillsOf(c)') = 0
      BY <3>1, FS_EmptySet
    <3> QED
      BY <3>2, <3>3 DEF PassReached
  <2>6. 1 \in 1..PerRegion
    BY <2>2
  <2> QED
    BY <2>1, <2>3, <2>4, <2>5, <2>6 DEF Progress, Reaches, Written
<1> QED
  BY <1>2, <1>3, <1>4, <1>5 DEF RebuildClear

LEMMA CustomerProgress ==
    ASSUME RebuildInv, Progress, RebuildCustomer
    PROVE  Progress'
<1>p. PICK r, i, n : r = sp.region /\ i = sp.i /\ n = (r - 1) * PerRegion + (i - 1)
  OBVIOUS
<1>0. /\ NumRegions \in Nat /\ PerRegion \in Nat \ {0} /\ NumCustomers \in Nat \ {0}
      /\ r \in 1..NumRegions
  BY <1>p, SeedingAssumption, EnergyDBAssumption DEF RebuildInv
<1>1. /\ sp.pc = "customers" /\ sp' = RebuildAfter(sp) /\ InsertCustomer(r)
      /\ i \in 1..PerRegion /\ HasCustomers(n) /\ Written(r, 1)
  BY <1>p DEF RebuildCustomer, Progress
<1>2. n \in Nat /\ n < MaxRowid /\ RegionOf(n + 1) = r
  BY <1>p, <1>0, <1>1, RegionOfPass
<1>3. HasCustomers(n + 1)' /\ UNCHANGED billVars
  BY <1>1, <1>2, NextCustomer
<1>4. Written(r, 1)'
  BY <1>1, <1>3 DEF Written, HasBills, PassReached, BillsOf, billVars
<1>5. CASE i < PerRegion
  <2>1. Reaches(sp, sp', "customers", r, i + 1)
    BY <1>p, <1>1, <1>5, RebuildAfterReaches
  <2>2. n + 1 = (r - 1) * PerRegion + (i + 1 - 1) /\ i + 1 \in 1..PerRegion
    BY <1>p, <1>0, <1>1, <1>5
  <2>3. HasCustomers((r - 1) * PerRegion + (i + 1 - 1))'
    BY <1>3, <2>2
  <2> QED
    BY <1>0, <1>1, <1>4, <2>1, <2>2, <2>3 DEF Progress, Reaches, HasCustomers
<1>6. CASE ~(i < PerRegion)
  <2>1. Reaches(sp, sp', "bills", r, 1)
    BY <1>p, <1>1, <1>6, RebuildAfterReaches
  <2>2. n + 1 = r * PerRegion
    BY <1>p, <1>0, <1>1, <1>6, ProductNext
  <2>3. HasCustomers(r * PerRegion)'
    BY <1>3, <2>2
  <2>4. 1 \in 1..NumCustomers
    BY <1>0
  <2> QED
    BY <1>4, <2>1, <2>3, <2>4 DEF Progress, Reaches
<1> QED
  BY <1>5, <1>6

LEMMA BillProgress ==
    ASSUME RoomForBills, RebuildInv, Progress, RebuildBill
    PROVE  Progress'
<1>p. PICK r, i, n : r = sp.region /\ i = sp.i /\ n = (r - 1) * NumCustomers + (i - 1)
  OBVIOUS
<1>0. /\ NumRegions \in Nat /\ PerRegion \in Nat \ {0} /\ NumCustomers \in Nat \ {0}
      /\ NumCustomers = NumRegions * PerRegion
      /\ r \in 1..NumRegions
  BY <1>p, SeedingAssumption, EnergyDBAssumption DEF RebuildInv
<1>1. /\ sp.pc = "bills" /\ sp' = RebuildAfter(sp)
      /\ i \in 1..NumCustomers /\ HasCustomers(r * PerRegion)
      /\ HasBills(n) /\ PassReached(r, i)
  BY <1>p DEF RebuildBill, Progress, Written
<1>2. n \in Nat /\ n < MaxRowid
  BY <1>p, <1>0, <1>1, BillsFit
<1>3. PICK a \in Amounts, due \in Nat, paid \in Nat, s \in Statuses :
         InsertBill(i, a, due, paid, s)
  BY <1>p, RebuildBillWrites
<1>4. /\ HasBills(n + 1)'
      /\ UNCHANGED customerVars
      /\ \E b : b \notin bills /\ b.cust = i /\ bills' = bills \cup {b}
  BY <1>1, <1>2, <1>3, NextBill
<1>5. HasCustomers(r * PerRegion)'
  BY <1>1, <1>4 DEF HasCustomers, customerVars
<1>6. PassReached(r, i + 1)'
  <2>1. IsFiniteSet(bills) /\ r \in Nat \ {0}
    BY <1>0, <1>1 DEF HasBills
  <2> QED
    BY <1>1, <1>4, <2>1, PassGoesOn
<1>7. Written(r, i + 1)'
  <2>1. n + 1 = (r - 1) * NumCustomers + (i + 1 - 1)
    BY <1>p, <1>0, <1>1
  <2>2. HasBills((r - 1) * NumCustomers + (i + 1 - 1))'
    BY <1>4, <2>1 DEF HasBills
  <2> QED
    BY <1>0, <1>1, <1>6, <2>2 DEF Written, HasBills, PassReached, BillsOf
<1>8. CASE i < NumCustomers
  <2>1. Reaches(sp, sp', "bills", r, i + 1)
    BY <1>p, <1>1, <1>8, RebuildAfterReaches
  <2>2. i + 1 \in 1..NumCustomers
    BY <1>0, <1>1, <1>8
  <2> QED
    BY <1>5, <1>7, <2>1, <2>2 DEF Progress, Reaches
<1>9. CASE ~(i < NumCustomers)
  <2>1. i = NumCustomers /\ Written(r, NumCustomers + 1)'
    BY <1>0, <1>1, <1>7, <1>9
  <2>2. CASE r < NumRegions
    <3>1. Reaches(sp, sp', "customers", r + 1, 1)
      BY <1>p, <1>1, <1>9, <2>2, RebuildAfterReaches
    <3>2. Written(r + 1, 1)'
      BY <1>0, <2>1, PassEnds
    <3>3. HasCustomers((r + 1 - 1) * PerRegion + (1 - 1))' /\ 1 \in 1..PerRegion
      <4>1. (r + 1 - 1) * PerRegion + (1 - 1) = r * PerRegion
        BY <1>0
      <4> QED
        BY <1>0, <1>5, <4>1
    <3> QED
      BY <1>0, <3>1, <3>2, <3>3 DEF Progress, Reaches, HasCustomers
  <2>3. CASE ~(r < NumRegions)
    <3>1. Reaches(sp, sp', "done", 1, 1)
      BY <1>p, <1>1, <1>9, <2>3, RebuildAfterReaches
    <3>2. r = NumRegions
      BY <1>0, <2>3
    <3>3. HasCustomers(NumCustomers)' /\ Written(NumRegions, NumCustomers + 1)'
      BY <1>0, <1>5, <2>1, <3>2
    <3> QED
      BY <3>1, <3>3 DEF Progress, Reaches
  <2> QED
    BY <2>2, <2>3
<1> QED
  BY <1>8, <1>9

LEMMA ProgressStep ==
    ASSUME RoomForBills, RebuildInv, ProgressInv, [FullNext]_fullVars
    PROVE  ProgressInv'
<1> SUFFICES ASSUME Undisturbed' PROVE Progress'
  BY DEF ProgressInv
<1>0. sp \in RebuildState
  BY DEF RebuildInv, RebuildTypeOK, RebuildState
<1>1. CASE OtherProgram
  <2>1. sp' = [sp EXCEPT !.alone = FALSE]
    BY <1>1 DEF OtherProgram
  <2>2. sp'.alone = FALSE
    BY <1>0, <2>1 DEF RebuildState
  <2> QED
    BY <2>2 DEF Undisturbed
<1>2. CASE StartRebuild
  BY <1>2 DEF StartRebuild, Progress
<1>3. CASE RebuildClear \/ RebuildCustomer \/ RebuildBill
  <2>1. sp' = RebuildAfter(sp)
    BY <1>3 DEF RebuildClear, RebuildCustomer, RebuildBill
  <2>2. sp'.alone = sp.alone /\ sp'.fails = sp.fails
    BY <1>3, <2>1, RebuildAfterReaches DEF RebuildClear, RebuildCustomer, RebuildBill, Reaches
  <2>3. Progress
    BY <2>2 DEF Undisturbed, ProgressInv
  <2> QED
    BY <1>3, <2>3, ClearProgress, CustomerProgress, BillProgress
<1>4. CASE RebuildStatementFails
  <2>1. PICK t : t = RebuildAfter(sp)
    OBVIOUS
  <2>2. RebuildRunning /\ sp' = [t EXCEPT !.fails = t.fails + 1]
    BY <1>4, <2>1 DEF RebuildStatementFails
  <2>3. t \in RebuildState
    BY <2>1, <2>2, RebuildAfterStep
  <2>4. sp'.fails # 0
    BY <2>2, <2>3 DEF RebuildState
  <2> QED
    BY <2>4 DEF Undisturbed
<1>5. CASE RebuildKilled
  <2>1. sp' = [sp EXCEPT !.pc = "idle", !.region = 1, !.i = 1]
    BY <1>5 DEF RebuildKilled
  <2>2. 1 \in 1..NumRegions /\ "idle" \in RebuildPc
    BY SeedingAssumption DEF RebuildPc
  <2>3. PICK t : t = [sp EXCEPT !.pc = "idle", !.region = 1, !.i = 1]
    OBVIOUS
  <2>4. Reaches(sp, t, "idle", 1, 1)
    BY <1>0, <2>2, <2>3, JumpReaches
  <2>5. sp'.pc = "idle"
    BY <2>1, <2>3, <2>4 DEF Reaches
  <2> QED
    BY <2>5 DEF Progress
<1>6. CASE UNCHANGED fullVars
  BY <1>6 DEF fullVars, vars, seedVars, dbVars, ProgressInv, Undisturbed, Progress, HasCustomers,
              HasBills, Written, PassReached, BillsOf
<1> QED
  BY <1>1, <1>2, <1>3, <1>4, <1>5, <1>6 DEF FullNext, Rebuild, RebuildNext

LEMMA ProgressHolds ==
    ASSUME RoomForBills
    PROVE  FullSpec => []ProgressInv
<1>1. FullInit => ProgressInv
  BY DEF FullInit, RebuildInit, ProgressInv, Progress
<1>2. FullInv /\ ProgressInv /\ [FullNext]_fullVars => ProgressInv'
  BY ProgressStep DEF FullInv
<1> QED
  BY <1>1, <1>2, FullInvHolds, PTL DEF FullSpec

\* A run of seed_paid_bills that no other program disturbs and none of whose
\* statements is refused leaves each customer in its region and with one bill
\* per pass of the region loop, numbered from 1, whatever the tables and
\* sqlite_sequence held before, as long as the bills do not outnumber the rowids.
THEOREM UndisturbedRebuildIsComplete ==
    ASSUME RoomForBills
    PROVE  FullSpec => []RebuildComplete
<1>1. ProgressInv => RebuildComplete
  <2> SUFFICES ASSUME ProgressInv, sp.pc = "done", sp.fails = 0, sp.alone
               PROVE  HoldsDataSet
    BY DEF RebuildComplete
  <2>1. HasCustomers(NumCustomers) /\ Written(NumRegions, NumCustomers + 1)
    BY DEF ProgressInv, Undisturbed, Progress
  <2>2. NumRegions \in Nat \ {0} /\ NumCustomers \in Nat
    BY SeedingAssumption
  <2>3. (NumRegions - 1) * NumCustomers + (NumCustomers + 1 - 1) = NumRegions * NumCustomers
    BY <2>2, ProductNext
  <2>4. Ids(bills) = 1..(NumRegions * NumCustomers)
    BY <2>1, <2>2, <2>3 DEF Written, HasBills
  <2>5. \A i \in 1..NumCustomers : Cardinality(BillsOf(i)) = NumRegions
    BY <2>1, <2>2 DEF Written, PassReached
  <2> QED
    <3>1. customers = {[id |-> i, region |-> RegionOf(i)] : i \in 1..NumCustomers}
      BY <2>1 DEF HasCustomers
    <3>2. \A i \in 1..NumCustomers : Cardinality({b \in bills : b.cust = i}) = NumRegions
      BY <2>5 DEF BillsOf
    <3> QED
      BY <2>4, <3>1, <3>2, Zenon DEF HoldsDataSet
<1> QED
  BY <1>1, ProgressHolds, PTL

-----------------------------------------------------------------------------
(* Why the reports by region add up.                                       *)

\* A bill is in the group of one region, or in none and then it is unassigned.
GroupsSplit(bs) ==
    /\ \A r, q \in regions : r # q => BillsOfRegion(bs, r) \cap BillsOfRegion(bs, q) = {}
    /\ (UNION {BillsOfRegion(bs, r) : r \in regions}) \cup Unassigned(bs) = bs
    /\ \A r \in regions : BillsOfRegion(bs, r) \cap Unassigned(bs) = {}

\* Two customers never share an id, so a bill joins with one customer at most.
LEMMA KeysSplit ==
    ASSUME CustomerIdsUnique, NEW bs
    PROVE  GroupsSplit(bs)
<1>1. ASSUME NEW r \in regions, NEW q \in regions, NEW b \in bs,
             b \in BillsOfRegion(bs, r), b \in BillsOfRegion(bs, q)
      PROVE  r = q
  <2>1. PICK c \in customers : c.id = b.cust /\ c.region = r
    BY <1>1 DEF BillsOfRegion
  <2>2. PICK d \in customers : d.id = b.cust /\ d.region = q
    BY <1>1 DEF BillsOfRegion
  <2>3. c = d
    BY <2>1, <2>2 DEF CustomerIdsUnique
  <2> QED
    BY <2>1, <2>2, <2>3
<1>2. \A r, q \in regions : r # q => BillsOfRegion(bs, r) \cap BillsOfRegion(bs, q) = {}
  <2>1. \A r : BillsOfRegion(bs, r) \subseteq bs
    BY DEF BillsOfRegion
  <2> QED
    BY <1>1, <2>1
<1>3. ASSUME NEW b \in bs, b \notin Unassigned(bs)
      PROVE  \E r \in regions : b \in BillsOfRegion(bs, r)
  <2>1. PICK c \in customers : c.id = b.cust /\ c.region \in regions
    BY <1>3 DEF Unassigned
  <2> QED
    BY <2>1 DEF BillsOfRegion
<1>4. /\ \A r : BillsOfRegion(bs, r) \subseteq bs
      /\ Unassigned(bs) \subseteq bs
  BY DEF BillsOfRegion, Unassigned
<1>5. \A r \in regions : BillsOfRegion(bs, r) \cap Unassigned(bs) = {}
  BY DEF BillsOfRegion, Unassigned
<1>6. (UNION {BillsOfRegion(bs, r) : r \in regions}) \cup Unassigned(bs) = bs
  <2> DEFINE U == UNION {BillsOfRegion(bs, r) : r \in regions}
  <2>1. ASSUME NEW b \in U PROVE \E r \in regions : b \in BillsOfRegion(bs, r)
    OBVIOUS
  <2>2. ASSUME NEW r \in regions, NEW b \in BillsOfRegion(bs, r) PROVE b \in U
    OBVIOUS
  <2> HIDE DEF U
  <2> QED
    BY <1>3, <1>4, <2>1, <2>2
<1> QED
  BY <1>2, <1>5, <1>6 DEF GroupsSplit

\* Whatever the programs do to customers and bills, the overdue report by
\* region counts an overdue bill in one region at most, and loses none but
\* those without a customer in a known region.
THEOREM OverdueGroupsSplit == FullSpec => []GroupsSplit(WithStatus("Overdue"))
<1>1. FullInv => GroupsSplit(WithStatus("Overdue"))
  BY KeysSplit DEF FullInv, KeysInv
<1> QED
  BY <1>1, FullInvHolds, PTL

\* The same of the paid bills behind the revenue report of any period.
THEOREM RevenueGroupsSplit ==
    ASSUME NEW CONSTANT day
    PROVE  FullSpec => []GroupsSplit({b \in WithStatus("Paid") : b.paid >= day})
<1>1. FullInv => GroupsSplit({b \in WithStatus("Paid") : b.paid >= day})
  BY KeysSplit DEF FullInv, KeysInv
<1> QED
  BY <1>1, FullInvHolds, PTL

-----------------------------------------------------------------------------
(* What is true of every region and bill.                                  *)

\* The inner loop counter of seed_paid_bills.
CounterOK ==
    /\ sp.pc \in {"deleteCustomers", "resetCustomers", "deleteBills", "resetBills"} => sp.i = 1
    /\ sp.pc = "customers" => sp.i \in 1..PerRegion
    /\ sp.pc = "bills" => sp.i \in 1..NumCustomers

\* Both programs write bills for the customers 1..NumCustomers, a paid one with
\* the day it was paid on.
BillOK(b) == b.cust \in 1..NumCustomers /\ (b.status = "Paid" => b.paid \in Nat \ {NoDate})

BillsInv == CounterOK /\ IsFiniteSet(regions) /\ \A b \in bills : BillOK(b)

LEMMA CounterStep ==
    ASSUME RebuildInv, CounterOK, RebuildNext
    PROVE  CounterOK'
<1>0. NumRegions \in Nat \ {0} /\ PerRegion \in Nat \ {0} /\ NumCustomers \in Nat \ {0} /\ sp.i \in Nat
  BY SeedingAssumption, EnergyDBAssumption DEF RebuildInv, RebuildTypeOK
<1>1. CASE StartRebuild
  BY <1>1 DEF StartRebuild, CounterOK
<1>2. CASE RebuildKilled
  <2>1. sp'.pc = "idle"
    BY <1>2 DEF RebuildKilled, RebuildInv, RebuildTypeOK, RebuildPc
  <2> QED
    BY <2>1 DEF CounterOK
<1>3. CASE RebuildClear \/ RebuildCustomer \/ RebuildBill \/ RebuildStatementFails
  <2>1. PICK t : t = RebuildAfter(sp)
    OBVIOUS
  <2>2. RebuildRunning /\ sp.pc \in RebuildPc
    BY <1>3 DEF RebuildClear, RebuildCustomer, RebuildBill, RebuildStatementFails, RebuildRunning,
                RebuildInv, RebuildTypeOK
  <2>3. t \in RebuildState
    BY <2>1, <2>2, RebuildAfterStep
  <2>4. sp'.pc = t.pc /\ sp'.i = t.i
    BY <1>3, <2>1, <2>3 DEF RebuildClear, RebuildCustomer, RebuildBill, RebuildStatementFails, RebuildState
  <2>5. CASE sp.pc \in {"deleteCustomers", "resetCustomers", "deleteBills", "resetBills"}
    <3>1. t.i = 1 /\ t.pc \in {"resetCustomers", "deleteBills", "resetBills", "customers"}
      BY <2>1, <2>5, RebuildAfterReaches DEF Reaches, CounterOK
    <3> QED
      BY <1>0, <2>4, <3>1 DEF CounterOK
  <2>6. CASE sp.pc = "customers"
    <3>1. \/ t.pc = "customers" /\ t.i = sp.i + 1 /\ sp.i < PerRegion
          \/ t.pc = "bills" /\ t.i = 1
      BY <2>1, <2>6, RebuildAfterReaches DEF Reaches
    <3> QED
      BY <1>0, <2>4, <3>1 DEF CounterOK
  <2>7. CASE sp.pc = "bills"
    <3>1. \/ t.pc = "bills" /\ t.i = sp.i + 1 /\ sp.i < NumCustomers
          \/ t.pc = "customers" /\ t.i = 1
          \/ t.pc = "done"
      BY <2>1, <2>7, RebuildAfterReaches DEF Reaches
    <3> QED
      BY <1>0, <2>4, <3>1 DEF CounterOK
  <2> QED
    BY <2>2, <2>5, <2>6, <2>7 DEF RebuildRunning, RebuildPc
<1> QED
  BY <1>1, <1>2, <1>3 DEF RebuildNext

LEMMA RegionsGrow ==
    ASSUME [FullNext]_fullVars
    PROVE  regions' = regions \/ \E r : regions' = regions \cup {r}
<1>1. CASE SeedNext
  BY <1>1 DEF SeedNext, SeedStep, StartSeed, SeedRegion, SeedCustomer, SeedType, SeedUsage, SeedBill,
              SeedAtRisk, SeedOverdue, SeedStatementFails, SeedKilled, InsertRegion, InsertCustomer,
              InsertType, InsertUsage, InsertBill, InsertAtRisk, MarkOverdue, dbVars
<1>2. CASE AdminNext
  BY <1>2 DEF AdminNext, PostCustomer, GetDeleteCustomer, MenuAddCustomer, MenuDeleteCustomer,
              MenuUpdateCustomer, InsertCustomer, DeleteCustomer, UpdateCustomerRegion
<1>3. CASE RebuildNext
  BY <1>3 DEF RebuildNext, StartRebuild, RebuildClear, RebuildCustomer, RebuildBill,
              RebuildStatementFails, RebuildKilled, DeleteAllCustomers, ResetCustomerSequence,
              DeleteAllBills, ResetBillSequence, InsertCustomer, InsertBill, dbVars
<1>4. CASE UNCHANGED fullVars
  BY <1>4 DEF fullVars, vars, seedVars, dbVars
<1> QED
  BY <1>1, <1>2, <1>3, <1>4 DEF FullNext, OtherProgram, Next, Rebuild

\* A new bill.
LEMMA InsertBillOK ==
    ASSUME NEW c \in 1..NumCustomers, NEW a, NEW due, NEW paid, NEW s,
           s = "Paid" => paid \in Nat \ {NoDate},
           InsertBill(c, a, due, paid, s), NEW b \in bills'
    PROVE  b \in bills \/ BillOK(b)
<1>1. CASE bills' = bills
  BY <1>1
<1>2. CASE bills' # bills
  <2>1. PICK n \in Rowids : bills' = bills \cup {[id |-> n, cust |-> c, amount |-> a, due |-> due,
                                                  paid |-> paid, status |-> s]}
    BY <1>2 DEF InsertBill, billVars
  <2> QED
    BY <2>1 DEF BillOK
<1> QED
  BY <1>1, <1>2

LEMMA BillsStayOK ==
    ASSUME FullInv, BillsInv, [FullNext]_fullVars, NEW b \in bills'
    PROVE  BillOK(b)
<1>0. /\ SeedTypeOK /\ LoopOK /\ DBTypeOK /\ CounterOK /\ \A d \in bills : BillOK(d)
      /\ PaidDates \subseteq Nat \ {NoDate} /\ 159 \in Nat \ {NoDate}
  BY EnergyDBAssumption DEF FullInv, TypeInv, TypeOK, BillsInv, NoDate
<1>1. CASE SeedBill
  <2>1. sd.i \in 1..NumCustomers
    BY <1>0, <1>1 DEF SeedBill, LoopOK
  <2>2. PICK amount \in Amounts :
          \/ InsertBill(sd.i, amount, 32, NoDate, "Unpaid")
          \/ InsertBill(sd.i, amount, 161, 159, "Paid")
          \/ InsertBill(sd.i, amount, 197, NoDate, "Unpaid")
    BY <1>1 DEF SeedBill
  <2> QED
    BY <1>0, <2>1, <2>2, InsertBillOK
<1>2. CASE SeedOverdue
  <2>1. \/ b \in bills
        \/ \E d \in bills : b = [d EXCEPT !.status = "Overdue"]
    BY <1>2 DEF SeedOverdue, MarkOverdue
  <2>2. \A d \in bills : d \in BillRow /\ BillOK(d)
    BY <1>0 DEF DBTypeOK
  <2>3. CASE b \in bills
    BY <2>2, <2>3
  <2>4. CASE \E d \in bills : b = [d EXCEPT !.status = "Overdue"]
    BY <2>2, <2>4 DEF BillRow, BillOK
  <2> QED
    BY <2>1, <2>3, <2>4
<1>3. CASE RebuildBill
  <2>1. sp.i \in 1..NumCustomers
    BY <1>0, <1>3 DEF RebuildBill, CounterOK
  <2>2. PICK amount \in Amounts :
          \/ InsertBill(sp.i, amount, 76, NoDate, "Overdue")
          \/ \E paid \in PaidDates : InsertBill(sp.i, amount, 176, paid, "Paid")
          \/ InsertBill(sp.i, amount, 197, NoDate, "Unpaid")
    BY <1>3 DEF RebuildBill
  <2> QED
    BY <1>0, <2>1, <2>2, InsertBillOK
<1>4. CASE bills' \subseteq bills
  BY <1>0, <1>4
<1>5. \/ bills' \subseteq bills \/ SeedBill \/ SeedOverdue \/ RebuildBill
  <2>1. CASE SeedNext
    BY <2>1 DEF SeedNext, SeedStep, StartSeed, SeedRegion, SeedCustomer, SeedType, SeedUsage,
                SeedAtRisk, SeedStatementFails, SeedKilled, InsertRegion, InsertCustomer,
                InsertType, InsertUsage, InsertAtRisk, dbVars, billVars
  <2>2. CASE AdminNext
    BY <2>2 DEF AdminNext, PostCustomer, GetDeleteCustomer, MenuAddCustomer, MenuDeleteCustomer,
                MenuUpdateCustomer, InsertCustomer, DeleteCustomer, UpdateCustomerRegion, billVars
  <2>3. CASE RebuildNext
    BY <2>3 DEF RebuildNext, StartRebuild, RebuildClear, RebuildCustomer,
                RebuildStatementFails, RebuildKilled, DeleteAllCustomers, ResetCustomerSequence,
                DeleteAllBills, ResetBillSequence, InsertCustomer, dbVars, billVars
  <2>4. CASE UNCHANGED fullVars
    BY <2>4 DEF fullVars, vars, seedVars, dbVars
  <2> QED
    BY <2>1, <2>2, <2>3, <2>4 DEF FullNext, OtherProgram, Next, Rebuild
<1> QED
  BY <1>1, <1>2, <1>3, <1>4, <1>5

LEMMA BillsInvHolds == FullSpec => []BillsInv
<1>1. FullInit => BillsInv
  BY FS_EmptySet DEF FullInit, Init, DBInit, RebuildInit, BillsInv, CounterOK
<1>2. FullInv /\ BillsInv /\ [FullNext]_fullVars => BillsInv'
  <2> SUFFICES ASSUME FullInv, BillsInv, [FullNext]_fullVars PROVE BillsInv'
    OBVIOUS
  <2>1. RebuildInv /\ sp \in RebuildState /\ CounterOK /\ IsFiniteSet(regions)
    BY DEF FullInv, RebuildInv, RebuildTypeOK, RebuildState, BillsInv
  <2>2. CounterOK'
    <3>1. CASE RebuildNext
      BY <2>1, <3>1, CounterStep
    <3>2. CASE sp' = sp \/ sp' = [sp EXCEPT !.alone = FALSE]
      <4>1. sp'.pc = sp.pc /\ sp'.i = sp.i
        BY <2>1, <3>2 DEF RebuildState
      <4> QED
        BY <2>1, <4>1 DEF CounterOK
    <3> QED
      BY <3>1, <3>2 DEF FullNext, OtherProgram, Rebuild, fullVars
  <2>3. IsFiniteSet(regions')
    <3>1. CASE regions' = regions
      BY <2>1, <3>1
    <3>2. CASE \E r : regions' = regions \cup {r}
      BY <2>1, <3>2, FS_AddElement
    <3> QED
      BY <3>1, <3>2, RegionsGrow
  <2>4. \A b \in bills' : BillOK(b)
    BY BillsStayOK
  <2> QED
    BY <2>2, <2>3, <2>4 DEF BillsInv, BillOK
<1> QED
  BY <1>1, <1>2, FullInvHolds, PTL DEF FullSpec

-----------------------------------------------------------------------------
(* The totals of the reports.                                              *)

\* Bills have different rowids, so there are finitely many of them.
LEMMA BillsFinite ==
    ASSUME FullInv
    PROVE  IsFiniteSet(bills)
<1>1. DBTypeOK /\ BillIdsUnique /\ MaxRowid \in Nat
  BY EnergyDBAssumption DEF FullInv, TypeInv, TypeOK, KeysInv
<1>2. \A b \in bills : b.id \in 1..MaxRowid
  BY <1>1 DEF DBTypeOK, BillRow, Rowids
<1>3. IsFiniteSet(1..MaxRowid)
  BY <1>1, FS_Interval
<1>4. PICK f : f = [b \in bills |-> b.id]
  OBVIOUS
<1>5. f \in Injection(bills, 1..MaxRowid)
  BY <1>1, <1>2, <1>4 DEF Injection, IsInjective, BillIdsUnique
<1> QED
  BY <1>3, <1>5, FS_Injection

\* The amounts of some bills are a sum over all of them.
LEMMA TotalIsSum ==
    ASSUME FullInv, NEW amount, amount = [b \in bills |-> b.amount], NEW bs \in SUBSET bills
    PROVE  /\ IsFiniteSet(bs)
           /\ Total(bs) = SumFunctionOnSet(amount, bs)
           /\ \A b \in bs : amount[b] \in Nat
<1>1. IsFiniteSet(bs)
  BY BillsFinite, FS_Subset
<1>2. \A b \in bs : b.amount \in Amounts
  BY DEF FullInv, TypeInv, TypeOK, DBTypeOK, BillRow
<1>3. \A b \in bs : amount[b] = b.amount /\ amount[b] \in Nat
  BY <1>2, EnergyDBAssumption
<1>4. PICK own : own = [b \in bs |-> b.amount]
  OBVIOUS
<1>5. DOMAIN own = bs /\ \A b \in bs : own[b] = amount[b]
  BY <1>3, <1>4
<1>6. Total(bs) = SumFunctionOnSet(own, bs)
  BY <1>4, <1>5 DEF Total, SumFunction
<1> QED
  BY <1>1, <1>3, <1>5, <1>6, SumsAgree

\* A report by region adds up to all bills it is about but the unassigned ones.
LEMMA RegionReportAddsUp ==
    ASSUME FullInv, BillsInv, NEW bs \in SUBSET bills
    PROVE  /\ GrandTotal(ByRegion(bs)) \in Nat
           /\ GrandTotal(ByRegion(bs)) + Total(Unassigned(bs)) = Total(bs)
<1>1. PICK amount : amount = [b \in bills |-> b.amount]
  OBVIOUS
<1>2. PICK assigned, lost : /\ assigned = UNION {BillsOfRegion(bs, r) : r \in regions}
                            /\ lost = Unassigned(bs)
  OBVIOUS
<1>3. PICK group : group = [r \in regions |-> BillsOfRegion(bs, r)]
  OBVIOUS
<1>4. PICK row : row = [r \in regions |-> [region |-> r, total |-> Total(BillsOfRegion(bs, r))]]
  OBVIOUS
<1>5. PICK report : report = ByRegion(bs)
  OBVIOUS
<1>6. PICK total : total = [x \in report |-> x.total]
  OBVIOUS
<1>7. GroupsSplit(bs) /\ IsFiniteSet(regions)
  BY KeysSplit DEF FullInv, KeysInv, BillsInv
<1>8. \A r \in regions : BillsOfRegion(bs, r) \in SUBSET bills
  BY DEF BillsOfRegion
<1>9. Splits(assigned, group, regions)
  <2>1. \A r \in regions : IsFiniteSet(group[r])
    BY <1>1, <1>3, <1>8, TotalIsSum
  <2>2. \A q, r \in regions : q # r => group[q] \cap group[r] = {}
    BY <1>3, <1>7 DEF GroupsSplit
  <2>3. assigned = UNION {group[r] : r \in regions}
    BY <1>2, <1>3
  <2> QED
    BY <2>1, <2>2, <2>3 DEF Splits
<1>10. Lists(report, row, {r \in regions : group[r] # {}})
  <2>1. \A x, y \in regions : row[x] = row[y] => x = y
    BY <1>4
  <2>2. report = {row[r] : r \in {q \in regions : group[q] # {}}}
    BY <1>3, <1>4, <1>5 DEF ByRegion
  <2> QED
    BY <2>1, <2>2 DEF Lists
<1>11. \A r \in regions : group[r] # {} => total[row[r]] = SumFunctionOnSet(amount, group[r])
  <2> SUFFICES ASSUME NEW r \in regions, group[r] # {}
               PROVE  total[row[r]] = SumFunctionOnSet(amount, group[r])
    OBVIOUS
  <2>1. row[r] \in report /\ row[r].total = Total(BillsOfRegion(bs, r))
    BY <1>4, <1>10 DEF Lists
  <2>2. Total(BillsOfRegion(bs, r)) = SumFunctionOnSet(amount, group[r])
    BY <1>1, <1>3, <1>8, TotalIsSum
  <2> QED
    BY <1>6, <2>1, <2>2
<1>12. assigned \in SUBSET bills /\ lost \in SUBSET bills /\ assigned \cup lost = bs
  BY <1>2, <1>7 DEF GroupsSplit
<1>13. assigned \cap lost = {}
  BY <1>2, <1>7 DEF GroupsSplit
<1>14. /\ IsFiniteSet(assigned) /\ IsFiniteSet(lost)
       /\ Total(lost) = SumFunctionOnSet(amount, lost)
       /\ \A b \in assigned : amount[b] \in Nat
  BY <1>1, <1>12, TotalIsSum
<1>15. Total(bs) = SumFunctionOnSet(amount, bs) /\ \A b \in bs : amount[b] \in Nat
  BY <1>1, TotalIsSum
<1>16. SumFunctionOnSet(total, report) = SumFunctionOnSet(amount, assigned)
  BY <1>7, <1>9, <1>10, <1>11, <1>14, SumOfReport
<1>17. GrandTotal(report) = SumFunctionOnSet(total, report)
  BY <1>6 DEF GrandTotal, SumFunction
<1>18. SumFunctionOnSet(amount, bs) = SumFunctionOnSet(amount, assigned) + SumFunctionOnSet(amount, lost)
  BY <1>12, <1>13, <1>14, <1>15, SumOfUnion
<1>19. SumFunctionOnSet(amount, assigned) \in Nat
  BY <1>14, SumIsNat
<1> QED
  BY <1>2, <1>5, <1>14, <1>15, <1>16, <1>17, <1>18, <1>19

\* While customers move, come and go and ids are used again, the bars of the
\* overdue chart and the bills without a customer in a known region add up to the
\* overdue total of the database.
THEOREM OverdueReportsAlwaysAgree == FullSpec => []OverdueReportsAgree
<1>1. FullInv /\ BillsInv => OverdueReportsAgree
  <2>1. WithStatus("Overdue") \in SUBSET bills
    BY DEF WithStatus
  <2> QED
    BY <2>1, RegionReportAddsUp DEF OverdueReportsAgree, OverdueByRegion, OverdueTotal
<1> QED
  BY <1>1, FullInvHolds, BillsInvHolds, PTL

\* A number is in the n-th block of p numbers.
LEMMA QuotientBelow ==
    ASSUME NEW m \in Nat, NEW n \in Nat, NEW p \in Nat \ {0}, m < n * p
    PROVE  m \div p \in 0..(n - 1)
<1>1. PICK q : q = m \div p
  OBVIOUS
<1>2. q \in Nat /\ q * p <= m
  BY <1>1
<1>3. ASSUME n <= q PROVE FALSE
  <2>1. n * p <= q * p
    BY <1>2, <1>3, ProductMonotone
  <2>2. n * p \in Nat /\ q * p \in Nat
    BY <1>2, <1>3, ProductMonotone
  <2> QED
    BY <1>2, <2>1, <2>2
<1> QED
  BY <1>1, <1>2, <1>3

\* Every customer of the data set is in one of the regions.
LEMMA DataSetHasRegions ==
    ASSUME NEW k \in 1..NumCustomers
    PROVE  RegionOf(k) \in 1..NumRegions
<1>1. /\ NumRegions \in Nat \ {0} /\ PerRegion \in Nat \ {0} /\ NumCustomers \in Nat
      /\ NumCustomers = NumRegions * PerRegion
  BY SeedingAssumption, EnergyDBAssumption
<1>2. k - 1 \in Nat /\ k - 1 < NumRegions * PerRegion
  BY <1>1
<1>3. (k - 1) \div PerRegion \in 0..(NumRegions - 1)
  BY <1>1, <1>2, QuotientBelow
<1> QED
  BY <1>1, <1>3 DEF RegionOf

\* A run of seed_paid_bills that nobody disturbs leaves a database in which the
\* revenue report loses no bill: as every customer a bill names is there, in a
\* region that was seeded, the bars add up to everything that was paid.
THEOREM RevenueAddsUp ==
    ASSUME RoomForBills
    PROVE  FullSpec => []RevenueIsComplete
<1>1. FullInv /\ BillsInv /\ ProgressInv => RevenueIsComplete
  <2> SUFFICES ASSUME FullInv, BillsInv, ProgressInv,
                      sp.pc = "done", sp.fails = 0, sp.alone, 1..NumRegions \subseteq regions
               PROVE  GrandTotal(RevenueByRegion("6m")) = Total(WithStatus("Paid"))
    BY DEF RevenueIsComplete
  <2>1. PICK paid : paid = WithStatus("Paid")
    OBVIOUS
  <2>2. paid \in SUBSET bills
    BY <2>1 DEF WithStatus
  <2>3. {b \in paid : b.paid >= 1} = paid
    <3>1. \A b \in paid : b.paid \in Nat \ {0}
      BY <2>1 DEF WithStatus, BillsInv, BillOK, NoDate
    <3> QED
      BY <3>1
  <2>4. RevenueByRegion("6m") = ByRegion(paid)
    BY <2>1, <2>3 DEF RevenueByRegion, Cutoff
  <2>5. Unassigned(paid) = {}
    <3> SUFFICES ASSUME NEW b \in paid PROVE \E c \in customers : c.id = b.cust /\ c.region \in regions
      BY DEF Unassigned
    <3>1. b.cust \in 1..NumCustomers
      BY <2>2 DEF BillsInv, BillOK
    <3>2. customers = {[id |-> k, region |-> RegionOf(k)] : k \in 1..NumCustomers}
      BY DEF ProgressInv, Undisturbed, Progress, HasCustomers
    <3>3. PICK c : c = [id |-> b.cust, region |-> RegionOf(b.cust)]
      OBVIOUS
    <3>4. c \in customers /\ c.id = b.cust /\ c.region = RegionOf(b.cust)
      BY <3>1, <3>2, <3>3
    <3>5. c.region \in regions
      BY <3>1, <3>4, DataSetHasRegions
    <3> QED
      BY <3>4, <3>5
  <2>6. Total({}) = 0
    <3>1. PICK amount : amount = [b \in bills |-> b.amount]
      OBVIOUS
    <3>2. Total({}) = SumFunctionOnSet(amount, {})
      BY <3>1, TotalIsSum
    <3> QED
      BY <3>2, FS_EmptySet, SumTakes
  <2>7. GrandTotal(ByRegion(paid)) \in Nat /\ GrandTotal(ByRegion(paid)) + Total({}) = Total(paid)
    BY <2>2, <2>5, RegionReportAddsUp
  <2> QED
    BY <2>1, <2>4, <2>6, <2>7
<1> QED
  BY <1>1, FullInvHolds, BillsInvHolds, ProgressHolds, PTL

-----------------------------------------------------------------------------
(* What the first run of seed_data leaves in Energy_Usage.                 *)

\* Every usage row of a run has a rowid: 3000 rows and 2^63 - 1 rowids.
RoomForUsage == NumCustomers * NumMonths <= MaxRowid

\* The first run, with every statement so far done.
FirstRun == sd.runs = 1 /\ sd.fails = 0 /\ sd.pc # "idle"

\* Energy_Usage holds n rows, numbered from 1.
HasUsage(n) == IsFiniteSet(usage) /\ Ids(usage) = 1..n /\ usageSeq = n

UsageOf(c) == {u \in usage : u.cust = c}

\* The rows written before the j-th of customer i.
RowsBefore(i, j) == (i - 1) * NumMonths + (j - 1)

\* The customers below i have all their rows, and customer i those before the j-th.
UsageReached(i, j) ==
    \A c \in 1..NumCustomers :
        Cardinality(UsageOf(c)) = IF c < i THEN NumMonths ELSE IF c = i THEN j - 1 ELSE 0

\* How far the run has got, at each of its statements.
UsageProgress ==
    /\ sd.pc \in {"regions", "customers", "types"} => usage = {} /\ usageSeq = 0
    /\ sd.pc = "types" => 1..(sd.i - 1) \subseteq types
    /\ sd.pc = "usage" =>
          /\ 1..NumTypes \subseteq types
          /\ sd.j \in 1..NumMonths
          /\ HasUsage(RowsBefore(sd.i, sd.j)) /\ UsageReached(sd.i, sd.j)
    /\ sd.pc \in {"bills", "atRisk", "overdue", "done"} =>
          /\ 1..NumTypes \subseteq types
          /\ IsFiniteSet(usage) /\ UsageReached(NumCustomers + 1, 1)

UsageInv ==
    /\ sd.runs = 0 => sd.pc = "idle" /\ usage = {} /\ usageSeq = 0
    /\ FirstRun => UsageProgress

\* The next row fits, and ends the rows of a customer or does not.
LEMMA RowsFit ==
    ASSUME RoomForUsage, NEW i \in 1..NumCustomers, NEW j \in 1..NumMonths
    PROVE  /\ RowsBefore(i, j) \in Nat /\ RowsBefore(i, j) < MaxRowid
           /\ RowsBefore(i, j) + 1 = RowsBefore(i, j + 1)
           /\ j = NumMonths => RowsBefore(i, j) + 1 = RowsBefore(i + 1, 1)
<1>1. NumCustomers \in Nat /\ NumMonths \in Nat \ {0} /\ MaxRowid \in Nat
  BY SeedingAssumption, EnergyDBAssumption
<1>2. (i - 1) * NumMonths + NumMonths = i * NumMonths /\ (i - 1) * NumMonths \in Nat
  BY <1>1, ProductNext
<1>3. i * NumMonths <= NumCustomers * NumMonths
  BY <1>1, ProductMonotone
<1>4. RowsBefore(i, j) \in Nat /\ RowsBefore(i, j) < MaxRowid
  BY <1>1, <1>2, <1>3 DEF RoomForUsage, RowsBefore
<1>5. RowsBefore(i, j) + 1 = RowsBefore(i, j + 1)
  BY <1>1, <1>2 DEF RowsBefore
<1>6. i + 1 - 1 = i /\ i * NumMonths \in Nat
  BY <1>1, <1>2
<1>7. ASSUME j = NumMonths PROVE RowsBefore(i, j) + 1 = RowsBefore(i + 1, 1)
  <2>1. (i + 1 - 1) * NumMonths = i * NumMonths
    BY <1>6
  <2> QED
    BY <1>1, <1>2, <1>6, <1>7, <2>1 DEF RowsBefore
<1> QED
  BY <1>4, <1>5, <1>7

LEMMA NextUsage ==
    ASSUME NEW n \in Nat, n < MaxRowid, HasUsage(n), NEW c, NEW k, InsertUsage(c, k)
    PROVE  /\ HasUsage(n + 1)'
           /\ \E u : u \notin usage /\ u.cust = c /\ usage' = usage \cup {u}
<1>1. IsFiniteSet(usage) /\ Ids(usage) = 1..n /\ usageSeq = n
  BY DEF HasUsage
<1>2. PICK m \in Rowids :
        /\ IsNextRowid(m, n, 1..n)
        /\ usage' = usage \cup {[id |-> m, cust |-> c, type |-> k]}
        /\ usageSeq' = m
  BY <1>1, RowidsLeft DEF InsertUsage
<1>3. m = n + 1
  BY <1>2, NextRowidAfter
<1>4. PICK u : u = [id |-> m, cust |-> c, type |-> k]
  OBVIOUS
<1>5. u.id = n + 1 /\ u.cust = c /\ usage' = usage \cup {u}
  BY <1>2, <1>3, <1>4
<1>6. u \notin usage
  <2>1. n + 1 \notin 1..n
    OBVIOUS
  <2> QED
    BY <1>1, <1>5, <2>1 DEF Ids
<1>7. IsFiniteSet(usage')
  BY <1>1, <1>5, FS_AddElement
<1>8. Ids(usage') = Ids(usage) \cup {n + 1}
  BY <1>5 DEF Ids
<1>9. Ids(usage') = 1..(n + 1)
  BY <1>1, <1>8
<1> QED
  BY <1>2, <1>3, <1>5, <1>6, <1>7, <1>9 DEF HasUsage, Ids

\* One more row for customer i.
LEMMA UsageGoesOn ==
    ASSUME NEW i \in 1..NumCustomers, NEW j \in 1..NumMonths, IsFiniteSet(usage), UsageReached(i, j),
           NEW u, u \notin usage, u.cust = i, usage' = usage \cup {u}
    PROVE  /\ UsageReached(i, j + 1)'
           /\ j = NumMonths => UsageReached(i + 1, 1)'
<1>0. NumCustomers \in Nat /\ NumMonths \in Nat \ {0}
  BY SeedingAssumption, EnergyDBAssumption
<1>1. ASSUME NEW c \in 1..NumCustomers
      PROVE  Cardinality(UsageOf(c)') = IF c < i THEN NumMonths ELSE IF c = i THEN j ELSE 0
  <2>1. Cardinality(UsageOf(c)) = IF c < i THEN NumMonths ELSE IF c = i THEN j - 1 ELSE 0
    BY DEF UsageReached
  <2>2. CASE c = i
    <3>1. UsageOf(c)' = UsageOf(c) \cup {u} /\ u \notin UsageOf(c)
      BY <2>2 DEF UsageOf
    <3>2. IsFiniteSet(UsageOf(c))
      BY FS_Subset DEF UsageOf
    <3>3. Cardinality(UsageOf(c)') = Cardinality(UsageOf(c)) + 1
      BY <3>1, <3>2, FS_AddElement
    <3> QED
      BY <1>0, <2>1, <2>2, <3>3
  <2>3. CASE c # i
    <3>1. UsageOf(c)' = UsageOf(c)
      BY <2>3 DEF UsageOf
    <3> QED
      BY <2>1, <2>3, <3>1
  <2> QED
    BY <2>2, <2>3
<1>2. UsageReached(i, j + 1)'
  <2>1. j + 1 - 1 = j
    BY <1>0
  <2> QED
    BY <1>1, <2>1 DEF UsageReached
<1>3. ASSUME j = NumMonths PROVE UsageReached(i + 1, 1)'
  <2>1. \A c \in 1..NumCustomers :
           (IF c < i THEN NumMonths ELSE IF c = i THEN j ELSE 0) =
           (IF c < i + 1 THEN NumMonths ELSE IF c = i + 1 THEN 1 - 1 ELSE 0)
    BY <1>0, <1>3
  <2> QED
    BY <1>1, <2>1 DEF UsageReached
<1> QED
  BY <1>2, <1>3

\* The control of seed_data with the loop over the months.
LEMMA AfterMonths ==
    ASSUME sd \in SeedState, SeedRunning, NEW t, t = After(sd)
    PROVE  /\ t \in SeedState /\ t.runs = sd.runs /\ t.fails = sd.fails
           /\ sd.pc = "regions" => t.pc \in {"regions", "customers"}
           /\ sd.pc = "customers" => t.pc = "customers" \/ (t.pc = "types" /\ t.i = 1)
           /\ sd.pc = "types" =>
                 IF sd.i < NumTypes THEN t.pc = "types" /\ t.i = sd.i + 1
                 ELSE t.pc = "usage" /\ t.i = 1 /\ t.j = 1
           /\ sd.pc = "usage" =>
                 IF sd.j < NumMonths THEN t.pc = "usage" /\ t.i = sd.i /\ t.j = sd.j + 1
                 ELSE IF sd.i < NumCustomers THEN t.pc = "usage" /\ t.i = sd.i + 1 /\ t.j = 1
                 ELSE t.pc = "bills"
           /\ sd.pc = "bills" => t.pc \in {"bills", "atRisk"}
           /\ sd.pc = "atRisk" => t.pc = "overdue"
           /\ sd.pc = "overdue" => t.pc = "done"
<1>1. /\ sd.pc \in SeedPc \ {"idle", "done"} /\ sd.i \in Nat /\ sd.j \in Nat
      /\ t \in SeedState /\ t.fails = sd.fails
  BY AfterStep DEF SeedState, SeedRunning
<1>2. \A pc \in SeedPc : /\ Goto(sd, pc).runs = sd.runs
                         /\ Goto(sd, pc).pc = pc /\ Goto(sd, pc).i = 1 /\ Goto(sd, pc).j = 1
  BY DEF Goto, SeedState
<1>3. [sd EXCEPT !.i = sd.i + 1].runs = sd.runs /\ [sd EXCEPT !.i = sd.i + 1].pc = sd.pc
      /\ [sd EXCEPT !.i = sd.i + 1].i = sd.i + 1
  BY DEF SeedState
<1>4. /\ "customers" \in SeedPc /\ "types" \in SeedPc /\ "usage" \in SeedPc /\ "bills" \in SeedPc
      /\ "atRisk" \in SeedPc /\ "overdue" \in SeedPc /\ "done" \in SeedPc
  BY DEF SeedPc
<1>5. CASE sd.pc = "regions"
  <2>1. t = LoopTo(sd, NumRegions, "customers")
    BY <1>5 DEF After
  <2> QED
    BY <1>1, <1>2, <1>3, <1>4, <1>5, <2>1 DEF LoopTo
<1>6. CASE sd.pc = "customers"
  <2>1. t = LoopTo(sd, NumCustomers, "types")
    BY <1>6 DEF After
  <2> QED
    BY <1>1, <1>2, <1>3, <1>4, <1>6, <2>1 DEF LoopTo
<1>7. CASE sd.pc = "types"
  <2>1. t = LoopTo(sd, NumTypes, "usage")
    BY <1>7 DEF After
  <2> QED
    BY <1>1, <1>2, <1>3, <1>4, <1>7, <2>1 DEF LoopTo
<1>8. CASE sd.pc = "usage"
  <2>1. CASE sd.j < NumMonths
    <3>1. t = [sd EXCEPT !.j = sd.j + 1]
      BY <1>8, <2>1 DEF After
    <3> QED
      BY <1>1, <1>8, <2>1, <3>1 DEF SeedState
  <2>2. CASE ~(sd.j < NumMonths)
    <3>1. PICK s : s = [sd EXCEPT !.j = 1]
      OBVIOUS
    <3>2. t = LoopTo(s, NumCustomers, "bills")
      BY <1>8, <2>2, <3>1 DEF After
    <3>3. s \in SeedState /\ s.pc = "usage" /\ s.i = sd.i /\ s.j = 1 /\ s.runs = sd.runs
      BY <1>8, <3>1 DEF SeedState
    <3>4. CASE sd.i < NumCustomers
      <4>1. t = [s EXCEPT !.i = s.i + 1]
        BY <3>2, <3>3, <3>4 DEF LoopTo
      <4> QED
        BY <1>1, <1>8, <2>2, <3>3, <3>4, <4>1 DEF SeedState
    <3>5. CASE ~(sd.i < NumCustomers)
      <4>1. t = Goto(s, "bills")
        BY <3>2, <3>3, <3>5 DEF LoopTo
      <4>2. t.pc = "bills" /\ t.runs = s.runs
        BY <3>3, <4>1 DEF Goto, SeedState
      <4> QED
        BY <1>1, <1>8, <2>2, <3>3, <3>5, <4>2
    <3> QED
      BY <3>4, <3>5
  <2> QED
    BY <2>1, <2>2
<1>9. CASE sd.pc = "bills"
  <2>1. t = LoopTo(sd, NumCustomers, "atRisk")
    BY <1>9 DEF After
  <2> QED
    BY <1>1, <1>2, <1>3, <1>4, <1>9, <2>1 DEF LoopTo
<1>10. CASE sd.pc = "atRisk"
  <2>1. t = Goto(sd, "overdue")
    BY <1>10 DEF After
  <2> QED
    BY <1>1, <1>2, <1>4, <1>10, <2>1
<1>11. CASE sd.pc = "overdue"
  <2>1. t = Goto(sd, "done")
    BY <1>11 DEF After
  <2> QED
    BY <1>1, <1>2, <1>4, <1>11, <2>1
<1> QED
  BY <1>1, <1>5, <1>6, <1>7, <1>8, <1>9, <1>10, <1>11 DEF SeedPc

LEMMA QuietUsage ==
    ASSUME UsageInv, sd' = sd, UNCHANGED <<types, usage, usageSeq>>
    PROVE  UsageInv'
  BY DEF UsageInv, FirstRun, UsageProgress, HasUsage, UsageReached, UsageOf

\* Statements that write neither a type nor a usage row.
LEMMA OtherStatement ==
    ASSUME TypeInv, UsageInv, SeedRunning, sd.pc \notin {"types", "usage"}, sd' = After(sd),
           UNCHANGED <<types, usage, usageSeq>>
    PROVE  UsageInv'
<1>1. sd \in SeedState /\ NumTypes \in Nat \ {0}
  BY EnergyDBAssumption DEF TypeInv, TypeOK, SeedTypeOK
<1>2. sd.pc \in {"regions", "customers", "bills", "atRisk", "overdue"}
  BY <1>1 DEF SeedRunning, SeedState, SeedPc
<1>3. /\ sd'.runs = sd.runs /\ sd'.fails = sd.fails
      /\ \/ sd.pc \in {"regions", "customers"} /\ sd'.pc \in {"regions", "customers"}
         \/ sd.pc = "customers" /\ sd'.pc = "types" /\ sd'.i = 1
         \/ sd.pc \in {"bills", "atRisk", "overdue"} /\ sd'.pc \in {"bills", "atRisk", "overdue", "done"}
  BY <1>1, <1>2, AfterMonths
<1>4. sd.runs # 0 /\ (FirstRun' => UsageProgress)
  BY <1>2, <1>3 DEF UsageInv, FirstRun
<1>5. \A c : UsageOf(c)' = UsageOf(c)
  BY DEF UsageOf
<1>6. UsageReached(NumCustomers + 1, 1) => UsageReached(NumCustomers + 1, 1)'
  BY <1>5 DEF UsageReached
<1>7. UsageProgress => UsageProgress'
  <2>1. 1..(1 - 1) = {}
    OBVIOUS
  <2> QED
    BY <1>3, <1>6, <2>1 DEF UsageProgress
<1> QED
  BY <1>3, <1>4, <1>7 DEF UsageInv

LEMMA TypeStatement ==
    ASSUME TypeInv, UsageInv, SeedType
    PROVE  UsageInv'
<1>1. /\ sd \in SeedState /\ NumTypes \in Nat \ {0} /\ NumMonths \in Nat \ {0}
      /\ sd.pc = "types" /\ sd' = After(sd) /\ SeedRunning
      /\ sd.i \in 1..NumTypes
  BY EnergyDBAssumption, SeedingAssumption DEF TypeInv, TypeOK, SeedTypeOK, SeedType, SeedRunning, LoopOK
<1>2. types' = types \cup {sd.i} /\ usage' = usage /\ usageSeq' = usageSeq
  BY DEF SeedType, InsertType, usageVars
<1>3. /\ sd'.runs = sd.runs /\ sd'.fails = sd.fails
      /\ IF sd.i < NumTypes THEN sd'.pc = "types" /\ sd'.i = sd.i + 1
         ELSE sd'.pc = "usage" /\ sd'.i = 1 /\ sd'.j = 1
  BY <1>1, AfterMonths
<1>4. sd.runs # 0
  BY <1>1 DEF UsageInv
<1>5. ASSUME FirstRun' PROVE UsageProgress'
  <2>1. usage = {} /\ usageSeq = 0 /\ 1..(sd.i - 1) \subseteq types
    BY <1>1, <1>3, <1>5 DEF UsageInv, FirstRun, UsageProgress
  <2>2. 1..sd.i \subseteq types'
    <3>1. 1..sd.i = 1..(sd.i - 1) \cup {sd.i}
      BY <1>1
    <3> QED
      BY <1>2, <2>1, <3>1
  <2>3. CASE sd.i < NumTypes
    <3>1. sd'.i = sd.i + 1
      BY <1>3, <2>3
    <3>2. 1..(sd'.i - 1) \subseteq types'
      <4>1. sd'.i - 1 = sd.i
        BY <1>1, <3>1
      <4> QED
        BY <2>2, <4>1
    <3> QED
      BY <1>2, <1>3, <2>1, <2>3, <3>2 DEF UsageProgress
  <2>4. CASE ~(sd.i < NumTypes)
    <3>1. 1..NumTypes \subseteq types' /\ sd'.pc = "usage" /\ sd'.i = 1 /\ sd'.j = 1
      BY <1>1, <1>3, <2>2, <2>4
    <3>2. RowsBefore(1, 1) = 0
      BY <1>1 DEF RowsBefore
    <3>3. HasUsage(RowsBefore(1, 1))'
      <4>1. 1..0 = {} /\ IsFiniteSet({})
        BY FS_EmptySet
      <4> QED
        BY <1>2, <2>1, <3>2, <4>1 DEF HasUsage, Ids
    <3>4. UsageReached(1, 1)'
      <4>1. \A c : UsageOf(c)' = {}
        BY <1>2, <2>1 DEF UsageOf
      <4>2. \A c \in 1..NumCustomers : ~(c < 1)
        OBVIOUS
      <4>3. Cardinality({}) = 0 /\ 1 - 1 = 0
        BY FS_EmptySet
      <4> QED
        BY <4>1, <4>2, <4>3 DEF UsageReached
    <3>5. 1 \in 1..NumMonths
      BY <1>1
    <3> QED
      BY <3>1, <3>3, <3>4, <3>5 DEF UsageProgress
  <2> QED
    BY <2>3, <2>4
<1> QED
  BY <1>3, <1>4, <1>5 DEF UsageInv

LEMMA UsageStatement ==
    ASSUME RoomForUsage, TypeInv, UsageInv, SeedUsage
    PROVE  UsageInv'
<1>p. PICK i, j : i = sd.i /\ j = sd.j
  OBVIOUS
<1>1. /\ sd \in SeedState /\ NumCustomers \in Nat /\ NumMonths \in Nat \ {0}
      /\ sd.pc = "usage" /\ sd' = After(sd) /\ SeedRunning
      /\ i \in 1..NumCustomers
  BY <1>p, SeedingAssumption DEF TypeInv, TypeOK, SeedTypeOK, SeedUsage, SeedRunning, LoopOK
<1>2. PICK k \in 1..NumTypes : InsertUsage(i, k)
  BY <1>p DEF SeedUsage
<1>3. types' = types
  BY <1>2 DEF InsertUsage
<1>4. /\ sd'.runs = sd.runs /\ sd'.fails = sd.fails
      /\ IF j < NumMonths THEN sd'.pc = "usage" /\ sd'.i = i /\ sd'.j = j + 1
         ELSE IF i < NumCustomers THEN sd'.pc = "usage" /\ sd'.i = i + 1 /\ sd'.j = 1
         ELSE sd'.pc = "bills"
  BY <1>p, <1>1, AfterMonths
<1>5. sd.runs # 0
  BY <1>1 DEF UsageInv
<1>6. ASSUME FirstRun' PROVE UsageProgress'
  <2>1. /\ 1..NumTypes \subseteq types /\ j \in 1..NumMonths
        /\ HasUsage(RowsBefore(i, j)) /\ UsageReached(i, j)
    BY <1>p, <1>1, <1>4, <1>6 DEF UsageInv, FirstRun, UsageProgress
  <2>2. /\ RowsBefore(i, j) \in Nat /\ RowsBefore(i, j) < MaxRowid
        /\ RowsBefore(i, j) + 1 = RowsBefore(i, j + 1)
        /\ j = NumMonths => RowsBefore(i, j) + 1 = RowsBefore(i + 1, 1)
    BY <1>1, <2>1, RowsFit
  <2>3. PICK n : n = RowsBefore(i, j)
    OBVIOUS
  <2>4. HasUsage(n + 1)' /\ \E u : u \notin usage /\ u.cust = i /\ usage' = usage \cup {u}
    BY <1>2, <2>1, <2>2, <2>3, NextUsage
  <2>5. /\ UsageReached(i, j + 1)'
        /\ j = NumMonths => UsageReached(i + 1, 1)'
    <3>1. IsFiniteSet(usage)
      BY <2>1 DEF HasUsage
    <3> QED
      BY <1>1, <2>1, <2>4, <3>1, UsageGoesOn
  <2>6. IsFiniteSet(usage')
    BY <2>4 DEF HasUsage
  <2>7. CASE j < NumMonths
    <3>1. HasUsage(RowsBefore(i, j + 1))'
      BY <2>2, <2>3, <2>4 DEF HasUsage
    <3>2. j + 1 \in 1..NumMonths
      BY <1>1, <2>1, <2>7
    <3>3. HasUsage(RowsBefore(sd.i, sd.j))' /\ UsageReached(sd.i, sd.j)'
      BY <1>4, <2>5, <2>7, <3>1 DEF HasUsage, UsageReached, RowsBefore
    <3> QED
      BY <1>3, <1>4, <2>1, <2>7, <3>2, <3>3 DEF UsageProgress
  <2>8. CASE ~(j < NumMonths) /\ i < NumCustomers
    <3>1. j = NumMonths /\ 1 \in 1..NumMonths
      BY <1>1, <2>1, <2>8
    <3>2. HasUsage(RowsBefore(i + 1, 1))'
      BY <2>2, <2>3, <2>4, <3>1 DEF HasUsage
    <3>3. HasUsage(RowsBefore(sd.i, sd.j))' /\ UsageReached(sd.i, sd.j)'
      BY <1>4, <2>5, <2>8, <3>1, <3>2 DEF HasUsage, UsageReached, RowsBefore
    <3> QED
      BY <1>3, <1>4, <2>1, <2>8, <3>1, <3>3 DEF UsageProgress
  <2>9. CASE ~(j < NumMonths) /\ ~(i < NumCustomers)
    <3>1. j = NumMonths /\ i = NumCustomers
      BY <1>1, <2>1, <2>9
    <3>2. UsageReached(NumCustomers + 1, 1)'
      BY <2>5, <3>1 DEF UsageReached
    <3> QED
      BY <1>3, <1>4, <2>1, <2>6, <2>9, <3>2 DEF UsageProgress
  <2> QED
    BY <2>7, <2>8, <2>9
<1> QED
  BY <1>4, <1>5, <1>6 DEF UsageInv

LEMMA UsageStep ==
    ASSUME RoomForUsage, FullInv, UsageInv, [FullNext]_fullVars
    PROVE  UsageInv'
<1>0. TypeInv /\ sd \in SeedState
  BY DEF FullInv, TypeInv, TypeOK, SeedTypeOK
<1>1. CASE StartSeed
  <2>1. /\ sd' = [pc |-> "regions", i |-> 1, j |-> 1, runs |-> sd.runs + 1, fails |-> 0]
        /\ usage' = usage /\ usageSeq' = usageSeq
    BY <1>1 DEF StartSeed, dbVars
  <2>2. sd.runs \in Nat
    BY <1>0 DEF SeedState
  <2>3. sd'.runs # 0 /\ sd'.pc = "regions" /\ (FirstRun' => sd.runs = 0)
    BY <2>1, <2>2 DEF FirstRun
  <2> QED
    BY <2>1, <2>3 DEF UsageInv, UsageProgress
<1>2. CASE SeedRegion \/ SeedCustomer \/ SeedBill \/ SeedAtRisk \/ SeedOverdue
  <2>1. SeedRunning /\ sd.pc \notin {"types", "usage"} /\ sd' = After(sd)
    BY <1>2 DEF SeedRegion, SeedCustomer, SeedBill, SeedAtRisk, SeedOverdue, SeedRunning
  <2>2. UNCHANGED <<types, usage, usageSeq>>
    BY <1>2 DEF SeedRegion, SeedCustomer, SeedBill, SeedAtRisk, SeedOverdue, InsertRegion,
                InsertCustomer, InsertBill, InsertAtRisk, MarkOverdue, usageVars
  <2> QED
    BY <1>0, <2>1, <2>2, OtherStatement
<1>3. CASE SeedType
  BY <1>0, <1>3, TypeStatement
<1>4. CASE SeedUsage
  BY <1>0, <1>4, UsageStatement
<1>5. CASE SeedStatementFails
  <2>1. PICK t : t = After(sd)
    OBVIOUS
  <2>2. SeedRunning /\ sd' = [t EXCEPT !.fails = t.fails + 1]
    BY <1>5, <2>1 DEF SeedStatementFails
  <2>3. t \in SeedState /\ t.runs = sd.runs
    BY <1>0, <2>1, <2>2, AfterMonths
  <2>4. sd'.fails # 0 /\ sd'.runs = sd.runs
    BY <2>2, <2>3 DEF SeedState
  <2> QED
    BY <2>2, <2>4 DEF UsageInv, FirstRun, SeedRunning
<1>6. CASE SeedKilled
  <2>1. sd' = Goto(sd, "idle") /\ SeedRunning
    BY <1>6 DEF SeedKilled
  <2>2. sd'.pc = "idle" /\ sd'.runs = sd.runs
    BY <1>0, <2>1 DEF Goto, SeedState
  <2> QED
    BY <2>1, <2>2 DEF UsageInv, FirstRun, SeedRunning
<1>7. CASE AdminNext
  <2>1. sd' = sd /\ UNCHANGED <<types, usage, usageSeq>>
    BY <1>7 DEF AdminNext, PostCustomer, GetDeleteCustomer, MenuAddCustomer, MenuDeleteCustomer,
                MenuUpdateCustomer, InsertCustomer, DeleteCustomer, UpdateCustomerRegion, usageVars
  <2> QED
    BY <2>1, QuietUsage
<1>8. CASE Rebuild
  <2>1. sd' = sd /\ UNCHANGED <<types, usage, usageSeq>>
    BY <1>8 DEF Rebuild, RebuildNext, StartRebuild, RebuildClear, RebuildCustomer, RebuildBill,
                RebuildStatementFails, RebuildKilled, DeleteAllCustomers, ResetCustomerSequence,
                DeleteAllBills, ResetBillSequence, InsertCustomer, InsertBill, dbVars, usageVars
  <2> QED
    BY <2>1, QuietUsage
<1>9. CASE UNCHANGED fullVars
  BY <1>9, QuietUsage DEF fullVars, vars, seedVars, dbVars
<1> QED
  BY <1>1, <1>2, <1>3, <1>4, <1>5, <1>6, <1>7, <1>8, <1>9 DEF FullNext, OtherProgram, Next, SeedNext, SeedStep

LEMMA UsageInvHolds ==
    ASSUME RoomForUsage
    PROVE  FullSpec => []UsageInv
<1>1. FullInit => UsageInv
  BY DEF FullInit, Init, DBInit, SeedInit, UsageInv, FirstRun
<1>2. FullInv /\ UsageInv /\ [FullNext]_fullVars => UsageInv'
  BY UsageStep
<1> QED
  BY <1>1, <1>2, FullInvHolds, PTL DEF FullSpec

-----------------------------------------------------------------------------
(* The join of bills with usage rows.                                      *)

Joined(bs) == {x \in SalesRows(bs) : x.bill.cust = x.use.cust}

\* The rows of one bill, one for each usage row of its customer.
LEMMA RowsOfBill ==
    ASSUME NEW bs, NEW b \in bs, \A u \in usage : u.type \in types, IsFiniteSet(UsageOf(b.cust)),
           NEW rows, rows = {x \in Joined(bs) : x.bill = b}
    PROVE  IsFiniteSet(rows) /\ Cardinality(rows) = Cardinality(UsageOf(b.cust))
<1>1. PICK U : U = UsageOf(b.cust)
  OBVIOUS
<1>2. PICK f : f = [u \in U |-> [bill |-> b, use |-> u]]
  OBVIOUS
<1>3. \A u \in U : f[u] \in rows
  <2> SUFFICES ASSUME NEW u \in U PROVE f[u] \in rows
    OBVIOUS
  <2>1. u \in usage /\ u.cust = b.cust /\ u.type \in types
    BY <1>1 DEF UsageOf
  <2>2. f[u] \in SalesRows(bs)
    BY <1>2, <2>1 DEF SalesRows
  <2>3. f[u].bill = b /\ f[u].use = u
    BY <1>2
  <2> QED
    BY <2>1, <2>2, <2>3 DEF Joined
<1>4. \A x \in rows : x.use \in U /\ f[x.use] = x
  <2> SUFFICES ASSUME NEW x \in rows PROVE x.use \in U /\ f[x.use] = x
    OBVIOUS
  <2>1. x \in SalesRows(bs) /\ x.bill.cust = x.use.cust /\ x.bill = b
    BY DEF Joined
  <2>2. PICK d \in bs, u \in usage : x = [bill |-> d, use |-> u]
    BY <2>1 DEF SalesRows
  <2>3. x.bill = d /\ x.use = u
    BY <2>2
  <2>4. d = b /\ u.cust = b.cust
    BY <2>1, <2>3
  <2>5. u \in U
    BY <1>1, <2>4 DEF UsageOf
  <2>6. f[u] = [bill |-> b, use |-> u]
    BY <1>2, <2>5
  <2> QED
    BY <2>2, <2>3, <2>4, <2>5, <2>6
<1>5. \A u, v \in U : f[u] = f[v] => u = v
  BY <1>2
<1>6. f \in [U -> rows]
  BY <1>2, <1>3
<1>7. f \in Bijection(U, rows)
  BY <1>4, <1>5, <1>6 DEF Bijection, Injection, IsInjective, Surjection
<1>8. ExistsBijection(U, rows)
  BY <1>7 DEF ExistsBijection
<1> QED
  BY <1>1, <1>8, FS_Bijection

\* The join holds every bill as often as its customer has usage rows.
LEMMA JoinedTotal ==
    ASSUME FullInv, NEW bs \in SUBSET bills, NEW value, value = [x \in Joined(bs) |-> x.bill.amount],
           NEW n \in Nat, \A u \in usage : u.type \in types,
           \A b \in bs : IsFiniteSet(UsageOf(b.cust)) /\ Cardinality(UsageOf(b.cust)) = n
    PROVE  /\ IsFiniteSet(Joined(bs))
           /\ \A x \in Joined(bs) : value[x] \in Nat
           /\ SumFunctionOnSet(value, Joined(bs)) = n * Total(bs)
<1>1. PICK amount : amount = [b \in bills |-> b.amount]
  OBVIOUS
<1>2. PICK rows : rows = [b \in bs |-> {x \in Joined(bs) : x.bill = b}]
  OBVIOUS
<1>4. IsFiniteSet(bs) /\ Total(bs) = SumFunctionOnSet(amount, bs) /\ \A b \in bs : amount[b] \in Nat
  BY <1>1, TotalIsSum
<1>5. \A b \in bs : IsFiniteSet(rows[b]) /\ Cardinality(rows[b]) = n
  BY <1>2, RowsOfBill
<1>6. \A x \in Joined(bs) : x.bill \in bs /\ value[x] = amount[x.bill]
  <2>1. \A x \in Joined(bs) : x.bill \in bs
    BY DEF Joined, SalesRows
  <2> QED
    BY <1>1, <2>1
<1>7. \A x \in Joined(bs) : value[x] \in Nat
  BY <1>4, <1>6
<1>8. Splits(Joined(bs), rows, bs)
  <2>1. \A x : x \in Joined(bs) <=> \E b \in bs : x \in rows[b]
    BY <1>2, <1>6
  <2>2. Joined(bs) = UNION {rows[b] : b \in bs}
    BY <2>1
  <2>3. \A b, d \in bs : b # d => rows[b] \cap rows[d] = {}
    BY <1>2
  <2> QED
    BY <1>5, <2>2, <2>3 DEF Splits
<1>9. PICK B, all, f : B = bs /\ all = Joined(bs) /\ f = value
  OBVIOUS
<1>10. IsFiniteSet(B) /\ Splits(all, rows, B) /\ EqualGroups(rows, B, f, amount, n)
  <2>1. \A b \in bs : \A x \in rows[b] : x \in Joined(bs) /\ x.bill = b
    BY <1>2
  <2> QED
    BY <1>4, <1>5, <1>6, <1>8, <1>9, <2>1 DEF EqualGroups
<1>11. /\ IsFiniteSet(all)
       /\ \A x \in all : f[x] \in Nat
       /\ SumFunctionOnSet(f, all) = n * SumFunctionOnSet(amount, B)
  BY <1>10, SumOfEqualGroups
<1> QED
  BY <1>4, <1>9, <1>11

\* The report adds up to the rows of the join.
LEMMA SalesAddUp ==
    ASSUME NEW bs, NEW value, value = [x \in Joined(bs) |-> x.bill.amount],
           IsFiniteSet(types), IsFiniteSet(Joined(bs)), \A x \in Joined(bs) : value[x] \in Nat
    PROVE  GrandTotal(Sales(bs)) = SumFunctionOnSet(value, Joined(bs))
<1>1. PICK all : all = Joined(bs)
  OBVIOUS
<1>2. PICK ofType : ofType = [t \in types |-> {x \in all : x.use.type = t}]
  OBVIOUS
<1>3. PICK row : row = [t \in types |-> [product |-> t, total |-> SumFunction([x \in ofType[t] |-> x.bill.amount])]]
  OBVIOUS
<1>4. PICK report : report = Sales(bs)
  OBVIOUS
<1>5. PICK total : total = [x \in report |-> x.total]
  OBVIOUS
<1>6. \A x \in all : x.use.type \in types
  BY <1>1 DEF Joined, SalesRows
<1>7. Splits(all, ofType, types)
  <2>1. \A t \in types : IsFiniteSet(ofType[t])
    BY <1>1, <1>2, FS_Subset
  <2>2. \A s, t \in types : s # t => ofType[s] \cap ofType[t] = {}
    BY <1>2
  <2>3. \A x : x \in all <=> \E t \in types : x \in ofType[t]
    BY <1>2, <1>6
  <2>4. all = UNION {ofType[t] : t \in types}
    BY <2>3
  <2> QED
    BY <2>1, <2>2, <2>4 DEF Splits
<1>8. Lists(report, row, {t \in types : ofType[t] # {}})
  <2>1. \A x, y \in types : row[x] = row[y] => x = y
    BY <1>3
  <2>2. report = {row[t] : t \in {s \in types : ofType[s] # {}}}
    BY <1>1, <1>2, <1>3, <1>4 DEF Sales, Joined
  <2> QED
    BY <2>1, <2>2 DEF Lists
<1>9. \A t \in types : ofType[t] # {} => total[row[t]] = SumFunctionOnSet(value, ofType[t])
  <2> SUFFICES ASSUME NEW t \in types, ofType[t] # {}
               PROVE  total[row[t]] = SumFunctionOnSet(value, ofType[t])
    OBVIOUS
  <2>1. PICK own : own = [x \in ofType[t] |-> x.bill.amount]
    OBVIOUS
  <2>2. row[t] \in report /\ row[t].total = SumFunction(own)
    BY <1>3, <1>8, <2>1 DEF Lists
  <2>3. SumFunction(own) = SumFunctionOnSet(own, ofType[t])
    BY <2>1 DEF SumFunction
  <2>4. IsFiniteSet(ofType[t]) /\ \A x \in ofType[t] : own[x] = value[x]
    BY <1>1, <1>2, <2>1, FS_Subset
  <2>5. SumFunctionOnSet(own, ofType[t]) = SumFunctionOnSet(value, ofType[t])
    BY <2>4, SumsAgree
  <2> QED
    BY <1>5, <2>2, <2>3, <2>5
<1>10. SumFunctionOnSet(total, report) = SumFunctionOnSet(value, all)
  <2>1. \A x \in all : value[x] \in Nat
    BY <1>1
  <2> QED
    BY <1>7, <1>8, <1>9, <2>1, SumOfReport
<1>11. GrandTotal(report) = SumFunctionOnSet(total, report)
  BY <1>5 DEF GrandTotal, SumFunction
<1> QED
  BY <1>1, <1>4, <1>10, <1>11

\* After the first run of seed_data the sales page shows every paid bill once for
\* each month of usage of its customer: the join has as many rows for a bill as
\* the customer has usage rows, and the run wrote as many for each customer.
THEOREM SalesCountMonths ==
    ASSUME RoomForUsage
    PROVE  FullSpec => []SalesCountEveryMonth
<1>1. FullInv /\ BillsInv /\ UsageInv => SalesCountEveryMonth
  <2> SUFFICES ASSUME FullInv, BillsInv, UsageInv, sd.pc = "done", sd.fails = 0, sd.runs = 1
               PROVE  GrandTotal(SalesByProduct) = NumMonths * Total(WithStatus("Paid"))
    BY DEF SalesCountEveryMonth
  <2>1. PICK paid : paid = WithStatus("Paid")
    OBVIOUS
  <2>2. PICK value : value = [x \in Joined(paid) |-> x.bill.amount]
    OBVIOUS
  <2>3. /\ 1..NumTypes \subseteq types /\ IsFiniteSet(usage)
        /\ UsageReached(NumCustomers + 1, 1)
    BY DEF UsageInv, FirstRun, UsageProgress
  <2>4. /\ NumTypes \in Nat /\ NumCustomers \in Nat /\ NumMonths \in Nat
        /\ types = 1..NumTypes /\ \A u \in usage : u.type \in types
    <3>1. types \subseteq 1..NumTypes /\ usage \subseteq UsageRow
      BY DEF FullInv, TypeInv, TypeOK, DBTypeOK
    <3>2. types = 1..NumTypes
      BY <2>3, <3>1
    <3>3. \A u \in UsageRow : u.type \in 1..NumTypes
      BY DEF UsageRow
    <3>4. NumTypes \in Nat /\ NumCustomers \in Nat /\ NumMonths \in Nat
      BY EnergyDBAssumption, SeedingAssumption
    <3> QED
      BY <3>1, <3>2, <3>3, <3>4
  <2>5. IsFiniteSet(types)
    BY <2>4, FS_Interval
  <2>6. paid \in SUBSET bills
    BY <2>1 DEF WithStatus
  <2>7. \A b \in paid : IsFiniteSet(UsageOf(b.cust)) /\ Cardinality(UsageOf(b.cust)) = NumMonths
    <3> SUFFICES ASSUME NEW b \in paid
                 PROVE  IsFiniteSet(UsageOf(b.cust)) /\ Cardinality(UsageOf(b.cust)) = NumMonths
      OBVIOUS
    <3>1. b.cust \in 1..NumCustomers
      BY <2>6 DEF BillsInv, BillOK
    <3>2. b.cust < NumCustomers + 1
      BY <2>4, <3>1
    <3>3. Cardinality(UsageOf(b.cust)) = NumMonths
      BY <2>3, <3>1, <3>2 DEF UsageReached
    <3>4. UsageOf(b.cust) \subseteq usage
      BY DEF UsageOf
    <3> QED
      BY <2>3, <3>3, <3>4, FS_Subset
  <2>8. /\ IsFiniteSet(Joined(paid)) /\ \A x \in Joined(paid) : value[x] \in Nat
        /\ SumFunctionOnSet(value, Joined(paid)) = NumMonths * Total(paid)
    BY <2>2, <2>4, <2>6, <2>7, JoinedTotal
  <2>9. GrandTotal(Sales(paid)) = SumFunctionOnSet(value, Joined(paid))
    BY <2>2, <2>5, <2>8, SalesAddUp
  <2> QED
    BY <2>1, <2>8, <2>9 DEF SalesByProduct
<1> QED
  BY <1>1, FullInvHolds, BillsInvHolds, UsageInvHolds, PTL

=============================================================================
