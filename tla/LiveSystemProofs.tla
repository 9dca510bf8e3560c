--------------------------- MODULE LiveSystemProofs ---------------------------
(***************************************************************************)
(* Theorems of LiveSystem for every value of the constants: any number of  *)
(* regions, customers, runs and failures, and any largest rowid.  The last *)
(* part is about checkOverduePayments: what its two statements establish   *)
(* together, and what is left when the program is killed between them or   *)
(* one of them fails.                                                      *)
(***************************************************************************)
EXTENDS LiveSystem, WellFoundedInduction, TLAPS

-----------------------------------------------------------------------------
(* The statements keep the types of the tables.                            *)

LEMMA InsertCustomerType ==
    ASSUME DBTypeOK, NEW r \in RegionIds, InsertCustomer(r)
    PROVE  DBTypeOK'
  BY DEF DBTypeOK, InsertCustomer, CustomerRow, Rowids, customerVars, billVars, usageVars

LEMMA DeleteCustomerType ==
    ASSUME DBTypeOK, NEW id, DeleteCustomer(id)
    PROVE  DBTypeOK'
  BY DEF DBTypeOK, DeleteCustomer, billVars, usageVars

LEMMA UpdateCustomerRegionType ==
    ASSUME DBTypeOK, NEW id, NEW r \in RegionIds, UpdateCustomerRegion(id, r)
    PROVE  DBTypeOK'
  BY DEF DBTypeOK, UpdateCustomerRegion, CustomerRow, billVars, usageVars

LEMMA InsertUsageType ==
    ASSUME DBTypeOK, NEW c \in Nat, NEW t \in 1..NumTypes, InsertUsage(c, t)
    PROVE  DBTypeOK'
  BY DEF DBTypeOK, InsertUsage, UsageRow, Rowids, customerVars, billVars, usageVars

LEMMA InsertBillType ==
    ASSUME DBTypeOK, NEW c \in Nat, NEW a \in Amounts, NEW due \in Nat, NEW paid \in Nat,
           NEW s \in Statuses, InsertBill(c, a, due, paid, s)
    PROVE  DBTypeOK'
  BY DEF DBTypeOK, InsertBill, BillRow, Rowids, customerVars, billVars, usageVars

LEMMA InsertAtRiskType ==
    ASSUME DBTypeOK, NEW day, InsertAtRisk(day)
    PROVE  DBTypeOK'
<1>1. LastPerCustomer(LateBills(day)) \subseteq BillRow
  BY DEF DBTypeOK, LastPerCustomer, LateBills
<1>2. \A b \in BillRow : [cust |-> b.cust, amount |-> b.amount] \in AtRiskRow
  BY DEF BillRow, AtRiskRow
<1>3. {[cust |-> b.cust, amount |-> b.amount] : b \in LastPerCustomer(LateBills(day))}
        \subseteq AtRiskRow
  BY <1>1, <1>2
<1>4. atRisk' \subseteq AtRiskRow
  BY <1>3 DEF InsertAtRisk, DBTypeOK
<1> QED
  BY <1>4 DEF DBTypeOK, InsertAtRisk, customerVars, billVars, usageVars

LEMMA MarkOverdueType ==
    ASSUME DBTypeOK, NEW day, MarkOverdue(day)
    PROVE  DBTypeOK'
<1>1. \A b \in BillRow : [b EXCEPT !.status = "Overdue"] \in BillRow
  BY DEF BillRow, Statuses
<1>2. bills' \subseteq BillRow
  BY <1>1 DEF MarkOverdue, DBTypeOK
<1> QED
  BY <1>2 DEF DBTypeOK, MarkOverdue, customerVars, usageVars

\* Where the control of seed_data goes, and that it stays well typed.
LEMMA GotoStep ==
    ASSUME NEW s \in SeedState, NEW pc \in SeedPc
    PROVE  /\ Goto(s, pc) \in SeedState
           /\ Goto(s, pc).pc = pc /\ Goto(s, pc).i = 1 /\ Goto(s, pc).fails = s.fails
  BY DEF SeedState, Goto

\* From state s to state t through "for (i = 1; i <= n; ++i)", then to pc.
Moves(s, t, n, pc) ==
    \/ s.i < n /\ t.pc = s.pc /\ t.i = s.i + 1
    \/ ~(s.i < n) /\ t.pc = pc /\ t.i = 1

LEMMA LoopToStep ==
    ASSUME NEW s \in SeedState, NEW n \in Nat, NEW pc \in SeedPc
    PROVE  /\ LoopTo(s, n, pc) \in SeedState
           /\ LoopTo(s, n, pc).fails = s.fails
           /\ Moves(s, LoopTo(s, n, pc), n, pc)
<1>1. CASE s.i < n
  <2>1. LoopTo(s, n, pc) = [s EXCEPT !.i = s.i + 1]
    BY <1>1 DEF LoopTo
  <2> QED
    BY <1>1, <2>1 DEF SeedState, Moves
<1>2. CASE ~(s.i < n)
  BY <1>2, GotoStep DEF LoopTo, Moves
<1> QED
  BY <1>1, <1>2

LEMMA AfterStep ==
    ASSUME NEW s \in SeedState, s.pc \notin {"idle", "done"}
    PROVE  /\ After(s) \in SeedState
           /\ After(s).fails = s.fails
           /\ s.pc = "regions" => Moves(s, After(s), NumRegions, "customers")
           /\ s.pc = "customers" => Moves(s, After(s), NumCustomers, "types")
           /\ s.pc = "types" => Moves(s, After(s), NumTypes, "usage")
           /\ s.pc = "usage" => \/ After(s).pc = "usage" /\ After(s).i = s.i
                                \/ Moves(s, After(s), NumCustomers, "bills")
           /\ s.pc = "bills" => Moves(s, After(s), NumCustomers, "atRisk")
           /\ s.pc = "atRisk" => After(s).pc = "overdue"
           /\ s.pc = "overdue" => After(s).pc = "done"
<1>0. /\ "customers" \in SeedPc /\ "types" \in SeedPc /\ "usage" \in SeedPc
      /\ "bills" \in SeedPc /\ "atRisk" \in SeedPc /\ "overdue" \in SeedPc /\ "done" \in SeedPc
  BY DEF SeedPc
<1>1. NumRegions \in Nat /\ NumCustomers \in Nat /\ NumTypes \in Nat /\ s.i \in Nat
  BY SeedingAssumption, EnergyDBAssumption DEF SeedState
<1>2. CASE s.pc = "regions"
  <2>1. After(s) = LoopTo(s, NumRegions, "customers")
    BY <1>2 DEF After
  <2>2. After(s) \in SeedState /\ After(s).fails = s.fails /\ Moves(s, After(s), NumRegions, "customers")
    BY <1>1, <2>1, <1>0, LoopToStep
  <2> QED
    BY <1>2, <2>2
<1>3. CASE s.pc = "customers"
  <2>1. After(s) = LoopTo(s, NumCustomers, "types")
    BY <1>3 DEF After
  <2>2. After(s) \in SeedState /\ After(s).fails = s.fails /\ Moves(s, After(s), NumCustomers, "types")
    BY <1>1, <2>1, <1>0, LoopToStep
  <2> QED
    BY <1>3, <2>2
<1>4. CASE s.pc = "types"
  <2>1. After(s) = LoopTo(s, NumTypes, "usage")
    BY <1>4 DEF After
  <2>2. After(s) \in SeedState /\ After(s).fails = s.fails /\ Moves(s, After(s), NumTypes, "usage")
    BY <1>1, <2>1, <1>0, LoopToStep
  <2> QED
    BY <1>4, <2>2
<1>5. CASE s.pc = "usage"
  <2>1. CASE s.j < NumMonths
    <3>1. After(s) = [s EXCEPT !.j = s.j + 1]
      BY <1>5, <2>1 DEF After
    <3>2. After(s) \in SeedState /\ After(s).fails = s.fails
          /\ After(s).pc = "usage" /\ After(s).i = s.i
      BY <1>5, <3>1 DEF SeedState
    <3> QED
      BY <1>5, <3>2
  <2>2. CASE ~(s.j < NumMonths)
    <3> DEFINE t == [s EXCEPT !.j = 1]
    <3>1. After(s) = LoopTo(t, NumCustomers, "bills")
      BY <1>5, <2>2 DEF After
    <3>2. t \in SeedState /\ t.pc = s.pc /\ t.i = s.i /\ t.fails = s.fails
      BY <1>5 DEF SeedState
    <3> HIDE DEF t
    <3>3. /\ LoopTo(t, NumCustomers, "bills") \in SeedState
          /\ LoopTo(t, NumCustomers, "bills").fails = t.fails
          /\ Moves(t, LoopTo(t, NumCustomers, "bills"), NumCustomers, "bills")
      BY <1>0, <1>1, <3>2, LoopToStep
    <3>4. Moves(s, After(s), NumCustomers, "bills")
      BY <3>1, <3>2, <3>3 DEF Moves
    <3> QED
      BY <1>5, <3>1, <3>2, <3>3, <3>4
  <2> QED
    BY <2>1, <2>2
<1>6. CASE s.pc = "bills"
  <2>1. After(s) = LoopTo(s, NumCustomers, "atRisk")
    BY <1>6 DEF After
  <2>2. After(s) \in SeedState /\ After(s).fails = s.fails /\ Moves(s, After(s), NumCustomers, "atRisk")
    BY <1>1, <2>1, <1>0, LoopToStep
  <2> QED
    BY <1>6, <2>2
<1>7. CASE s.pc = "atRisk"
  <2>1. After(s) = Goto(s, "overdue")
    BY <1>7 DEF After
  <2>2. Goto(s, "overdue") \in SeedState
    BY <1>0, GotoStep
  <2>3. Goto(s, "overdue").pc = "overdue"
    BY <1>0, GotoStep
  <2>4. Goto(s, "overdue").fails = s.fails
    BY <1>0, GotoStep
  <2> QED
    BY <1>7, <2>1, <2>2, <2>3, <2>4
<1>8. CASE s.pc = "overdue"
  <2>1. After(s) = Goto(s, "done")
    BY <1>8 DEF After
  <2>2. Goto(s, "done") \in SeedState
    BY <1>0, GotoStep
  <2>3. Goto(s, "done").pc = "done"
    BY <1>0, GotoStep
  <2>4. Goto(s, "done").fails = s.fails
    BY <1>0, GotoStep
  <2> QED
    BY <1>8, <2>1, <2>2, <2>3, <2>4
<1> QED
  BY <1>2, <1>3, <1>4, <1>5, <1>6, <1>7, <1>8 DEF SeedState, SeedPc

-----------------------------------------------------------------------------
(* Type correctness.                                                       *)

\* The loop counter stays within the bounds of the loop the program is in.
LoopOK ==
    /\ sd.pc = "regions" => sd.i \in 1..NumRegions
    /\ sd.pc = "types" => sd.i \in 1..NumTypes
    /\ sd.pc \in {"customers", "usage", "bills"} => sd.i \in 1..NumCustomers

TypeInv == TypeOK /\ LoopOK

LEMMA AfterKeepsLoop ==
    ASSUME SeedTypeOK, LoopOK, SeedRunning, NEW t, t = After(sd)
    PROVE  /\ t \in SeedState
           /\ t.pc = "regions" => t.i \in 1..NumRegions
           /\ t.pc = "types" => t.i \in 1..NumTypes
           /\ t.pc \in {"customers", "usage", "bills"} => t.i \in 1..NumCustomers
<1>1. sd \in SeedState /\ sd.pc \notin {"idle", "done"}
  BY DEF SeedTypeOK, SeedRunning
<1>2. sd.i \in Nat /\ t.i \in Nat /\ t \in SeedState
  BY <1>1, AfterStep DEF SeedState
<1>3. NumRegions \in Nat \ {0} /\ NumTypes \in Nat \ {0} /\ NumCustomers \in Nat \ {0}
  BY SeedingAssumption, EnergyDBAssumption
<1>4. CASE sd.pc = "regions"
  <2>1. Moves(sd, t, NumRegions, "customers")
    BY <1>1, <1>4, AfterStep
  <2> QED
    BY <1>2, <1>3, <1>4, <2>1 DEF Moves
<1>5. CASE sd.pc = "customers"
  <2>1. Moves(sd, t, NumCustomers, "types")
    BY <1>1, <1>5, AfterStep
  <2> QED
    BY <1>2, <1>3, <1>5, <2>1 DEF Moves
<1>6. CASE sd.pc = "types"
  <2>1. Moves(sd, t, NumTypes, "usage")
    BY <1>1, <1>6, AfterStep
  <2> QED
    BY <1>2, <1>3, <1>6, <2>1 DEF Moves
<1>7. CASE sd.pc = "usage"
  <2>1. (t.pc = "usage" /\ t.i = sd.i) \/ Moves(sd, t, NumCustomers, "bills")
    BY <1>1, <1>7, AfterStep
  <2> QED
    BY <1>2, <1>3, <1>7, <2>1 DEF Moves, LoopOK
<1>8. CASE sd.pc = "bills"
  <2>1. Moves(sd, t, NumCustomers, "atRisk")
    BY <1>1, <1>8, AfterStep
  <2> QED
    BY <1>2, <1>3, <1>8, <2>1 DEF Moves
<1>9. CASE sd.pc = "atRisk"
  <2>1. t.pc = "overdue"
    BY <1>1, <1>9, AfterStep
  <2> QED
    BY <1>2, <2>1
<1>10. CASE sd.pc = "overdue"
  <2>1. t.pc = "done"
    BY <1>1, <1>10, AfterStep
  <2> QED
    BY <1>2, <2>1
<1> QED
  BY <1>1, <1>4, <1>5, <1>6, <1>7, <1>8, <1>9, <1>10 DEF SeedState, SeedPc

\* The steps of seed_data that go on to the next statement.
LEMMA AdvanceKeepsLoop ==
    ASSUME SeedTypeOK, LoopOK, SeedRunning, sd' = After(sd)
    PROVE  SeedTypeOK' /\ LoopOK'
  BY AfterKeepsLoop DEF SeedTypeOK, LoopOK

LEMMA SeedStepType ==
    ASSUME TypeInv, SeedNext
    PROVE  TypeInv'
<1>0. DBTypeOK /\ SeedTypeOK /\ LoopOK /\ sd \in SeedState
  BY DEF TypeInv, TypeOK, SeedTypeOK
<1>1. CASE StartSeed
  <2>1. sd' = [pc |-> "regions", i |-> 1, j |-> 1, runs |-> sd.runs + 1, fails |-> 0]
    BY <1>1 DEF StartSeed
  <2>2. SeedTypeOK'
    BY <1>0, <2>1 DEF SeedTypeOK, SeedState, SeedPc
  <2>3. LoopOK'
    BY <2>1, SeedingAssumption DEF LoopOK
  <2>4. DBTypeOK'
    BY <1>0, <1>1 DEF StartSeed, DBTypeOK, dbVars
  <2> QED
    BY <2>2, <2>3, <2>4 DEF TypeInv, TypeOK
<1>2. CASE SeedRegion
  <2>1. SeedTypeOK' /\ LoopOK'
    BY <1>0, <1>2, AdvanceKeepsLoop DEF SeedRegion, SeedRunning
  <2>2. sd.i \in RegionIds
    BY <1>0, <1>2, SeedingAssumption DEF SeedRegion, LoopOK
  <2>3. DBTypeOK'
    BY <1>0, <1>2, <2>2
       DEF SeedRegion, InsertRegion, DBTypeOK, customerVars, billVars, usageVars
  <2> QED
    BY <2>1, <2>3 DEF TypeInv, TypeOK
<1>3. CASE SeedCustomer
  <2>1. SeedTypeOK' /\ LoopOK'
    BY <1>0, <1>3, AdvanceKeepsLoop DEF SeedCustomer, SeedRunning
  <2>2. RegionOf(sd.i) \in RegionIds
    BY <1>0, <1>3, SeedingAssumption DEF SeedCustomer, LoopOK
  <2>3. DBTypeOK'
    BY <1>0, <1>3, <2>2, InsertCustomerType DEF SeedCustomer
  <2> QED
    BY <2>1, <2>3 DEF TypeInv, TypeOK
<1>4. CASE SeedType
  <2>1. SeedTypeOK' /\ LoopOK'
    BY <1>0, <1>4, AdvanceKeepsLoop DEF SeedType, SeedRunning
  <2>2. sd.i \in 1..NumTypes
    BY <1>0, <1>4 DEF SeedType, LoopOK
  <2>3. DBTypeOK'
    BY <1>0, <1>4, <2>2
       DEF SeedType, InsertType, DBTypeOK, customerVars, billVars, usageVars
  <2> QED
    BY <2>1, <2>3 DEF TypeInv, TypeOK
<1>5. CASE SeedUsage
  <2>1. SeedTypeOK' /\ LoopOK'
    BY <1>0, <1>5, AdvanceKeepsLoop DEF SeedUsage, SeedRunning
  <2>2. sd.i \in Nat
    BY <1>0 DEF SeedState
  <2>3. DBTypeOK'
    BY <1>0, <1>5, <2>2, InsertUsageType DEF SeedUsage
  <2> QED
    BY <2>1, <2>3 DEF TypeInv, TypeOK
<1>6. CASE SeedBill
  <2>1. SeedTypeOK' /\ LoopOK'
    BY <1>0, <1>6, AdvanceKeepsLoop DEF SeedBill, SeedRunning
  <2>2. sd.i \in Nat
    BY <1>0 DEF SeedState
  <2>3. /\ "Paid" \in Statuses /\ "Unpaid" \in Statuses
        /\ NoDate \in Nat /\ 32 \in Nat /\ 159 \in Nat /\ 161 \in Nat /\ 197 \in Nat
    BY DEF Statuses, NoDate
  <2>4. PICK amount \in Amounts :
          \/ InsertBill(sd.i, amount, 32, NoDate, "Unpaid")
          \/ InsertBill(sd.i, amount, 161, 159, "Paid")
          \/ InsertBill(sd.i, amount, 197, NoDate, "Unpaid")
    BY <1>6 DEF SeedBill
  <2>5. DBTypeOK'
    BY <1>0, <2>2, <2>3, <2>4, InsertBillType
  <2> QED
    BY <2>1, <2>5 DEF TypeInv, TypeOK
<1>7. CASE SeedAtRisk
  <2>1. SeedTypeOK' /\ LoopOK'
    BY <1>0, <1>7, AdvanceKeepsLoop DEF SeedAtRisk, SeedRunning
  <2>2. DBTypeOK'
    BY <1>0, <1>7, InsertAtRiskType DEF SeedAtRisk
  <2> QED
    BY <2>1, <2>2 DEF TypeInv, TypeOK
<1>8. CASE SeedOverdue
  <2>1. SeedTypeOK' /\ LoopOK'
    BY <1>0, <1>8, AdvanceKeepsLoop DEF SeedOverdue, SeedRunning
  <2>2. DBTypeOK'
    BY <1>0, <1>8, MarkOverdueType DEF SeedOverdue
  <2> QED
    BY <2>1, <2>2 DEF TypeInv, TypeOK
<1>9. CASE SeedStatementFails
  <2> DEFINE t == After(sd)
  <2>1. sd' = [t EXCEPT !.fails = t.fails + 1] /\ SeedRunning /\ UNCHANGED dbVars
    BY <1>9 DEF SeedStatementFails
  <2>2. /\ t \in SeedState
        /\ t.pc = "regions" => t.i \in 1..NumRegions
        /\ t.pc = "types" => t.i \in 1..NumTypes
        /\ t.pc \in {"customers", "usage", "bills"} => t.i \in 1..NumCustomers
    BY <1>0, <2>1, AfterKeepsLoop
  <2> HIDE DEF t
  <2>3. sd' \in SeedState /\ sd'.pc = t.pc /\ sd'.i = t.i
    BY <2>1, <2>2 DEF SeedState
  <2>4. SeedTypeOK' /\ LoopOK'
    BY <2>2, <2>3 DEF SeedTypeOK, LoopOK
  <2>5. DBTypeOK'
    BY <1>0, <2>1 DEF DBTypeOK, dbVars
  <2> QED
    BY <2>4, <2>5 DEF TypeInv, TypeOK
<1>10. CASE SeedKilled
  <2>1. "idle" \in SeedPc
    BY DEF SeedPc
  <2>2. sd' \in SeedState /\ sd'.pc = "idle"
    BY <1>0, <1>10, <2>1, GotoStep DEF SeedKilled
  <2>3. SeedTypeOK' /\ LoopOK'
    BY <2>2 DEF SeedTypeOK, LoopOK
  <2>4. DBTypeOK'
    BY <1>0, <1>10 DEF SeedKilled, DBTypeOK, dbVars
  <2> QED
    BY <2>3, <2>4 DEF TypeInv, TypeOK
<1> QED
  BY <1>1, <1>2, <1>3, <1>4, <1>5, <1>6, <1>7, <1>8, <1>9, <1>10 DEF SeedNext, SeedStep

LEMMA AdminStepType ==
    ASSUME TypeInv, AdminNext
    PROVE  TypeInv'
<1>0. DBTypeOK /\ SeedTypeOK /\ LoopOK
  BY DEF TypeInv, TypeOK
<1>1. sd' = sd
  BY DEF AdminNext, PostCustomer, GetDeleteCustomer, MenuAddCustomer, MenuDeleteCustomer,
         MenuUpdateCustomer
<1>2. SeedTypeOK' /\ LoopOK'
  BY <1>0, <1>1 DEF SeedTypeOK, LoopOK
<1>3. DBTypeOK'
  <2>1. CASE PostCustomer \/ MenuAddCustomer
    BY <1>0, <2>1, InsertCustomerType DEF PostCustomer, MenuAddCustomer
  <2>2. CASE GetDeleteCustomer \/ MenuDeleteCustomer
    BY <1>0, <2>2, DeleteCustomerType DEF GetDeleteCustomer, MenuDeleteCustomer
  <2>3. CASE MenuUpdateCustomer
    BY <1>0, <2>3, UpdateCustomerRegionType DEF MenuUpdateCustomer
  <2> QED
    BY <2>1, <2>2, <2>3 DEF AdminNext
<1> QED
  BY <1>2, <1>3 DEF TypeInv, TypeOK

LEMMA InitType == Init => TypeInv
<1> SUFFICES ASSUME Init PROVE TypeInv
  OBVIOUS
<1>1. DBTypeOK
  BY EnergyDBAssumption DEF Init, DBInit, DBTypeOK
<1>2. SeedTypeOK /\ LoopOK
  BY DEF Init, SeedInit, SeedTypeOK, SeedState, SeedPc, LoopOK
<1> QED
  BY <1>1, <1>2 DEF TypeInv, TypeOK

\* The tables and the program of seed_data keep their types whatever the
\* number of customers, runs, failures and administrators' requests.
THEOREM TypeCorrect == Spec => []TypeOK
<1>1. TypeInv /\ [Next]_vars => TypeInv'
  <2> SUFFICES ASSUME TypeInv, [Next]_vars PROVE TypeInv'
    OBVIOUS
  <2>1. CASE Next
    BY <2>1, SeedStepType, AdminStepType DEF Next
  <2>2. CASE UNCHANGED vars
    BY <2>2 DEF vars, seedVars, dbVars, TypeInv, TypeOK, DBTypeOK, SeedTypeOK, LoopOK
  <2> QED
    BY <2>1, <2>2
<1>2. TypeInv => TypeOK
  BY DEF TypeInv
<1> QED
  BY InitType, <1>1, <1>2, PTL DEF Spec

-----------------------------------------------------------------------------
(* Customer ids: what bills, usage rows and at-risk rows name was handed   *)
(* out before.  The invariant says how far the ids have got at each loop   *)
(* of seed_data: i - 1 inserts done are i - 1 ids handed out, and an       *)
(* insert that fails for want of a rowid means all of them were.           *)

IdsAllocated == \A c \in customers : c.id <= custSeq

SeedAllocated ==
    MaxFails = 0 =>
      /\ sd.pc = "customers" => custSeq >= sd.i - 1
      /\ sd.pc \in {"types", "usage", "bills", "atRisk", "overdue"} => custSeq >= NumCustomers

RefInv == TypeInv /\ IdsAllocated /\ SeedAllocated /\ RefsAllocated

\* An insert into Customers hands out a fresh id or finds every rowid used.
LEMMA InsertCustomerAllocates ==
    ASSUME TypeInv, IdsAllocated, NEW r \in RegionIds, InsertCustomer(r)
    PROVE  /\ IdsAllocated'
           /\ custSeq' >= custSeq
           /\ custSeq' >= custSeq + 1 \/ custSeq' >= MaxRowid
           /\ \A c \in customers' : c.id > custSeq \/ c \in customers
           /\ UNCHANGED <<bills, usage, atRisk>>
<1>1. /\ custSeq \in Nat /\ MaxRowid \in Nat
      /\ \A c \in customers : c.id \in Nat
      /\ \A n \in Rowids : n \in Nat
  BY EnergyDBAssumption DEF TypeInv, TypeOK, DBTypeOK, CustomerRow, Rowids
<1>2. UNCHANGED <<bills, usage, atRisk>>
  BY DEF InsertCustomer, billVars, usageVars
<1>3. CASE \E n \in Rowids :
             /\ IsNextRowid(n, custSeq, Ids(customers))
             /\ customers' = customers \cup {[id |-> n, region |-> r]}
             /\ custSeq' = n
  <2>1. PICK n \in Rowids :
          /\ IsNextRowid(n, custSeq, Ids(customers))
          /\ customers' = customers \cup {[id |-> n, region |-> r]}
          /\ custSeq' = n
    BY <1>3
  <2>2. n > custSeq
    BY <2>1 DEF IsNextRowid
  <2> QED
    BY <1>1, <1>2, <2>1, <2>2 DEF IdsAllocated
<1>4. CASE RowidsExhausted(custSeq, Ids(customers)) /\ UNCHANGED customerVars
  <2>1. custSeq >= MaxRowid
    BY <1>1, <1>4 DEF RowidsExhausted, Ids, IdsAllocated
  <2> QED
    BY <1>1, <1>2, <1>4, <2>1 DEF customerVars, IdsAllocated
<1> QED
  BY <1>3, <1>4 DEF InsertCustomer

\* What each statement that writes a customer's number adds to Refs.
LEMMA InsertUsageRefs ==
    ASSUME NEW c, NEW t, InsertUsage(c, t)
    PROVE  Refs' \subseteq Refs \cup {c}
  BY DEF InsertUsage, Refs, CustomersOf, billVars, usageVars

LEMMA InsertBillRefs ==
    ASSUME NEW c, NEW a, NEW due, NEW paid, NEW s, InsertBill(c, a, due, paid, s)
    PROVE  Refs' \subseteq Refs \cup {c}
  BY DEF InsertBill, Refs, CustomersOf, billVars, usageVars

LEMMA InsertAtRiskRefs ==
    ASSUME NEW day, InsertAtRisk(day)
    PROVE  Refs' \subseteq Refs
<1>1. CustomersOf(atRisk') \subseteq CustomersOf(atRisk) \cup CustomersOf(bills)
  BY DEF InsertAtRisk, CustomersOf, LastPerCustomer, LateBills
<1> QED
  BY <1>1 DEF InsertAtRisk, Refs, CustomersOf, billVars, usageVars

LEMMA MarkOverdueRefs ==
    ASSUME DBTypeOK, NEW day, MarkOverdue(day)
    PROVE  Refs' \subseteq Refs
<1>1. \A b \in bills : [b EXCEPT !.status = "Overdue"].cust = b.cust
  BY DEF DBTypeOK, BillRow
<1>2. CustomersOf(bills') \subseteq CustomersOf(bills)
  BY <1>1 DEF MarkOverdue, CustomersOf
<1> QED
  BY <1>2 DEF MarkOverdue, Refs, CustomersOf, usageVars

\* A step that hands out no id and adds at most the number the loop is at.
LEMMA SeedWriteKeepsRefs ==
    ASSUME RefInv, SeedRunning, sd.pc \notin {"regions", "customers"},
           sd' = After(sd), UNCHANGED <<customers, custSeq>>,
           Refs' \subseteq Refs \/ (sd.pc \in {"usage", "bills"} /\ Refs' \subseteq Refs \cup {sd.i})
    PROVE  IdsAllocated' /\ SeedAllocated' /\ RefsAllocated'
<1>1. sd \in SeedState /\ sd.pc \notin {"idle", "done"}
  BY DEF RefInv, TypeInv, TypeOK, SeedTypeOK, SeedRunning
<1>2. IdsAllocated'
  BY DEF RefInv, IdsAllocated
<1>3. sd.pc \in {"types", "usage", "bills", "atRisk", "overdue"}
  BY <1>1 DEF SeedState, SeedPc
<1>4. After(sd).pc \notin {"customers"}
  <2>1. CASE sd.pc = "types"
    BY <1>1, <2>1, AfterStep DEF Moves
  <2>2. CASE sd.pc = "usage"
    BY <1>1, <2>2, AfterStep DEF Moves
  <2>3. CASE sd.pc = "bills"
    BY <1>1, <2>3, AfterStep DEF Moves
  <2>4. CASE sd.pc = "atRisk"
    BY <1>1, <2>4, AfterStep
  <2>5. CASE sd.pc = "overdue"
    BY <1>1, <2>5, AfterStep
  <2> QED
    BY <1>3, <2>1, <2>2, <2>3, <2>4, <2>5
<1>5. SeedAllocated'
  BY <1>3, <1>4 DEF RefInv, SeedAllocated
<1>6. ASSUME MaxFails = 0 PROVE Refs' \subseteq 1..custSeq
  <2>1. Refs \subseteq 1..custSeq /\ custSeq >= NumCustomers
    BY <1>3, <1>6 DEF RefInv, RefsAllocated, SeedAllocated
  <2>2. sd.pc \in {"usage", "bills"} => sd.i \in 1..NumCustomers
    BY DEF RefInv, TypeInv, LoopOK
  <2>3. custSeq \in Nat /\ NumCustomers \in Nat
    BY EnergyDBAssumption, SeedingAssumption DEF RefInv, TypeInv, TypeOK, DBTypeOK
  <2>4. sd.pc \in {"usage", "bills"} => sd.i \in 1..custSeq
    BY <2>1, <2>2, <2>3
  <2> QED
    BY <2>1, <2>4
<1> QED
  BY <1>2, <1>5, <1>6 DEF RefsAllocated

LEMMA SeedStepRefs ==
    ASSUME RefInv, SeedNext
    PROVE  IdsAllocated' /\ SeedAllocated' /\ RefsAllocated'
<1>0. /\ TypeInv /\ IdsAllocated /\ SeedAllocated /\ RefsAllocated
      /\ DBTypeOK /\ sd \in SeedState /\ custSeq \in Nat
  BY EnergyDBAssumption DEF RefInv, TypeInv, TypeOK, DBTypeOK, SeedTypeOK
<1>1. CASE StartSeed
  <2>1. sd'.pc = "regions" /\ UNCHANGED dbVars
    BY <1>1 DEF StartSeed
  <2> QED
    BY <1>0, <2>1 DEF dbVars, IdsAllocated, SeedAllocated, RefsAllocated, Refs
<1>2. CASE SeedRegion
  <2>1. /\ UNCHANGED <<customers, custSeq, bills, usage, atRisk>>
        /\ sd.pc = "regions" /\ sd' = After(sd)
    BY <1>2 DEF SeedRegion, InsertRegion, customerVars, billVars, usageVars
  <2>2. Moves(sd, sd', NumRegions, "customers")
    BY <1>0, <2>1, AfterStep
  <2>3. SeedAllocated'
    BY <1>0, <2>1, <2>2 DEF SeedAllocated, Moves
  <2> QED
    BY <1>0, <2>1, <2>3 DEF IdsAllocated, RefsAllocated, Refs
<1>3. CASE SeedCustomer
  <2>1. /\ sd.pc = "customers" /\ sd' = After(sd)
        /\ InsertCustomer(RegionOf(sd.i))
        /\ sd.i \in 1..NumCustomers
    BY <1>0, <1>3 DEF SeedCustomer, TypeInv, LoopOK
  <2>2. RegionOf(sd.i) \in RegionIds
    BY <2>1, SeedingAssumption
  <2>3. /\ IdsAllocated'
        /\ custSeq' >= custSeq
        /\ custSeq' >= custSeq + 1 \/ custSeq' >= MaxRowid
        /\ UNCHANGED <<bills, usage, atRisk>>
    BY <1>0, <2>1, <2>2, InsertCustomerAllocates
  <2>4. Moves(sd, sd', NumCustomers, "types")
    BY <1>0, <2>1, AfterStep
  <2>5. custSeq' \in Nat /\ NumCustomers \in 1..MaxRowid /\ MaxRowid \in Nat
    BY <1>3, SeedStepType, SeedingAssumption, EnergyDBAssumption
       DEF SeedNext, SeedStep, RefInv, TypeInv, TypeOK, DBTypeOK
  <2>6. SeedAllocated'
    <3>1. MaxFails = 0 => custSeq' >= sd.i
      BY <1>0, <2>1, <2>3, <2>5 DEF SeedAllocated
    <3> QED
      BY <1>0, <2>1, <2>4, <2>5, <3>1 DEF SeedAllocated, Moves
  <2>7. RefsAllocated'
    <3>1. Refs' = Refs
      BY <2>3 DEF Refs
    <3> QED
      BY <1>0, <2>3, <2>5, <3>1 DEF RefsAllocated
  <2> QED
    BY <2>3, <2>6, <2>7
<1>4. CASE SeedType
  <2>1. sd' = After(sd) /\ SeedRunning /\ sd.pc \notin {"regions", "customers"}
    BY <1>4 DEF SeedType, SeedRunning
  <2>2. UNCHANGED <<customers, custSeq>>
    BY <1>4 DEF SeedType, InsertType, customerVars
  <2>3. Refs' \subseteq Refs
    BY <1>4, <1>0 DEF SeedType, InsertType, Refs, billVars, usageVars
  <2> QED
    BY <2>1, <2>2, <2>3, SeedWriteKeepsRefs
<1>5. CASE SeedUsage
  <2>1. sd' = After(sd) /\ SeedRunning /\ sd.pc \notin {"regions", "customers"}
    BY <1>5 DEF SeedUsage, SeedRunning
  <2>2. UNCHANGED <<customers, custSeq>>
    BY <1>5 DEF SeedUsage, InsertUsage, customerVars
  <2>3. sd.pc \in {"usage", "bills"} /\ Refs' \subseteq Refs \cup {sd.i}
    BY <1>5, InsertUsageRefs DEF SeedUsage
  <2> QED
    BY <2>1, <2>2, <2>3, SeedWriteKeepsRefs
<1>6. CASE SeedBill
  <2>1. sd' = After(sd) /\ SeedRunning /\ sd.pc \notin {"regions", "customers"}
    BY <1>6 DEF SeedBill, SeedRunning
  <2>2. UNCHANGED <<customers, custSeq>>
    BY <1>6 DEF SeedBill, InsertBill, customerVars
  <2>3. sd.pc \in {"usage", "bills"} /\ Refs' \subseteq Refs \cup {sd.i}
    BY <1>6, InsertBillRefs DEF SeedBill
  <2> QED
    BY <2>1, <2>2, <2>3, SeedWriteKeepsRefs
<1>7. CASE SeedAtRisk
  <2>1. sd' = After(sd) /\ SeedRunning /\ sd.pc \notin {"regions", "customers"}
    BY <1>7 DEF SeedAtRisk, SeedRunning
  <2>2. UNCHANGED <<customers, custSeq>>
    BY <1>7 DEF SeedAtRisk, InsertAtRisk, customerVars
  <2>3. Refs' \subseteq Refs
    BY <1>7, InsertAtRiskRefs DEF SeedAtRisk
  <2> QED
    BY <2>1, <2>2, <2>3, SeedWriteKeepsRefs
<1>8. CASE SeedOverdue
  <2>1. sd' = After(sd) /\ SeedRunning /\ sd.pc \notin {"regions", "customers"}
    BY <1>8 DEF SeedOverdue, SeedRunning
  <2>2. UNCHANGED <<customers, custSeq>>
    BY <1>8 DEF SeedOverdue, MarkOverdue, customerVars
  <2>3. Refs' \subseteq Refs
    BY <1>8, <1>0, MarkOverdueRefs DEF SeedOverdue
  <2> QED
    BY <2>1, <2>2, <2>3, SeedWriteKeepsRefs
<1>9. CASE SeedStatementFails
  <2>1. MaxFails # 0 /\ UNCHANGED dbVars
    BY <1>0, <1>9 DEF SeedStatementFails, SeedState
  <2> QED
    BY <1>0, <2>1, SeedingAssumption DEF dbVars, IdsAllocated, SeedAllocated, RefsAllocated, Refs
<1>10. CASE SeedKilled
  <2>1. "idle" \in SeedPc
    BY DEF SeedPc
  <2>2. sd'.pc = "idle" /\ UNCHANGED dbVars
    BY <1>0, <1>10, <2>1, GotoStep DEF SeedKilled
  <2> QED
    BY <1>0, <2>2 DEF dbVars, IdsAllocated, SeedAllocated, RefsAllocated, Refs
<1> QED
  BY <1>1, <1>2, <1>3, <1>4, <1>5, <1>6, <1>7, <1>8, <1>9, <1>10 DEF SeedNext, SeedStep

LEMMA AdminStepRefs ==
    ASSUME RefInv, AdminNext
    PROVE  IdsAllocated' /\ SeedAllocated' /\ RefsAllocated'
<1>0. /\ TypeInv /\ IdsAllocated /\ SeedAllocated /\ RefsAllocated
      /\ sd' = sd /\ custSeq \in Nat
  BY EnergyDBAssumption
     DEF RefInv, TypeInv, TypeOK, DBTypeOK, AdminNext, PostCustomer, GetDeleteCustomer,
         MenuAddCustomer, MenuDeleteCustomer, MenuUpdateCustomer
<1>1. CASE PostCustomer \/ MenuAddCustomer
  <2>1. PICK r \in RegionIds : InsertCustomer(r)
    BY <1>1 DEF PostCustomer, MenuAddCustomer
  <2>2. /\ IdsAllocated' /\ custSeq' >= custSeq /\ UNCHANGED <<bills, usage, atRisk>>
    BY <1>0, <2>1, InsertCustomerAllocates
  <2>3. custSeq' \in Nat /\ NumCustomers \in Nat /\ sd.i \in Nat
    BY <1>0, <2>1, InsertCustomerType, EnergyDBAssumption, SeedingAssumption
       DEF TypeInv, TypeOK, DBTypeOK, SeedTypeOK, SeedState
  <2>4. SeedAllocated'
    BY <1>0, <2>2, <2>3 DEF SeedAllocated
  <2>5. Refs' = Refs
    BY <2>2 DEF Refs
  <2> QED
    BY <1>0, <2>2, <2>3, <2>4, <2>5 DEF RefsAllocated
<1>2. CASE GetDeleteCustomer \/ MenuDeleteCustomer
  <2>1. customers' \subseteq customers /\ UNCHANGED <<custSeq, bills, usage, atRisk>>
    BY <1>2 DEF GetDeleteCustomer, MenuDeleteCustomer, DeleteCustomer, billVars, usageVars
  <2> QED
    BY <1>0, <2>1 DEF IdsAllocated, SeedAllocated, RefsAllocated, Refs
<1>3. CASE MenuUpdateCustomer
  <2>1. PICK id \in Rowids, r \in RegionIds : UpdateCustomerRegion(id, r)
    BY <1>3 DEF MenuUpdateCustomer
  <2>2. \A c \in customers : [c EXCEPT !.region = r].id = c.id
    BY <1>0 DEF TypeInv, TypeOK, DBTypeOK, CustomerRow
  <2>3. IdsAllocated'
    BY <1>0, <2>1, <2>2 DEF UpdateCustomerRegion, IdsAllocated
  <2>4. UNCHANGED <<custSeq, bills, usage, atRisk>>
    BY <2>1 DEF UpdateCustomerRegion, billVars, usageVars
  <2> QED
    BY <1>0, <2>3, <2>4 DEF SeedAllocated, RefsAllocated, Refs
<1> QED
  BY <1>1, <1>2, <1>3 DEF AdminNext

LEMMA RefInvHolds == Spec => []RefInv
<1>1. Init => RefInv
  <2> SUFFICES ASSUME Init PROVE RefInv
    OBVIOUS
  <2>1. IdsAllocated /\ SeedAllocated
    BY DEF Init, DBInit, SeedInit, IdsAllocated, SeedAllocated
  <2>2. Refs = {}
    BY DEF Init, DBInit, Refs, CustomersOf
  <2> QED
    BY InitType, <2>1, <2>2 DEF RefInv, RefsAllocated
<1>2. RefInv /\ [Next]_vars => RefInv'
  <2> SUFFICES ASSUME RefInv, [Next]_vars PROVE RefInv'
    OBVIOUS
  <2>1. CASE SeedNext
    BY <2>1, SeedStepType, SeedStepRefs DEF RefInv
  <2>2. CASE AdminNext
    BY <2>2, AdminStepType, AdminStepRefs DEF RefInv
  <2>3. CASE UNCHANGED vars
    BY <2>3 DEF vars, seedVars, dbVars, RefInv, TypeInv, TypeOK, DBTypeOK, SeedTypeOK, LoopOK,
                IdsAllocated, SeedAllocated, RefsAllocated, Refs
  <2> QED
    BY <2>1, <2>2, <2>3 DEF Next
<1> QED
  BY <1>1, <1>2, PTL DEF Spec

\* The numbers 1..500 of seed_data are ids some customer was given, at every
\* moment of every run, however administrators add and delete customers.
THEOREM ReferencesAreAllocated == Spec => []RefsAllocated
<1>1. RefInv => RefsAllocated
  BY DEF RefInv
<1> QED
  BY RefInvHolds, <1>1, PTL

\* A customer just added finds no bill, usage or at-risk row under its id.
THEOREM CleanSlate == Spec => NewCustomerHasCleanSlate
<1> DEFINE Fresh == Ids(customers') \ Ids(customers)
<1>1. ASSUME RefInv, NEW r \in RegionIds, InsertCustomer(r), MaxFails = 0
      PROVE  Refs \cap Fresh = {}
  <2>1. \A c \in customers' : c.id > custSeq \/ c \in customers
    BY <1>1, InsertCustomerAllocates DEF RefInv
  <2>2. \A n \in Fresh : n > custSeq
    BY <2>1 DEF Ids
  <2>3. Refs \subseteq 1..custSeq /\ custSeq \in Nat
    BY <1>1, EnergyDBAssumption DEF RefInv, RefsAllocated, TypeInv, TypeOK, DBTypeOK
  <2> HIDE DEF Fresh
  <2>4. \A n \in Refs : ~(n > custSeq)
    BY <2>3
  <2> QED
    BY <2>2, <2>4
<1>2. ASSUME RefInv, Next, MaxFails = 0
      PROVE  Refs \cap Fresh = {}
  <2>1. CASE PostCustomer \/ MenuAddCustomer
    BY <1>1, <1>2, <2>1 DEF PostCustomer, MenuAddCustomer
  <2>2. CASE SeedCustomer
    <3>1. RegionOf(sd.i) \in RegionIds
      BY <1>2, <2>2, SeedingAssumption DEF SeedCustomer, RefInv, TypeInv, LoopOK
    <3> QED
      BY <1>1, <1>2, <2>2, <3>1 DEF SeedCustomer
  <2>3. CASE GetDeleteCustomer \/ MenuDeleteCustomer
    BY <2>3 DEF GetDeleteCustomer, MenuDeleteCustomer, DeleteCustomer, Ids
  <2>4. CASE MenuUpdateCustomer
    <3>1. PICK id \in Rowids, r \in RegionIds : UpdateCustomerRegion(id, r)
      BY <2>4 DEF MenuUpdateCustomer
    <3>2. \A c \in customers : [c EXCEPT !.region = r].id = c.id
      BY <1>2 DEF RefInv, TypeInv, TypeOK, DBTypeOK, CustomerRow
    <3> QED
      BY <3>1, <3>2 DEF UpdateCustomerRegion, Ids
  <2>5. ASSUME customers' = customers PROVE Refs \cap Fresh = {}
    BY <2>5
  <2>6. CASE StartSeed \/ SeedStatementFails \/ SeedKilled
    BY <2>5, <2>6 DEF StartSeed, SeedStatementFails, SeedKilled, dbVars
  <2>7. CASE SeedRegion \/ SeedType
    BY <2>5, <2>7 DEF SeedRegion, SeedType, InsertRegion, InsertType, customerVars
  <2>8. CASE SeedUsage
    BY <2>5, <2>8 DEF SeedUsage, InsertUsage, customerVars
  <2>9. CASE SeedBill
    BY <2>5, <2>9 DEF SeedBill, InsertBill, customerVars
  <2>10. CASE SeedAtRisk \/ SeedOverdue
    BY <2>5, <2>10 DEF SeedAtRisk, SeedOverdue, InsertAtRisk, MarkOverdue, customerVars
  <2> HIDE DEF Fresh
  <2> QED
    BY <1>2, <2>1, <2>2, <2>3, <2>4, <2>6, <2>7, <2>8, <2>9, <2>10
       DEF Next, AdminNext, SeedNext, SeedStep
<1>3. ASSUME RefInv, [Next]_vars
      PROVE  [CleanSlateStep]_vars
  BY <1>2, <1>3 DEF CleanSlateStep
<1> QED
  BY RefInvHolds, <1>3, PTL DEF Spec, NewCustomerHasCleanSlate

-----------------------------------------------------------------------------
(* checkOverduePayments: data                                              *)

\* A non-empty set of rowids has a largest one.
LEMMA HasLargest ==
    ASSUME NEW N \in Nat, NEW S \in SUBSET (1..N), S # {}
    PROVE  \E m \in S : \A k \in S : k <= m
<1> DEFINE T == {N - k : k \in S}
<1>1. T \subseteq Nat
  OBVIOUS
<1>2. T # {}
  OBVIOUS
<1> DEFINE R == OpToRel(<, Nat)
<1>3. IsWellFoundedOn(R, Nat)
  BY NatLessThanWellFounded
<1>4. \A x, y \in Nat : x < y => <<x, y>> \in R
  BY DEF OpToRel
<1> HIDE DEF R
<1>5. PICK x \in T : \A y \in T : <<y, x>> \notin R
  <2> HIDE DEF T
  <2> QED
    BY <1>1, <1>2, <1>3, WFMin
<1>6. PICK m \in S : x = N - m
  BY <1>5
<1>7. ASSUME NEW k \in S PROVE k <= m
  <2>1. N - k \in T /\ N - k \in Nat /\ N - m \in Nat
    BY <1>1
  <2>2. ~(N - k < N - m)
    BY <1>4, <1>5, <1>6, <2>1
  <2> QED
    BY <2>2
<1> QED
  BY <1>7

\* Every customer with a late bill has a last late bill.
LEMMA LastExists ==
    ASSUME DBTypeOK, NEW day, NEW b \in LateBills(day)
    PROVE  \E d \in LastPerCustomer(LateBills(day)) : d.cust = b.cust
<1> DEFINE D == {d \in LateBills(day) : d.cust = b.cust}
           S == {d.id : d \in D}
<1>1. \A d \in LateBills(day) : d.id \in 1..MaxRowid
  BY DEF DBTypeOK, LateBills, BillRow, Rowids
<1>2. S \in SUBSET (1..MaxRowid)
  BY <1>1
<1>3. S # {}
  OBVIOUS
<1>4. MaxRowid \in Nat
  BY EnergyDBAssumption
<1>5. PICK m \in S : \A k \in S : k <= m
  <2> HIDE DEF S
  <2> QED
    BY <1>2, <1>3, <1>4, HasLargest
<1>6. PICK d \in D : d.id = m
  BY <1>5
<1>7. \A e \in LateBills(day) : e.cust = d.cust => e.id <= d.id
  BY <1>5, <1>6
<1> QED
  BY <1>6, <1>7 DEF LastPerCustomer

\* No two bills have the same id.
BillIdsUnique == \A b, d \in bills : b.id = d.id => b = d

LEMMA InsertBillStep ==
    ASSUME DBTypeOK, BillIdsUnique, NEW c, NEW a, NEW due, NEW paid, NEW s,
           InsertBill(c, a, due, paid, s)
    PROVE  /\ BillIdsUnique'
           /\ bills \subseteq bills'
           /\ \A b \in bills' : b \in bills \/ b.status = s
           /\ atRisk' = atRisk
<1>1. atRisk' = atRisk
  BY DEF InsertBill
<1>2. CASE UNCHANGED billVars
  BY <1>1, <1>2 DEF billVars, BillIdsUnique
<1>3. CASE ~UNCHANGED billVars
  <2>1. PICK n \in Rowids :
          /\ IsNextRowid(n, billSeq, Ids(bills))
          /\ bills' = bills \cup {[id |-> n, cust |-> c, amount |-> a,
                                   due |-> due, paid |-> paid, status |-> s]}
    BY <1>3 DEF InsertBill
  <2>2. \A b \in bills : n > b.id /\ b.id \in Nat /\ n \in Nat
    BY <2>1 DEF IsNextRowid, Ids, DBTypeOK, BillRow, Rowids
  <2>3. \A b \in bills : b.id # n
    BY <2>2
  <2>4. BillIdsUnique'
    BY <2>1, <2>3 DEF BillIdsUnique
  <2> QED
    BY <1>1, <2>1, <2>4
<1> QED
  BY <1>2, <1>3

LEMMA MarkOverdueStep ==
    ASSUME DBTypeOK, BillIdsUnique, NEW day, MarkOverdue(day)
    PROVE  /\ BillIdsUnique'
           /\ atRisk' = atRisk
           /\ \A b \in bills : b \in bills' \/ (IsLate(b, day) /\ [b EXCEPT !.status = "Overdue"] \in bills')
           /\ \A b \in bills' :
                \/ b \in bills /\ ~IsLate(b, day)
                \/ \E d \in LateBills(day) : b = [d EXCEPT !.status = "Overdue"]
<1>1. \A b \in bills : [b EXCEPT !.status = "Overdue"].id = b.id
  BY DEF DBTypeOK, BillRow
<1>2. atRisk' = atRisk
  BY DEF MarkOverdue
<1>3. \A b \in bills' :
        \/ b \in bills /\ ~IsLate(b, day)
        \/ \E d \in LateBills(day) : b = [d EXCEPT !.status = "Overdue"]
  BY DEF MarkOverdue, LateBills
<1>4. \A b \in bills : b \in bills' \/ (IsLate(b, day) /\ [b EXCEPT !.status = "Overdue"] \in bills')
  BY DEF MarkOverdue
<1>5. BillIdsUnique'
  <2> DEFINE Mark(x) == IF IsLate(x, day) THEN [x EXCEPT !.status = "Overdue"] ELSE x
  <2>1. \A x \in bills : Mark(x).id = x.id
    BY <1>1
  <2>2. \A x \in bills' : \E y \in bills : x = Mark(y)
    BY DEF MarkOverdue
  <2> HIDE DEF Mark
  <2> QED
    BY <2>1, <2>2 DEF BillIdsUnique
<1> QED
  BY <1>2, <1>3, <1>4, <1>5

LEMMA InsertAtRiskStep ==
    ASSUME DBTypeOK, BillIdsUnique, NEW day, InsertAtRisk(day)
    PROVE  /\ bills' = bills
           /\ \A b \in LastPerCustomer(LateBills(day)) :
                 [cust |-> b.cust, amount |-> b.amount] \in atRisk'
           /\ \A b \in LateBills(day) : b.cust \in CustomersOf(atRisk')
           /\ CustomersOf(atRisk) \subseteq CustomersOf(atRisk')
           /\ \A r \in atRisk' :
                \/ r \in atRisk /\ r.cust \notin CustomersOf(LateBills(day))
                \/ \E b \in LastPerCustomer(LateBills(day)) :
                      r = [cust |-> b.cust, amount |-> b.amount]
<1>1. bills' = bills
  BY DEF InsertAtRisk, billVars
<1>2. \A b \in LastPerCustomer(LateBills(day)) : [cust |-> b.cust, amount |-> b.amount] \in atRisk'
  BY DEF InsertAtRisk
<1>3. \A b \in LateBills(day) : b.cust \in CustomersOf(atRisk')
  <2> SUFFICES ASSUME NEW b \in LateBills(day) PROVE b.cust \in CustomersOf(atRisk')
    OBVIOUS
  <2>1. PICK d \in LastPerCustomer(LateBills(day)) : d.cust = b.cust
    BY LastExists
  <2>2. [cust |-> d.cust, amount |-> d.amount].cust = b.cust
    BY <2>1
  <2> QED
    BY <1>2, <2>1, <2>2 DEF CustomersOf
<1>4. \A r \in atRisk' :
        \/ r \in atRisk /\ r.cust \notin CustomersOf(LateBills(day))
        \/ \E b \in LastPerCustomer(LateBills(day)) : r = [cust |-> b.cust, amount |-> b.amount]
  BY DEF InsertAtRisk
<1>5. CustomersOf(atRisk) \subseteq CustomersOf(atRisk')
  <2> SUFFICES ASSUME NEW r \in atRisk PROVE r.cust \in CustomersOf(atRisk')
    BY DEF CustomersOf
  <2>1. CASE r.cust \in CustomersOf(LateBills(day))
    BY <1>3, <2>1 DEF CustomersOf
  <2>2. CASE r.cust \notin CustomersOf(LateBills(day))
    BY <2>2 DEF InsertAtRisk, CustomersOf
  <2> QED
    BY <2>1, <2>2
<1> QED
  BY <1>1, <1>2, <1>3, <1>4, <1>5

-----------------------------------------------------------------------------
(* The invariant of the overdue check.                                     *)

\* At the second statement of the check, the first one is known to have
\* covered every late bill; after it, every late bill is marked too.
CheckProgress ==
    /\ sd.pc = "overdue" /\ sd.fails = 0 =>
         \A b \in LastPerCustomer(LateBills(CheckDay)) :
            [cust |-> b.cust, amount |-> b.amount] \in atRisk
    /\ MaxFails = 0 /\ sd.pc = "overdue" =>
         \A b \in LateBills(CheckDay) : b.cust \in CustomersOf(atRisk)

CheckInv ==
    /\ TypeInv /\ BillIdsUnique
    /\ AtRiskJustified /\ OneRiskPerCustomer /\ OverdueHasAtRisk
    /\ CheckProgress /\ CheckComplete

\* A step that touches neither bills nor at-risk rows and does not move the
\* program to the end of the check.
LEMMA OtherStepKeepsCheck ==
    ASSUME CheckInv, UNCHANGED <<bills, atRisk>>,
           \/ sd'.pc \notin {"overdue", "done"}
           \/ sd' = sd
           \/ MaxFails # 0 /\ sd'.fails # 0
    PROVE  /\ BillIdsUnique' /\ AtRiskJustified' /\ OneRiskPerCustomer' /\ OverdueHasAtRisk'
           /\ CheckProgress' /\ CheckComplete'
<1>1. BillIdsUnique' /\ AtRiskJustified' /\ OneRiskPerCustomer' /\ OverdueHasAtRisk'
  BY DEF CheckInv, BillIdsUnique, AtRiskJustified, OneRiskPerCustomer, OverdueHasAtRisk,
         LateBills, CustomersOf
<1>2. LateBills(CheckDay)' = LateBills(CheckDay) /\ CustomersOf(atRisk)' = CustomersOf(atRisk)
  BY DEF LateBills, CustomersOf
<1>3. CheckProgress'
  BY <1>2 DEF CheckInv, CheckProgress
<1>4. CheckComplete'
  BY <1>2 DEF CheckInv, CheckComplete
<1> QED
  BY <1>1, <1>3, <1>4

LEMMA SeedBillKeepsCheck ==
    ASSUME CheckInv, SeedBill
    PROVE  /\ BillIdsUnique' /\ AtRiskJustified' /\ OneRiskPerCustomer' /\ OverdueHasAtRisk'
           /\ CheckProgress' /\ CheckComplete'
<1>1. PICK amount \in Amounts :
        \/ InsertBill(sd.i, amount, 32, NoDate, "Unpaid")
        \/ InsertBill(sd.i, amount, 161, 159, "Paid")
        \/ InsertBill(sd.i, amount, 197, NoDate, "Unpaid")
  BY DEF SeedBill
<1>2. /\ BillIdsUnique'
      /\ bills \subseteq bills'
      /\ \A b \in bills' : b \in bills \/ b.status # "Overdue"
      /\ atRisk' = atRisk
  BY <1>1, InsertBillStep DEF CheckInv, TypeInv, TypeOK
<1>3. sd'.pc \notin {"overdue", "done"}
  <2>1. sd \in SeedState /\ sd.pc = "bills" /\ sd' = After(sd)
    BY DEF CheckInv, TypeInv, TypeOK, SeedTypeOK, SeedBill
  <2>2. Moves(sd, sd', NumCustomers, "atRisk")
    BY <2>1, AfterStep
  <2> QED
    BY <2>1, <2>2 DEF Moves
<1>4. AtRiskJustified'
  BY <1>2 DEF CheckInv, AtRiskJustified, LateBills
<1>5. OneRiskPerCustomer'
  BY <1>2 DEF CheckInv, OneRiskPerCustomer
<1>6. OverdueHasAtRisk'
  BY <1>2 DEF CheckInv, OverdueHasAtRisk
<1> QED
  BY <1>2, <1>3, <1>4, <1>5, <1>6 DEF CheckProgress, CheckComplete

LEMMA SeedAtRiskKeepsCheck ==
    ASSUME CheckInv, SeedAtRisk
    PROVE  /\ BillIdsUnique' /\ AtRiskJustified' /\ OneRiskPerCustomer' /\ OverdueHasAtRisk'
           /\ CheckProgress' /\ CheckComplete'
<1>0. DBTypeOK /\ BillIdsUnique /\ sd \in SeedState /\ InsertAtRisk(CheckDay)
  BY DEF CheckInv, TypeInv, TypeOK, SeedTypeOK, SeedAtRisk
<1>1. /\ bills' = bills
      /\ \A b \in LastPerCustomer(LateBills(CheckDay)) :
            [cust |-> b.cust, amount |-> b.amount] \in atRisk'
      /\ \A b \in LateBills(CheckDay) : b.cust \in CustomersOf(atRisk')
      /\ CustomersOf(atRisk) \subseteq CustomersOf(atRisk')
  BY <1>0, InsertAtRiskStep
<1>2. \A r \in atRisk' :
         \/ r \in atRisk /\ r.cust \notin CustomersOf(LateBills(CheckDay))
         \/ \E b \in LastPerCustomer(LateBills(CheckDay)) : r = [cust |-> b.cust, amount |-> b.amount]
  BY <1>0, InsertAtRiskStep
<1>3. LateBills(CheckDay)' = LateBills(CheckDay)
  BY <1>1 DEF LateBills
<1>4. sd'.pc = "overdue"
  BY <1>0, AfterStep DEF SeedAtRisk
<1>5. AtRiskJustified'
  <2>1. \A b \in LastPerCustomer(LateBills(CheckDay)) : b \in LateBills(CheckDay)
    BY DEF LastPerCustomer
  <2> QED
    BY <1>2, <1>3, <2>1 DEF CheckInv, AtRiskJustified
<1>6. OneRiskPerCustomer'
  <2> SUFFICES ASSUME NEW r1 \in atRisk', NEW r2 \in atRisk', r1.cust = r2.cust
               PROVE  r1 = r2
    BY DEF OneRiskPerCustomer
  <2>1. \A b \in LastPerCustomer(LateBills(CheckDay)) :
          /\ b \in bills /\ b \in LateBills(CheckDay) /\ b.id \in Nat
          /\ b.cust \in CustomersOf(LateBills(CheckDay))
    BY <1>0 DEF LastPerCustomer, LateBills, CustomersOf, DBTypeOK, BillRow, Rowids
  <2>2. ASSUME NEW b \in LastPerCustomer(LateBills(CheckDay)),
               NEW d \in LastPerCustomer(LateBills(CheckDay)), b.cust = d.cust
        PROVE  b = d
    <3>1. b.id <= d.id /\ d.id <= b.id
      BY <2>1, <2>2 DEF LastPerCustomer
    <3>2. b.id = d.id
      BY <2>1, <3>1
    <3> QED
      BY <1>0, <2>1, <3>2 DEF BillIdsUnique
  <2>3. CASE r1 \in atRisk /\ r2 \in atRisk
    BY <2>3 DEF CheckInv, OneRiskPerCustomer
  <2>4. CASE r1 \notin atRisk \/ r2 \notin atRisk
    <3>1. r1.cust \in CustomersOf(LateBills(CheckDay))
      BY <1>2, <2>1, <2>4
    <3>2. PICK b \in LastPerCustomer(LateBills(CheckDay)) : r1 = [cust |-> b.cust, amount |-> b.amount]
      BY <1>2, <3>1
    <3>3. PICK d \in LastPerCustomer(LateBills(CheckDay)) : r2 = [cust |-> d.cust, amount |-> d.amount]
      BY <1>2, <3>1
    <3>4. b.cust = d.cust
      BY <3>2, <3>3
    <3> QED
      BY <2>2, <3>2, <3>3, <3>4
  <2> QED
    BY <2>3, <2>4
<1>7. OverdueHasAtRisk'
  BY <1>1 DEF CheckInv, OverdueHasAtRisk
<1>8. CheckProgress'
  BY <1>1, <1>3 DEF CheckProgress
<1>9. BillIdsUnique'
  BY <1>0, <1>1 DEF BillIdsUnique
<1> QED
  BY <1>4, <1>5, <1>6, <1>7, <1>8, <1>9 DEF CheckComplete

LEMMA SeedOverdueKeepsCheck ==
    ASSUME CheckInv, SeedOverdue
    PROVE  /\ BillIdsUnique' /\ AtRiskJustified' /\ OneRiskPerCustomer' /\ OverdueHasAtRisk'
           /\ CheckProgress' /\ CheckComplete'
<1> DEFINE M(b) == [b EXCEPT !.status = "Overdue"]
           Late == LateBills(CheckDay)
<1>0. /\ DBTypeOK /\ BillIdsUnique /\ sd \in SeedState /\ MarkOverdue(CheckDay)
      /\ sd.pc = "overdue" /\ sd' = After(sd)
  BY DEF CheckInv, TypeInv, TypeOK, SeedTypeOK, SeedOverdue
<1>1. /\ BillIdsUnique'
      /\ atRisk' = atRisk
      /\ \A b \in bills : b \in bills' \/ (IsLate(b, CheckDay) /\ M(b) \in bills')
      /\ \A b \in bills' : (b \in bills /\ ~IsLate(b, CheckDay)) \/ \E d \in Late : b = M(d)
  BY <1>0, MarkOverdueStep
<1>2. sd'.pc = "done" /\ sd'.fails = sd.fails
  BY <1>0, AfterStep
<1>3. \A b \in bills : /\ M(b).status = "Overdue" /\ M(b).due = b.due /\ M(b).cust = b.cust
                       /\ M(b).id = b.id /\ M(b).amount = b.amount /\ b.id \in Nat
  BY <1>0 DEF DBTypeOK, BillRow, Rowids
<1>4. \A d \in Late : d \in bills /\ IsLate(d, CheckDay)
  BY DEF LateBills
<1>5. \A d \in Late : M(d) \in Late'
  <2> SUFFICES ASSUME NEW d \in Late PROVE M(d) \in Late'
    OBVIOUS
  <2>1. M(d) \in bills'
    BY <1>0, <1>4 DEF MarkOverdue
  <2>2. IsLate(M(d), CheckDay)
    BY <1>3, <1>4 DEF IsLate
  <2> QED
    BY <2>1, <2>2 DEF LateBills
<1>6. \A b \in Late' : \E d \in Late : b = M(d)
  BY <1>1 DEF LateBills
<1> HIDE DEF M
<1>7. AtRiskJustified'
  BY <1>1, <1>3, <1>4, <1>5 DEF CheckInv, AtRiskJustified
<1>8. OneRiskPerCustomer'
  BY <1>1 DEF CheckInv, OneRiskPerCustomer
<1>9. OverdueHasAtRisk'
  <2> SUFFICES ASSUME MaxFails = 0, NEW b \in bills', b.status = "Overdue"
               PROVE  b.cust \in CustomersOf(atRisk')
    BY DEF OverdueHasAtRisk
  <2>1. CASE b \in bills
    BY <1>1, <2>1 DEF CheckInv, OverdueHasAtRisk
  <2>2. CASE \E d \in Late : b = M(d)
    BY <1>0, <1>1, <1>3, <1>4, <2>2 DEF CheckInv, CheckProgress
  <2> QED
    BY <1>1, <2>1, <2>2
<1>10. CheckProgress'
  BY <1>2 DEF CheckProgress
<1>11. CheckComplete'
  <2> SUFFICES ASSUME sd.fails = 0, NEW b \in Late'
               PROVE  /\ b.status = "Overdue"
                      /\ b \in LastPerCustomer(Late)' =>
                           [cust |-> b.cust, amount |-> b.amount] \in atRisk'
    BY <1>2 DEF CheckComplete
  <2>1. PICK d \in Late : b = M(d)
    BY <1>6
  <2>2. b.status = "Overdue" /\ b.cust = d.cust /\ b.id = d.id /\ b.amount = d.amount
    BY <1>3, <1>4, <2>1
  <2>3. ASSUME b \in LastPerCustomer(Late)'
        PROVE  [cust |-> b.cust, amount |-> b.amount] \in atRisk'
    <3>1. \A e \in Late' : e.cust = b.cust => e.id <= b.id
      BY <2>3 DEF LastPerCustomer
    <3>2. \A e \in Late : e.cust = d.cust => e.id <= d.id
      <4> SUFFICES ASSUME NEW e \in Late, e.cust = d.cust PROVE e.id <= d.id
        OBVIOUS
      <4>1. M(e) \in Late' /\ M(e).cust = b.cust /\ M(e).id = e.id
        BY <1>3, <1>4, <1>5, <2>2
      <4> QED
        BY <2>2, <3>1, <4>1
    <3>3. d \in LastPerCustomer(Late)
      BY <3>2 DEF LastPerCustomer
    <3> QED
      BY <1>0, <1>1, <2>2, <3>3 DEF CheckInv, CheckProgress
  <2> QED
    BY <2>2, <2>3
<1> QED
  BY <1>1, <1>7, <1>8, <1>9, <1>10, <1>11

LEMMA CheckInvHolds == Spec => []CheckInv
<1>1. Init => CheckInv
  <2> SUFFICES ASSUME Init PROVE CheckInv
    OBVIOUS
  <2>1. bills = {} /\ atRisk = {} /\ sd.pc = "idle"
    BY DEF Init, DBInit, SeedInit
  <2> QED
    BY <2>1, InitType DEF CheckInv, BillIdsUnique, AtRiskJustified, OneRiskPerCustomer,
                          OverdueHasAtRisk, CheckProgress, CheckComplete
<1>2. CheckInv /\ [Next]_vars => CheckInv'
  <2> SUFFICES ASSUME CheckInv, [Next]_vars PROVE CheckInv'
    OBVIOUS
  <2>0. TypeInv /\ sd \in SeedState
    BY DEF CheckInv, TypeInv, TypeOK, SeedTypeOK
  <2>1. TypeInv'
    <3>1. CASE Next
      BY <2>0, <3>1, SeedStepType, AdminStepType DEF Next
    <3>2. CASE UNCHANGED vars
      BY <2>0, <3>2 DEF vars, seedVars, dbVars, TypeInv, TypeOK, DBTypeOK, SeedTypeOK, LoopOK
    <3> QED
      BY <3>1, <3>2
  <2>2. CASE StartSeed
    <3>1. UNCHANGED <<bills, atRisk>> /\ sd'.pc = "regions"
      BY <2>2 DEF StartSeed, dbVars
    <3> QED
      BY <2>1, <3>1, OtherStepKeepsCheck DEF CheckInv
  <2>3. CASE SeedRegion
    <3>1. UNCHANGED <<bills, atRisk>> /\ Moves(sd, sd', NumRegions, "customers") /\ sd.pc = "regions"
      BY <2>0, <2>3, AfterStep DEF SeedRegion, InsertRegion, billVars
    <3> QED
      BY <2>1, <3>1, OtherStepKeepsCheck DEF CheckInv, Moves
  <2>4. CASE SeedCustomer
    <3>1. UNCHANGED <<bills, atRisk>> /\ Moves(sd, sd', NumCustomers, "types") /\ sd.pc = "customers"
      BY <2>0, <2>4, AfterStep DEF SeedCustomer, InsertCustomer, billVars
    <3> QED
      BY <2>1, <3>1, OtherStepKeepsCheck DEF CheckInv, Moves
  <2>5. CASE SeedType
    <3>1. UNCHANGED <<bills, atRisk>> /\ Moves(sd, sd', NumTypes, "usage") /\ sd.pc = "types"
      BY <2>0, <2>5, AfterStep DEF SeedType, InsertType, billVars
    <3> QED
      BY <2>1, <3>1, OtherStepKeepsCheck DEF CheckInv, Moves
  <2>6. CASE SeedUsage
    <3>1. UNCHANGED <<bills, atRisk>> /\ sd.pc = "usage"
          /\ (sd'.pc = "usage" \/ Moves(sd, sd', NumCustomers, "bills"))
      BY <2>0, <2>6, AfterStep DEF SeedUsage, InsertUsage, billVars
    <3> QED
      BY <2>1, <3>1, OtherStepKeepsCheck DEF CheckInv, Moves
  <2>7. CASE SeedBill
    BY <2>1, <2>7, SeedBillKeepsCheck DEF CheckInv
  <2>8. CASE SeedAtRisk
    BY <2>1, <2>8, SeedAtRiskKeepsCheck DEF CheckInv
  <2>9. CASE SeedOverdue
    BY <2>1, <2>9, SeedOverdueKeepsCheck DEF CheckInv
  <2>10. CASE SeedStatementFails
    <3> DEFINE t == After(sd)
    <3>1. /\ UNCHANGED <<bills, atRisk>> /\ SeedRunning /\ sd.fails < MaxFails
          /\ sd' = [t EXCEPT !.fails = t.fails + 1]
      BY <2>10 DEF SeedStatementFails, dbVars
    <3>2. t \in SeedState /\ t.fails = sd.fails
      BY <2>0, <3>1, AfterStep DEF SeedRunning
    <3> HIDE DEF t
    <3>3. sd'.fails # 0 /\ MaxFails # 0
      BY <2>0, <3>1, <3>2, SeedingAssumption DEF SeedState
    <3> QED
      BY <2>1, <3>1, <3>3, OtherStepKeepsCheck DEF CheckInv
  <2>11. CASE SeedKilled
    <3>1. "idle" \in SeedPc
      BY DEF SeedPc
    <3>2. UNCHANGED <<bills, atRisk>> /\ sd'.pc = "idle"
      BY <2>0, <2>11, <3>1, GotoStep DEF SeedKilled, dbVars
    <3> QED
      BY <2>1, <3>2, OtherStepKeepsCheck DEF CheckInv
  <2>12. CASE AdminNext
    <3>1. UNCHANGED <<bills, atRisk>> /\ sd' = sd
      BY <2>12 DEF AdminNext, PostCustomer, GetDeleteCustomer, MenuAddCustomer,
                   MenuDeleteCustomer, MenuUpdateCustomer, InsertCustomer, DeleteCustomer,
                   UpdateCustomerRegion, billVars
    <3> QED
      BY <2>1, <3>1, OtherStepKeepsCheck DEF CheckInv
  <2>13. CASE UNCHANGED vars
    <3>1. UNCHANGED <<bills, atRisk>> /\ sd' = sd
      BY <2>13 DEF vars, seedVars, dbVars
    <3> QED
      BY <2>1, <3>1, OtherStepKeepsCheck DEF CheckInv
  <2> QED
    BY <2>2, <2>3, <2>4, <2>5, <2>6, <2>7, <2>8, <2>9, <2>10, <2>11, <2>12, <2>13
       DEF Next, SeedNext, SeedStep
<1> QED
  BY <1>1, <1>2, PTL DEF Spec

-----------------------------------------------------------------------------
(* Theorems                                                                *)

\* A run of seed_data without a failed statement leaves every late bill
\* Overdue and every customer with one at risk for the last one's amount.
THEOREM CheckIsComplete == Spec => []CheckComplete
<1>1. CheckInv => CheckComplete
  BY DEF CheckInv
<1> QED
  BY CheckInvHolds, <1>1, PTL

\* An at-risk row always stands for a late bill of that amount, also when
\* statements fail or the program is killed half way.
THEOREM AtRiskIsJustified == Spec => []AtRiskJustified
<1>1. CheckInv => AtRiskJustified
  BY DEF CheckInv
<1> QED
  BY CheckInvHolds, <1>1, PTL

\* The order of the check's two statements is crash safe: an Overdue bill
\* always has its at-risk customer.
THEOREM OverdueIsAtRisk == Spec => []OverdueHasAtRisk
<1>1. CheckInv => OverdueHasAtRisk
  BY DEF CheckInv
<1> QED
  BY CheckInvHolds, <1>1, PTL

\* A customer has one at-risk row however many late bills there are.
THEOREM RiskIsUnique == Spec => []OneRiskPerCustomer
<1>1. CheckInv => OneRiskPerCustomer
  BY DEF CheckInv
<1> QED
  BY CheckInvHolds, <1>1, PTL

\* A bill is never taken back, re-priced or re-dated, and only a late Unpaid
\* one becomes Overdue: Paid is final.
THEOREM IssuedBillsAreFinal == Spec => BillsAreFinal
<1>1. ASSUME CheckInv, SeedBill PROVE BillsAreFinalStep
  <2>1. PICK amount \in Amounts :
          \/ InsertBill(sd.i, amount, 32, NoDate, "Unpaid")
          \/ InsertBill(sd.i, amount, 161, 159, "Paid")
          \/ InsertBill(sd.i, amount, 197, NoDate, "Unpaid")
    BY <1>1 DEF SeedBill
  <2>2. bills \subseteq bills'
    BY <1>1, <2>1, InsertBillStep DEF CheckInv, TypeInv, TypeOK
  <2> QED
    BY <2>2 DEF BillsAreFinalStep
<1>2. ASSUME CheckInv, SeedOverdue PROVE BillsAreFinalStep
  <2>1. \A b \in bills :
          b \in bills' \/ (IsLate(b, CheckDay) /\ [b EXCEPT !.status = "Overdue"] \in bills')
    BY <1>2, MarkOverdueStep DEF CheckInv, TypeInv, TypeOK, SeedOverdue
  <2>2. \A b \in bills : IsLate(b, CheckDay) => b.status \in {"Unpaid", "Overdue"}
    BY <1>2 DEF CheckInv, TypeInv, TypeOK, DBTypeOK, BillRow, Statuses, IsLate
  <2>3. \A b \in bills : b.status = "Overdue" => [b EXCEPT !.status = "Overdue"] = b
    BY <1>2 DEF CheckInv, TypeInv, TypeOK, DBTypeOK, BillRow
  <2> QED
    BY <2>1, <2>2, <2>3 DEF BillsAreFinalStep
<1>3. ASSUME bills' = bills PROVE BillsAreFinalStep
  BY <1>3 DEF BillsAreFinalStep
<1>4. ASSUME CheckInv, Next PROVE BillsAreFinalStep
  <2>1. CASE StartSeed \/ SeedStatementFails \/ SeedKilled
    BY <1>3, <2>1 DEF StartSeed, SeedStatementFails, SeedKilled, dbVars
  <2>2. CASE SeedRegion \/ SeedType \/ SeedCustomer
    BY <1>3, <2>2 DEF SeedRegion, SeedType, SeedCustomer, InsertRegion, InsertType,
                      InsertCustomer, billVars
  <2>3. CASE SeedUsage \/ SeedAtRisk
    BY <1>3, <2>3 DEF SeedUsage, SeedAtRisk, InsertUsage, InsertAtRisk, billVars
  <2>4. CASE AdminNext
    BY <1>3, <2>4 DEF AdminNext, PostCustomer, GetDeleteCustomer, MenuAddCustomer,
                      MenuDeleteCustomer, MenuUpdateCustomer, InsertCustomer, DeleteCustomer,
                      UpdateCustomerRegion, billVars
  <2> QED
    BY <1>1, <1>2, <1>4, <2>1, <2>2, <2>3, <2>4 DEF Next, SeedNext, SeedStep
<1>5. ASSUME CheckInv, [Next]_vars
      PROVE  [BillsAreFinalStep]_seedVars
  BY <1>4, <1>5 DEF vars, BillsAreFinalStep, seedVars, dbVars
<1> QED
  BY CheckInvHolds, <1>5, PTL DEF Spec, BillsAreFinal

=============================================================================
