------------------------------ MODULE LiveSystem ------------------------------
(***************************************************************************)
(* seed_data running beside the two programs an administrator changes      *)
(* customers with: the web server (server.cpp) and the console menu        *)
(* (customers.cpp).  All of them have energypro.db open; every handler and *)
(* every menu entry that changes a table does so in one SQL statement, so  *)
(* it is one action here.  A request or an entry refused before its        *)
(* statement, and one whose statement returns SQLITE_BUSY, changes no      *)
(* table: it is a stuttering step.  What is answered to the user is the    *)
(* subject of SqliteAccess.                                                *)
(***************************************************************************)
EXTENDS SeedData

vars == seedVars

Init == DBInit /\ SeedInit

-----------------------------------------------------------------------------
(* The web server *)

\* POST /api/customers with a Name and a Region_ID, which is not looked up.
PostCustomer ==
    /\ \E r \in RegionIds : InsertCustomer(r)
    /\ UNCHANGED sd

\* GET /api/customers?action=delete&id=
GetDeleteCustomer ==
    /\ \E id \in Rowids : DeleteCustomer(id)
    /\ UNCHANGED sd

(* The console menu *)

MenuAddCustomer ==
    /\ \E r \in RegionIds : InsertCustomer(r)
    /\ UNCHANGED sd

MenuDeleteCustomer ==
    /\ \E id \in Rowids : DeleteCustomer(id)
    /\ UNCHANGED sd

\* With a region given; an update of the name, email or address alone stutters.
MenuUpdateCustomer ==
    /\ \E id \in Rowids, r \in RegionIds : UpdateCustomerRegion(id, r)
    /\ UNCHANGED sd

AdminNext ==
    \/ PostCustomer \/ GetDeleteCustomer
    \/ MenuAddCustomer \/ MenuDeleteCustomer \/ MenuUpdateCustomer

Next == SeedNext \/ AdminNext

Spec == Init /\ [][Next]_vars

\* A statement returns at once, done or SQLITE_BUSY: no program sets a busy
\* timeout or tries again, so a process that is scheduled goes on.
FairSpec == Spec /\ WF_vars(SeedStep)

-----------------------------------------------------------------------------
(* Properties *)

TypeOK == DBTypeOK /\ SeedTypeOK

\* The customers that bills, usage rows and at-risk rows speak of.
Refs == CustomersOf(bills) \cup CustomersOf(usage) \cup CustomersOf(atRisk)

\* When no statement of seed_data finds the file locked, the numbers 1..500
\* it writes into usage rows and bills are ids some customer was given, now
\* or before being deleted, in whatever order customers come and go.
RefsAllocated == MaxFails = 0 => Refs \subseteq 1..custSeq

\* A customer who was just added owns no bill, no usage and no at-risk row
\* that were written for somebody else: seed_data's literal ids never reach
\* an id that is still to be handed out.
CleanSlateStep == MaxFails = 0 => Refs \cap (Ids(customers') \ Ids(customers)) = {}

NewCustomerHasCleanSlate == [][CleanSlateStep]_vars

\* A run of seed_data that is not killed comes to its end, and then every late
\* bill is Overdue unless one of its statements was refused, however
\* administrators interleave with it: nothing but such a run flags a bill.
LateBillsFlagged ==
    SeedRunning ~>
        \/ sd.pc = "idle"
        \/ sd.pc = "done" /\ (sd.fails = 0 => \A b \in LateBills(CheckDay) : b.status = "Overdue")

=============================================================================
