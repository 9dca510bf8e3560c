--------------------------- MODULE SchemaBootstrap ---------------------------
(***************************************************************************)
(* Who creates the tables.  init_db, the server and the menu each run      *)
(* CREATE TABLE IF NOT EXISTS statements when they start, in any order, at *)
(* the same time and again at any later time; they do not agree on the     *)
(* columns of Regions and Customers, and no program ever drops or alters a *)
(* table.  init_db prints a refused statement and goes on; the server and  *)
(* the menu give up.  A program that only inserts or only asks meets       *)
(* whatever is there.                                                      *)
(***************************************************************************)
EXTENDS Naturals, Sequences

CONSTANTS
    MaxStarts,  \* bound: how often each program is started
    MaxBusy     \* bound: statements that find the file locked

ASSUME SchemaBootstrapAssumption == MaxStarts \in Nat /\ MaxBusy \in Nat

Creators == {"init_db", "server", "menu"}

\* The tables in the order init_db creates them.
AllTables == <<"Regions", "Customers", "Energy_Types", "Energy_Usage", "Bills",
               "Imports_Exports", "Maintenance", "At_Risk_Customers", "Email_Logs">>

TablesOf(p) ==
    CASE p = "init_db" -> AllTables
      [] p = "server"  -> <<"Regions", "Customers">>
      [] p = "menu"    -> <<"Customers">>

\* The tables a route's statement needs; the last three refuse when it is not there.
Needs(route) ==
    CASE route = "customers"     -> {"Customers"}
      [] route = "regions"       -> {"Regions"}
      [] route = "bills"         -> {"Bills"}
      [] route = "sales"         -> {"Bills", "Energy_Usage", "Energy_Types"}
      [] route = "revenue"       -> {"Bills", "Customers", "Regions"}
      [] route = "expenses"      -> {"Imports_Exports", "Energy_Types"}
      [] route = "billInfo"      -> {"Bills", "Customers"}
      [] route = "addCustomer"   -> {"Customers"}
      [] route = "deleteCustomer" -> {"Customers"}
Refusing == {"billInfo", "addCustomer", "deleteCustomer"}
ApiRoutes == {"customers", "regions", "bills", "sales", "revenue", "expenses"} \cup Refusing

VARIABLES
    schema,  \* schema[t]: "absent", "nullable" or "notNull" name column
    at,      \* at[p]: 0 not running, i at its i-th statement, beyond the last: up
    starts,  \* starts[p]: how often p was started
    busy,    \* refused statements so far
    clean,   \* history: the run of init_db that is under way or ended last had no
             \* refused statement
    answer   \* what the last step answered: [route, code]

schemaVars == <<schema, at, starts, busy, clean, answer>>

Tables == {AllTables[i] : i \in DOMAIN AllTables}
Definitions == {"absent", "nullable", "notNull"}
NoAnswer == [route |-> "none", code |-> "none"]
UpAt(p) == Len(TablesOf(p)) + 1
Up(p) == at[p] = UpAt(p)

SchemaTypeOK ==
    /\ schema \in [Tables -> Definitions]
    /\ \A p \in Creators : at[p] \in 0..UpAt(p)
    /\ starts \in [Creators -> 0..MaxStarts]
    /\ busy \in 0..MaxBusy
    /\ clean \in BOOLEAN
    /\ answer \in [route : ApiRoutes, code : {"data", "empty", "error"}] \cup {NoAnswer}

SchemaInit ==
    /\ schema = [t \in Tables |-> "absent"]
    /\ at = [p \in Creators |-> 0]
    /\ starts = [p \in Creators |-> 0]
    /\ busy = 0 /\ clean = FALSE
    /\ answer = NoAnswer

NoReply == answer' = NoAnswer

-----------------------------------------------------------------------------

\* Regions and Customers are declared with a name that may be NULL by init_db
\* and NOT NULL by the others.
DefinitionBy(p) == IF p = "init_db" THEN "nullable" ELSE "notNull"

StartCreator(p) ==
    /\ at[p] = 0 /\ starts[p] < MaxStarts
    /\ at' = [at EXCEPT ![p] = 1]
    /\ starts' = [starts EXCEPT ![p] = @ + 1]
    /\ clean' = (clean \/ p = "init_db")
    /\ UNCHANGED <<schema, busy>> /\ NoReply

\* CREATE TABLE IF NOT EXISTS
Created(p, t) == [schema EXCEPT ![t] = IF @ = "absent" THEN DefinitionBy(p) ELSE @]

Create(p) ==
    /\ at[p] \in DOMAIN TablesOf(p)
    /\ schema' = Created(p, TablesOf(p)[at[p]])
    /\ at' = [at EXCEPT ![p] = @ + 1]
    /\ UNCHANGED <<starts, busy, clean>> /\ NoReply

\* Mutant of AfterRefusal: the result of the statement is not looked at.
AfterRefusalGoOn(p) == at[p] + 1

\* The server and the menu return 1; init_db goes on.
AfterRefusal(p) == IF p = "init_db" THEN at[p] + 1 ELSE 0

CreateRefused(p) ==
    /\ at[p] \in DOMAIN TablesOf(p)
    /\ busy < MaxBusy
    /\ busy' = busy + 1
    /\ at' = [at EXCEPT ![p] = AfterRefusal(p)]
    /\ clean' = (clean /\ p # "init_db")
    /\ UNCHANGED <<schema, starts>> /\ NoReply

\* init_db comes to its end; any program is stopped or killed.
StopCreator(p) ==
    /\ at[p] # 0
    /\ at' = [at EXCEPT ![p] = 0]
    /\ clean' = (clean /\ (p = "init_db" => Up(p)))
    /\ UNCHANGED <<schema, starts, busy>> /\ NoReply

\* A statement on a missing table cannot be prepared: a list or a report is
\* then answered as if the table were empty, the rest with an error.
CodeOf(route) ==
    IF \A t \in Needs(route) : schema[t] # "absent" THEN "data"
    ELSE IF route \in Refusing THEN "error"
    ELSE "empty"

Ask ==
    /\ Up("server")
    /\ \E route \in ApiRoutes : answer' = [route |-> route, code |-> CodeOf(route)]
    /\ UNCHANGED <<schema, at, starts, busy, clean>>

SchemaNext ==
    \/ \E p \in Creators : StartCreator(p) \/ Create(p) \/ CreateRefused(p) \/ StopCreator(p)
    \/ Ask

SchemaSpec == SchemaInit /\ [][SchemaNext]_schemaVars

-----------------------------------------------------------------------------
(* Properties *)

\* Whoever creates a table decides on its columns for good: no start of another
\* program, with another idea of them, changes what rows are accepted.
FirstCreatorDecides ==
    [][\A t \in Tables : schema[t] # "absent" => schema'[t] = schema[t]]_schemaVars

\* The answers about customers of a server that is up are never those of a
\* missing table, whatever was refused when it started and even if init_db
\* never ran.
ServerHasItsTables ==
    answer.route \in {"customers", "regions", "addCustomer", "deleteCustomer"} =>
        answer.code = "data"

\* After a run of init_db to its end without a refused statement, beside starting
\* servers and menus and after any half finished runs, every route finds its
\* tables for ever.
InitCompletesSchema ==
    clean /\ at["init_db"] \in {0, UpAt("init_db")} =>
        (\A t \in Tables : schema[t] # "absent") /\ answer.code \in {"none", "data"}

\* The tables: a server that answers has its tables, a run of init_db leaves all
\* of them, whoever else creates some and whatever is refused, and the first
\* CREATE TABLE of a table decides for good.
SchemaIsDecided == [](ServerHasItsTables /\ InitCompletesSchema) /\ FirstCreatorDecides

=============================================================================
