---------------------------- MODULE ImportsExports ----------------------------
(***************************************************************************)
(* The program seed_imports_exports, which writes one row of               *)
(* Imports_Exports for each energy type and month, and the expenses chart, *)
(* which joins the rows with Energy_Types.  The types are named by number; *)
(* seed_data inserts them at its own time.  The program can be killed and  *)
(* run again, and looks at no result.                                      *)
(***************************************************************************)
EXTENDS Naturals, FiniteSets, Functions

CONSTANTS
    NumTypes,   \* 4
    NumMonths,  \* 6
    Costs,      \* import costs that may be drawn
    MaxRuns,    \* bound: starts of the program
    MaxFails    \* bound: refused statements of one run

ASSUME ImportsExportsAssumption ==
    /\ NumTypes \in Nat \ {0} /\ NumMonths \in Nat \ {0}
    /\ Costs \subseteq Nat
    /\ MaxRuns \in Nat /\ MaxFails \in Nat

VARIABLES
    knownTypes,  \* Energy_Types
    flows,  \* Imports_Exports: rows [id, type, month, cost]
    ie      \* the program: pc, its two loop counters, runs, fails, and (history)
            \* the refused statements and the kills of all runs

ieVars == <<knownTypes, flows, ie>>

FlowRow == [id : Nat \ {0}, type : 1..NumTypes, month : 1..NumMonths, cost : Costs]

ImportsTypeOK ==
    /\ knownTypes \subseteq 1..NumTypes
    /\ flows \subseteq FlowRow
    /\ ie \in [pc : {"idle", "rows", "done"}, type : 1..NumTypes, month : 1..NumMonths,
               runs : 0..MaxRuns, fails : 0..MaxFails, spoilt : BOOLEAN]

ImportsInit ==
    /\ knownTypes = {} /\ flows = {}
    /\ ie = [pc |-> "idle", type |-> 1, month |-> 1, runs |-> 0, fails |-> 0, spoilt |-> FALSE]

-----------------------------------------------------------------------------

StartImports ==
    /\ ie.pc # "rows" /\ ie.runs < MaxRuns
    /\ ie' = [ie EXCEPT !.pc = "rows", !.type = 1, !.month = 1, !.runs = @ + 1, !.fails = 0]
    /\ UNCHANGED <<knownTypes, flows>>

\* Mutant of NextRow: the inner loop is not started over.
NextRowOfFirstMonths(s) ==
    IF s.month < NumMonths THEN [s EXCEPT !.month = @ + 1]
    ELSE IF s.type < NumTypes THEN [s EXCEPT !.type = @ + 1]
    ELSE [s EXCEPT !.pc = "done", !.type = 1, !.month = 1]

\* The loop over the months is inside the loop over the types.
NextRow(s) ==
    IF s.month < NumMonths THEN [s EXCEPT !.month = @ + 1]
    ELSE IF s.type < NumTypes THEN [s EXCEPT !.type = @ + 1, !.month = 1]
    ELSE [s EXCEPT !.pc = "done", !.type = 1, !.month = 1]

InsertRow ==
    /\ ie.pc = "rows"
    /\ \E cost \in Costs :
         flows' = flows \cup {[id |-> Cardinality(flows) + 1, type |-> ie.type,
                               month |-> ie.month, cost |-> cost]}
    /\ ie' = NextRow(ie)
    /\ UNCHANGED knownTypes

\* SQLITE_BUSY: printed, and the next row is tried.
InsertRefused ==
    /\ ie.pc = "rows" /\ ie.fails < MaxFails
    /\ ie' = [NextRow(ie) EXCEPT !.fails = @ + 1, !.spoilt = TRUE]
    /\ UNCHANGED <<knownTypes, flows>>

ImportsKilled ==
    /\ ie.pc = "rows"
    /\ ie' = [ie EXCEPT !.pc = "idle", !.type = 1, !.month = 1, !.spoilt = TRUE]
    /\ UNCHANGED <<knownTypes, flows>>

\* seed_data inserts an energy type.
TypeSeeded ==
    /\ \E t \in 1..NumTypes : knownTypes' = knownTypes \cup {t}
    /\ UNCHANGED <<flows, ie>>

ImportsNext == StartImports \/ InsertRow \/ InsertRefused \/ ImportsKilled \/ TypeSeeded

ImportsSpec == ImportsInit /\ [][ImportsNext]_ieVars

-----------------------------------------------------------------------------
(* The report, GET /api/expensesByCommodity *)

CostOf(rows) == SumFunction([r \in rows |-> r.cost])

RowsOf(t) == {r \in flows : r.type = t /\ t \in knownTypes}

ExpensesByCommodity ==
    {[type |-> t, total |-> CostOf(RowsOf(t))] : t \in {u \in 1..NumTypes : RowsOf(u) # {}}}

\* reports.html: the number in the middle of the chart
ExpenseTotal == SumFunction([x \in ExpensesByCommodity |-> x.total])

-----------------------------------------------------------------------------
(* Properties *)

\* Every run adds a whole set of rows to those of the runs before, so with n runs
\* that were neither killed nor refused anything each type and month has n rows.
\* (That a month is there n times is what the code does; nothing in the repository
\* says how often the program is to be run.)
EveryRunAddsAll ==
    ie.pc = "done" /\ ~ie.spoilt =>
        \A t \in 1..NumTypes, mo \in 1..NumMonths :
            Cardinality({r \in flows : r.type = t /\ r.month = mo}) = ie.runs

\* The chart's total misses exactly the rows of types nobody has inserted yet,
\* whatever was killed, refused and repeated.
ExpensesMissUnknownTypes ==
    ExpenseTotal + CostOf({r \in flows : r.type \notin knownTypes}) = CostOf(flows)

\* seed_imports_exports and the expenses report: every complete run adds all its
\* rows once more, and the report misses the rows of unknown types.
ImportsAddUp == EveryRunAddsAll /\ ExpensesMissUnknownTypes

=============================================================================
