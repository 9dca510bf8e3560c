------------------------------ MODULE ReportsPage ------------------------------
(***************************************************************************)
(* The page reports.html in a tab, while bills are written.  It asks for   *)
(* its panels at the same time, once, and draws each when its answer       *)
(* comes; every answer is of another moment, and a lost one leaves the     *)
(* panel as it was, at $0.                                                 *)
(*                                                                         *)
(* Bills are counted by status and all of one amount; what the queries     *)
(* compute is the subject of Reports, and of ImportsExports for the fourth *)
(* panel, which shows nothing about bills.                                 *)
(***************************************************************************)
EXTENDS Naturals

CONSTANTS
    MaxBills,  \* bound: bills there at the same time
    MaxWrites  \* bound: writes while the page is open

ASSUME ReportsPageAssumption == MaxBills \in Nat /\ MaxWrites \in Nat

VARIABLES
    count,     \* count[s]: bills of status s
    assigned,  \* assigned[s]: those the joins find, paid ones after the cutoff of 3m
    version,   \* history: number of writes so far
    era,       \* history: how many of them threw all bills away
    panel      \* panel[p]: [st, val, at, era, whole]; whole: its scan met no lock, at
               \* version at of era

billVars == <<count, assigned, version, era>>
reportsPageVars == <<billVars, panel>>

Statuses == {"Paid", "Unpaid", "Overdue"}
Panels == {"revenue", "status", "overdue"}
Amount == 0..MaxBills
Breakdown == [Statuses -> Amount]
NoValue == [s \in Statuses |-> 0]

\* A value is a breakdown; a sum is kept under the status it is about.
ReportsPageTypeOK ==
    /\ count \in Breakdown /\ assigned \in Breakdown
    /\ version \in 0..MaxWrites /\ era \in 0..MaxWrites
    /\ panel \in [Panels -> [st : {"asked", "served", "shown", "lost"},
                           val : Breakdown, at : 0..MaxWrites, era : 0..MaxWrites,
                           whole : BOOLEAN]]

\* The page has just been loaded.
ReportsPageInit ==
    /\ count = NoValue /\ assigned = NoValue /\ version = 0 /\ era = 0
    /\ panel = [p \in Panels |-> [st |-> "asked", val |-> NoValue, at |-> 0, era |-> 0,
                                  whole |-> TRUE]]

-----------------------------------------------------------------------------
(* The tables *)

Wrote == version < MaxWrites /\ version' = version + 1 /\ UNCHANGED panel

\* A bill of some customer, who may be in no region that is known; a paid one may
\* be older than the cutoff.  seed_paid_bills also writes bills that are Overdue.
IssueCountedBill ==
    /\ count["Paid"] + count["Unpaid"] + count["Overdue"] < MaxBills
    /\ \E s \in Statuses :
         /\ count' = [count EXCEPT ![s] = @ + 1]
         /\ \E known \in {0, 1} : assigned' = [assigned EXCEPT ![s] = @ + known]
    /\ UNCHANGED era
    /\ Wrote

\* checkOverduePayments flags some unpaid bills.
FlagCountedBills ==
    /\ \E n \in 1..count["Unpaid"], k \in 0..assigned["Unpaid"] :
         /\ k <= n /\ n - k <= count["Unpaid"] - assigned["Unpaid"]
         /\ count' = [count EXCEPT !["Unpaid"] = @ - n, !["Overdue"] = @ + n]
         /\ assigned' = [assigned EXCEPT !["Unpaid"] = @ - k, !["Overdue"] = @ + k]
    /\ UNCHANGED era
    /\ Wrote

\* Customers are deleted, seed_paid_bills hands out their numbers once more, a
\* customer is moved to another region, or the cutoff moves on: the joins find other
\* bills, and the bills are the same.
ChangeJoins ==
    /\ assigned' \in Breakdown /\ \A s \in Statuses : assigned'[s] <= count[s]
    /\ UNCHANGED <<count, era>>
    /\ Wrote

\* seed_paid_bills: DELETE FROM Bills.
ThrowBillsAway ==
    /\ count' = NoValue /\ assigned' = NoValue
    /\ era' = era + 1
    /\ Wrote

-----------------------------------------------------------------------------
(* The page *)

Only(s, value) == [NoValue EXCEPT ![s] = value]

\* What the three statements compute: two sums over a join, one count of all.
AnswerTo(p) ==
    CASE p = "revenue" -> Only("Paid", assigned["Paid"])
      [] p = "overdue" -> Only("Overdue", assigned["Overdue"])
      [] p = "status"  -> count

ServePanel(p) ==
    /\ panel[p].st = "asked"
    /\ panel' = [panel EXCEPT ![p] =
                    [st |-> "served", val |-> AnswerTo(p), at |-> version, era |-> era,
                     whole |-> TRUE]]
    /\ UNCHANGED billVars

\* A scan that meets the lock of a writer ends as one of an empty table does: the
\* answer is 200 with nothing in it.
ServeNothing(p) ==
    /\ panel[p].st = "asked"
    /\ panel' = [panel EXCEPT ![p] =
                    [st |-> "served", val |-> NoValue, at |-> 0, era |-> 0, whole |-> FALSE]]
    /\ UNCHANGED billVars

ShowPanel(p) ==
    /\ panel[p].st = "served"
    /\ panel' = [panel EXCEPT ![p].st = "shown"]
    /\ UNCHANGED billVars

\* No catch.
LosePanel(p) ==
    /\ panel[p].st \in {"asked", "served"}
    /\ panel' = [panel EXCEPT ![p] =
                    [st |-> "lost", val |-> NoValue, at |-> 0, era |-> 0, whole |-> FALSE]]
    /\ UNCHANGED billVars

ReportsPageNext ==
    \/ IssueCountedBill \/ FlagCountedBills \/ ChangeJoins \/ ThrowBillsAway
    \/ \E p \in Panels : ServePanel(p) \/ ServeNothing(p) \/ ShowPanel(p) \/ LosePanel(p)

ReportsPageSpec == ReportsPageInit /\ [][ReportsPageNext]_reportsPageVars

-----------------------------------------------------------------------------
(* Properties *)

Shown(p) == panel[p].st = "shown"

\* Panels of different moments agree one way: a sum over joined bills that was
\* computed no later than the breakdown never exceeds the breakdown's count, whatever
\* was written in between but one thing: paid and overdue bills stay what they are
\* until seed_paid_bills throws them all away.  (After that the sum may be of bills
\* the breakdown has never seen, and a breakdown that met a lock is empty; nothing on
\* the page says so.)
PanelsTellOneStory ==
    \A p \in {"revenue", "overdue"}, s \in Statuses :
        /\ Shown(p) /\ Shown("status") /\ panel["status"].whole
        /\ panel[p].at <= panel["status"].at /\ panel[p].era = panel["status"].era
        => panel[p].val[s] <= panel["status"].val[s]

==============================================================================
