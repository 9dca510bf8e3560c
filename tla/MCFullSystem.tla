----------------------------- MODULE MCFullSystem -----------------------------
(***************************************************************************)
(* Every program that writes energypro.db and the reports, in three        *)
(* histories told apart by scope:                                          *)
(*   "all"     all programs at once, the two that fill the database        *)
(*             started once each, one statement of seed_paid_bills refused,*)
(*             and usage of one energy type;                               *)
(*   "types"   all programs but seed_paid_bills, seed_data started once,   *)
(*             and usage of any type in each month;                        *)
(*   "rebuild" seed_paid_bills alone, started MaxRuns times, with MaxFails *)
(*             statements of each run refused.                             *)
(* The programs may be killed at any time in all three.                    *)
(***************************************************************************)
EXTENDS ReportsSystem

VARIABLE scope

MCRegionIds == {1, 2}
MCAmounts == {3}
MCPaidDates == {15, 163}

MCInit == scope \in {"all", "types", "rebuild"} /\ FullInit

\* The bounds of "all".
StartedOnce ==
    /\ sd.runs <= 1 /\ sp.runs <= 1 /\ sd.fails = 0 /\ sp.fails <= 1
    /\ \A u \in usage : u.type = 1

\* The bounds of "types".
SeededOnce == sd.runs <= 1 /\ sd.fails = 0

MCNext ==
    /\ \/ scope = "all" /\ FullNext /\ StartedOnce'
       \/ scope = "types" /\ OtherProgram /\ SeededOnce'
       \/ scope = "rebuild" /\ Rebuild
    /\ UNCHANGED scope

MCSpec == MCInit /\ [][MCNext]_<<fullVars, scope>>

=============================================================================
