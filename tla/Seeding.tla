------------------------------- MODULE Seeding -------------------------------
(***************************************************************************)
(* What the two programs that fill the database have in common: the size   *)
(* of the data set, which is written as literals in both, and the bounds   *)
(* of the models.                                                          *)
(***************************************************************************)
EXTENDS EnergyDB

CONSTANTS
    NumRegions,    \* 5
    PerRegion,     \* customers of each region: 100
    NumCustomers,  \* 500, the literal bound of the usage and bill loops
    NumMonths,     \* usage rows of each customer: 6
    MaxRuns,       \* bound: how often a program is started
    MaxFails       \* bound: statements of one run that find the file locked by
                   \* another program

\* The region of the i-th customer a program adds.
RegionOf(i) == ((i - 1) \div PerRegion) + 1

ASSUME SeedingAssumption ==
    /\ NumRegions \in Nat \ {0}
    /\ PerRegion \in Nat \ {0}
    /\ NumMonths \in Nat \ {0}
    /\ NumCustomers = NumRegions * PerRegion
    /\ NumCustomers \in 1..MaxRowid
    /\ 1..NumRegions \subseteq RegionIds
    /\ \A i \in 1..NumCustomers : RegionOf(i) \in RegionIds
    /\ MaxRuns \in Nat
    /\ MaxFails \in Nat

=============================================================================
