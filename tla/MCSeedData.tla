------------------------------ MODULE MCSeedData ------------------------------
(***************************************************************************)
(* seed_data alone with its database, run twice: it may be killed anywhere *)
(* and one statement of each run may find the file locked.                 *)
(***************************************************************************)
EXTENDS SeedData

MCAmounts == {1, 2}
MCRegionIds == {1}
MCPaidDates == {159}

=============================================================================
