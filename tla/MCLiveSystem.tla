----------------------------- MODULE MCLiveSystem -----------------------------
(***************************************************************************)
(* seed_data, started twice and killed anywhere, beside administrators who *)
(* add, move and delete its four customers in two regions, and the overdue *)
(* reports asked at any moment of it.  The statements of seed_data all     *)
(* take effect: RefsAllocated, NewCustomerHasCleanSlate and                *)
(* OverdueHasAtRisk say nothing otherwise, and MCSeedData has the others.  *)
(***************************************************************************)
EXTENDS LiveSystem, Reports

MCAmounts == {1}
MCRegionIds == {1, 2}
MCPaidDates == {159}

=============================================================================
