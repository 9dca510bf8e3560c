------------------------------ MODULE FullSystem ------------------------------
(***************************************************************************)
(* Every program that writes energypro.db at once: those of LiveSystem and *)
(* seed_paid_bills, which empties two tables under the others and starts   *)
(* their rowids over.                                                      *)
(***************************************************************************)
EXTENDS LiveSystem, SeedPaidBills

fullVars == <<vars, sp>>

FullInit == Init /\ RebuildInit

\* A step of another program ends the time seed_paid_bills had for itself.
OtherProgram == Next /\ sp' = [sp EXCEPT !.alone = FALSE]

Rebuild == RebuildNext /\ UNCHANGED sd

FullNext == OtherProgram \/ Rebuild

FullSpec == FullInit /\ [][FullNext]_fullVars

-----------------------------------------------------------------------------
(* Properties *)

FullTypeOK == TypeOK /\ RebuildTypeOK

=============================================================================
