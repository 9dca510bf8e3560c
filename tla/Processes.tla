------------------------------- MODULE Processes -------------------------------
(***************************************************************************)
(* The processes and threads that run by themselves beside the programs    *)
(* that share the database file: the threads of the web server's Crow, the *)
(* threads that run an io_context, and the console menu.  They have no     *)
(* state in common: no step of one changes a variable of another.          *)
(***************************************************************************)
EXTENDS CrowServer, AsioScheduler, ConsoleMenu

\* All of them at once, each by its own specification.
ProcessesSpec == ServerSpec /\ SchedulerSpec /\ MenuSpec

\* The state of everything that runs has its type.
ProcessesTypeOK == ServerTypeOK /\ SchedulerTypeOK /\ MenuTypeOK

=============================================================================
