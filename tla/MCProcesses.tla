------------------------------ MODULE MCProcesses ------------------------------
(***************************************************************************)
(* Everything that runs by itself and must get somewhere: the connections  *)
(* of a worker and its timer, the threads of the server, the threads of an *)
(* io_context, the console menu, and the programs that share the database  *)
(* file.  They have no variable in common; a behaviour is one of one of    *)
(* them, and the variables of the others stay as they begin.  Each is fair *)
(* in the way its own module says.                                         *)
(***************************************************************************)
EXTENDS Processes

CONSTANTS C1, C2, C3, T1, T2, P1

VARIABLES
    what,                                              \* what runs
    ready, phase, isOpen, task_id, tasks, highest_id,  \* CrowConnection
    arrivals, era, robbed,
    rows, lastRow, sess, answer, seen                  \* SqliteAccess

connVars == <<ready, phase, isOpen, task_id, tasks, highest_id, arrivals, era, robbed>>
accessVars == <<rows, lastRow, sess, answer, seen>>

Connection == INSTANCE CrowConnection WITH Conns <- {C1, C2, C3}, MaxArrivals <- 1

Access == INSTANCE SqliteAccess WITH
    Threads <- {T1, T2}, Peers <- {P1}, MaxRowid <- 1, Owing <- {1}, last <- lastRow

Init ==
    /\ what \in {"connections", "server", "scheduler", "menu", "access"}
    /\ Connection!Init /\ ServerInit /\ SchedulerInit /\ MenuInit /\ Access!Init
    /\ what # "scheduler" => pc = [r \in Runners |-> "loop"]

Only(w) == what = w /\ UNCHANGED what

Next ==
    \/ /\ Only("connections") /\ Connection!Next
       /\ UNCHANGED <<crowVars, schedVars, menuVars, accessVars>>
    \/ /\ Only("server") /\ ServerNext
       /\ UNCHANGED <<connVars, schedVars, menuVars, accessVars>>
    \/ /\ Only("scheduler") /\ SchedulerNext
       /\ UNCHANGED <<connVars, crowVars, menuVars, accessVars>>
    \/ /\ Only("menu") /\ MenuNext
       /\ UNCHANGED <<connVars, crowVars, schedVars, accessVars>>
    \/ /\ Only("access") /\ Access!Next
       /\ UNCHANGED <<connVars, crowVars, schedVars, menuVars>>

processVars == <<what, connVars, crowVars, schedVars, menuVars, accessVars>>

Spec == Init /\ [][Next]_processVars

\* The fairness of each module, for the behaviours that are of it.
FairConnections ==
    /\ WF_connVars(Only("connections") /\ Connection!Run)
    /\ WF_connVars(Only("connections") /\ Connection!FallDue)
    /\ WF_connVars(Only("connections") /\ Connection!TickExpires)

FairServer ==
    /\ \A w \in Workers : /\ WF_crowVars(Only("server") /\ StartWorker(w))
                       /\ WF_crowVars(Only("server") /\ EndWorker(w))
    /\ WF_crowVars(Only("server") /\ StartAccepting)
    /\ WF_crowVars(Only("server") /\ Return)

FairScheduler == \A r \in Runners : WF_schedVars(Only("scheduler") /\ Step(r))

FairMenu == WF_menuVars(Only("menu") /\ MenuStep)

FairAccess == \A c \in {T1, T2, P1} : SF_accessVars(Only("access") /\ Access!Step(c))

FairSpec ==
    Spec /\ FairConnections /\ FairServer /\ FairScheduler /\ FairMenu /\ FairAccess

-----------------------------------------------------------------------------
(* Properties *)

\* Whatever must come to an end does.  Crow: a connection whose peer stays silent is
\* disconnected (they are alike, so one stands for all), and the server's run ends
\* after a signal.  asio: what is queued runs, and stop() releases every thread.
\* customers.cpp: the end of the input ends the program or leaves it at its menu.
EverythingGetsSomewhere ==
    /\ Connection!Leaves(C1)
    /\ SignalEndsRun
    /\ QueuedRuns /\ StopReleasesAll
    /\ EndOfInputNeverExits

\* A request is answered, whatever the other programs lock: one to a thread of the
\* server, which are alike, and one to another program.
Answered == Access!AnsweredTo(T1) /\ Access!AnsweredTo(P1)

=============================================================================
