------------------------------ MODULE CrowServer ------------------------------
(***************************************************************************)
(* Starting, accepting and stopping in Crow.  run() starts one thread per  *)
(* worker; each makes its task_timer, sets its counter in                  *)
(* task_queue_length_pool_ to 0 and counts itself in init_count.  When all *)
(* have, do_accept picks the worker with the smallest counter, counts the  *)
(* connection there and waits for a client; the handler of the accept      *)
(* posts the connection to that worker and calls do_accept again.  A       *)
(* signal stops every io_context; run() returns when the accepting thread  *)
(* and all workers have ended.                                             *)
(***************************************************************************)
EXTENDS Integers, FiniteSets

CONSTANTS
    Workers,      \* 1..n, the indexes of the pools (0..n-1 in the code)
    MaxAccepts    \* bound: accepts that complete, well or badly

ASSUME CrowServerAssumption ==
    /\ IsFiniteSet(Workers) /\ Workers # {}
    /\ Workers = 1..Cardinality(Workers)
    /\ MaxAccepts \in Nat

VARIABLES
    wstate,      \* wstate[w]: thread w is "starting", "running" or "ended"
    timer,       \* timer[w]: task_timer_pool_[w] points to a live timer
    queue_length,\* task_queue_length_pool_; it starts with whatever it holds
    init_count,
    main,        \* "starting", "accepting", "joining", "returned"
    pending,     \* the worker of the connection waiting to be accepted, 0: none
    given,       \* given[w]: connections posted to w, not started yet
    live,        \* live[w]: connections of w that are being served
    dealt,       \* history: dealt[w]: connections accepted for w
    stopped,     \* shutting_down_, and every io_context is stopped
    accepts      \* number of accepts that completed

crowVars == <<wstate, timer, queue_length, init_count, main, pending, given, live, dealt, stopped, accepts>>

ServerTypeOK ==
    /\ wstate \in [Workers -> {"starting", "running", "ended"}]
    /\ timer \in [Workers -> BOOLEAN]
    /\ queue_length \in [Workers -> Nat]
    /\ init_count \in 0..Cardinality(Workers)
    /\ main \in {"starting", "accepting", "joining", "returned"}
    /\ pending \in Workers \cup {0}
    /\ given \in [Workers -> Nat] /\ live \in [Workers -> Nat]
    /\ dealt \in [Workers -> 0..MaxAccepts]
    /\ stopped \in BOOLEAN
    /\ accepts \in 0..MaxAccepts

ServerInit ==
    /\ wstate = [w \in Workers |-> "starting"]
    /\ timer = [w \in Workers |-> FALSE]
    /\ queue_length = [w \in Workers |-> 0]
    /\ init_count = 0
    /\ main = "starting"
    /\ pending = 0
    /\ given = [w \in Workers |-> 0] /\ live = [w \in Workers |-> 0]
    /\ dealt = [w \in Workers |-> 0]
    /\ stopped = FALSE /\ accepts = 0

-----------------------------------------------------------------------------
(* Workers *)

StartWorker(w) ==
    /\ wstate[w] = "starting"
    /\ wstate' = [wstate EXCEPT ![w] = "running"]
    /\ timer' = [timer EXCEPT ![w] = TRUE]
    /\ queue_length' = [queue_length EXCEPT ![w] = 0]
    /\ init_count' = init_count + 1
    /\ UNCHANGED <<main, pending, given, live, dealt, stopped, accepts>>

\* The handler posted by the accept: the connection starts.
Begin(w) ==
    /\ wstate[w] = "running" /\ given[w] > 0
    /\ given' = [given EXCEPT ![w] = @ - 1]
    /\ live' = [live EXCEPT ![w] = @ + 1]
    /\ UNCHANGED <<wstate, timer, queue_length, init_count, main, pending, dealt, stopped, accepts>>

\* A connection ends: closed by a peer or its deadline, or its handler threw
\* and the loop called io_context::run again.  The counter stays.
End(w) ==
    /\ wstate[w] = "running" /\ live[w] > 0
    /\ live' = [live EXCEPT ![w] = @ - 1]
    /\ UNCHANGED <<wstate, timer, queue_length, init_count, main, pending, given, dealt, stopped, accepts>>

\* io_context::run returned 0: the context is stopped.  The timer is destroyed.
EndWorker(w) ==
    /\ wstate[w] = "running" /\ stopped
    /\ wstate' = [wstate EXCEPT ![w] = "ended"]
    /\ timer' = [timer EXCEPT ![w] = FALSE]
    /\ UNCHANGED <<queue_length, init_count, main, pending, given, live, dealt, stopped, accepts>>

-----------------------------------------------------------------------------
(* The accepting thread *)

\* pick_io_context_idx: the first worker with the smallest counter.
Pick(len) ==
    CHOOSE w \in Workers : \A v \in Workers : len[w] < len[v] \/ (len[w] = len[v] /\ w <= v)

\* do_accept, with the counters as its caller leaves them.
DoAccept(len) ==
    /\ pending' = Pick(len)
    /\ queue_length' = [len EXCEPT ![Pick(len)] = @ + 1]

\* Mutant of StartAccepting: the first accept does not wait for the workers.
StartAcceptingEarly ==
    /\ main = "starting"
    /\ main' = "accepting"
    /\ DoAccept(queue_length)
    /\ UNCHANGED <<wstate, timer, init_count, given, live, dealt, stopped, accepts>>

StartAccepting ==
    /\ main = "starting" /\ init_count = Cardinality(Workers)
    /\ main' = "accepting"
    /\ DoAccept(queue_length)
    /\ UNCHANGED <<wstate, timer, init_count, given, live, dealt, stopped, accepts>>

Accepted ==
    /\ main = "accepting" /\ ~stopped /\ accepts < MaxAccepts
    /\ accepts' = accepts + 1
    /\ given' = [given EXCEPT ![pending] = @ + 1]
    /\ dealt' = [dealt EXCEPT ![pending] = @ + 1]
    /\ DoAccept(queue_length)
    /\ UNCHANGED <<wstate, timer, init_count, main, live, stopped>>

\* Mutant of AcceptFailed: the counter of the worker picked next is taken down.
AcceptFailedNext ==
    /\ main = "accepting" /\ ~stopped /\ accepts < MaxAccepts
    /\ accepts' = accepts + 1
    /\ pending' = Pick(queue_length)
    /\ queue_length' = [queue_length EXCEPT ![Pick(queue_length)] = @ - 1]
    /\ UNCHANGED <<wstate, timer, init_count, main, given, live, dealt, stopped>>

AcceptFailed ==
    /\ main = "accepting" /\ ~stopped /\ accepts < MaxAccepts
    /\ accepts' = accepts + 1
    /\ DoAccept([queue_length EXCEPT ![pending] = @ - 1])
    /\ UNCHANGED <<wstate, timer, init_count, main, given, live, dealt, stopped>>

\* SIGINT or SIGTERM: stop() runs on the accepting thread, which then ends.
Stop ==
    /\ main = "accepting" /\ ~stopped
    /\ stopped' = TRUE
    /\ main' = "joining"
    /\ UNCHANGED <<wstate, timer, queue_length, init_count, pending, given, live, dealt, accepts>>

\* The futures of the workers are destroyed: run() has waited for all threads.
Return ==
    /\ main = "joining"
    /\ \A w \in Workers : wstate[w] = "ended"
    /\ main' = "returned"
    /\ UNCHANGED <<wstate, timer, queue_length, init_count, pending, given, live, dealt, stopped, accepts>>

ServerNext ==
    \/ \E w \in Workers : StartWorker(w) \/ Begin(w) \/ End(w) \/ EndWorker(w)
    \/ StartAccepting
    \/ Accepted
    \/ AcceptFailed
    \/ Stop
    \/ Return

ServerSpec == ServerInit /\ [][ServerNext]_crowVars

\* Threads run: workers reach their loops and leave them, the main thread goes
\* on when it can.  Clients and signals come or not.
FairServerSpec ==
    /\ ServerSpec
    /\ \A w \in Workers : WF_crowVars(StartWorker(w)) /\ WF_crowVars(EndWorker(w))
    /\ WF_crowVars(StartAccepting) /\ WF_crowVars(Return)

-----------------------------------------------------------------------------
(* Properties *)

\* A connection is only made for a worker whose timer exists and whose counter
\* is set: do_accept dereferences task_timer_pool_[w], and a worker that came
\* later would wipe out what was counted for it.
WorkersReadyFirst ==
    pending # 0 =>
        /\ \A w \in Workers : wstate[w] # "starting"
        /\ ~stopped => timer[pending]

\* Accepted connections are dealt evenly: no worker is ever given two more than
\* another, whatever fails in between.  What their connections do afterwards
\* plays no part in it.
DealtEvenly ==
    \A v, w \in Workers : dealt[v] <= dealt[w] + 1

\* Server::run: connections are made when the workers are ready, and are dealt
\* evenly.
ServerRunsInOrder == WorkersReadyFirst /\ DealtEvenly

\* The run of the server ends after a signal, even with connections that are
\* being served or wait for a peer that stays silent.
SignalEndsRun == stopped ~> main = "returned"

=============================================================================
