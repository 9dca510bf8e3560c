---------------------------- MODULE AsioScheduler ----------------------------
(***************************************************************************)
(* The queue of handlers behind an io_context and the threads that run it. *)
(* One entry of the queue is the task: the thread that takes it waits in   *)
(* the reactor for I/O, for the steady timer or to be interrupted, and     *)
(* puts it back behind the operations it found ready.  Other threads       *)
(* sleep on an event.  Whoever adds an operation wakes a sleeper, or       *)
(* interrupts the reactor when nobody sleeps and nobody has done so yet.   *)
(* The mutex is held from one line of the model to the next: each action   *)
(* is what a thread does without releasing it.  Crow runs each worker's    *)
(* io_context with one thread and posts to it from the accepting thread.   *)
(***************************************************************************)
EXTENDS Naturals, FiniteSets, Sequences

CONSTANTS
    Runners,  \* threads that may be in io_context::run
    MaxOps    \* bound: operations, the wait of the timer included

ASSUME AsioSchedulerAssumption == MaxOps \in Nat \ {0}

VARIABLES
    op_queue,            \* operations 1..MaxOps and Task
    task_interrupted,
    outstanding_work,
    ioStopped,
    event,               \* wakeup_event_: [signalled, waiters, woken]
    interrupt,           \* the interrupter will make epoll_wait return
    pc,                  \* pc[r]: where thread r is
    running,             \* running[r]: the operation r completes, 0: none
    private,             \* private[r]: its private_op_queue
    waiting_io,          \* operations at the reactor
    issued               \* number of operations so far

schedVars == <<op_queue, task_interrupted, outstanding_work, ioStopped, event, interrupt,
               pc, running, private, waiting_io, issued>>

Task == 0
Ops == 1..MaxOps
Places == {"loop", "asleep", "polling", "blocking", "returning", "handler", "out"}

SchedulerTypeOK ==
    /\ op_queue \in Seq(Ops \cup {Task})
    /\ task_interrupted \in BOOLEAN /\ ioStopped \in BOOLEAN /\ interrupt \in BOOLEAN
    /\ outstanding_work \in Nat
    /\ event \in [signalled : BOOLEAN, waiters : SUBSET Runners, woken : SUBSET Runners]
    /\ event.woken \subseteq event.waiters
    /\ \A r \in Runners : (r \in event.waiters) <=> (pc[r] = "asleep")
    /\ pc \in [Runners -> Places]
    /\ running \in [Runners -> Ops \cup {0}]
    /\ private \in [Runners -> Seq(Ops)]
    /\ waiting_io \subseteq Ops
    /\ issued \in Ops

\* The timer waits at the reactor; one of the runners, or several, called run().
SchedulerInit ==
    /\ op_queue = <<Task>>
    /\ task_interrupted = TRUE
    /\ outstanding_work = 1
    /\ ioStopped = FALSE
    /\ event = [signalled |-> FALSE, waiters |-> {}, woken |-> {}]
    /\ interrupt = TRUE
    /\ pc \in [Runners -> {"loop", "out"}] /\ \E r \in Runners : pc[r] = "loop"
    /\ running = [r \in Runners |-> 0]
    /\ private = [r \in Runners |-> <<>>]
    /\ waiting_io = {1} /\ issued = 1

-----------------------------------------------------------------------------
(* Waking *)

Asleep == event.waiters \ event.woken

\* The flag is set and one thread that sleeps is woken.
SignalOne ==
    \/ /\ Asleep # {}
       /\ \E r \in Asleep : event' = [event EXCEPT !.signalled = TRUE, !.woken = @ \cup {r}]
    \/ Asleep = {} /\ event' = [event EXCEPT !.signalled = TRUE]

SignalAll == event' = [event EXCEPT !.signalled = TRUE, !.woken = event.waiters]

InterruptTask ==
    /\ task_interrupted' = TRUE
    /\ interrupt' = (interrupt \/ ~task_interrupted)

\* Mutant of WakeOne: the reactor is interrupted only when threads sleep too.
WakeSleeper == SignalOne /\ UNCHANGED <<task_interrupted, interrupt>>

\* wake_one_thread_and_unlock.
WakeOne ==
    /\ SignalOne
    /\ IF event.waiters # {} THEN UNCHANGED <<task_interrupted, interrupt>> ELSE InterruptTask

\* stop_all_threads.
StopAll == ioStopped' = TRUE /\ SignalAll /\ InterruptTask

-----------------------------------------------------------------------------
(* A runner *)

At(r, place) == pc' = [pc EXCEPT ![r] = place]

Leave(r) ==
    /\ ioStopped
    /\ At(r, "out")
    /\ UNCHANGED <<op_queue, task_interrupted, outstanding_work, ioStopped, event, interrupt,
                   running, private, waiting_io, issued>>

\* Nothing to do: the event is cleared and r waits for it.
Sleep(r) ==
    /\ ~ioStopped /\ op_queue = <<>>
    /\ event' = [event EXCEPT !.signalled = FALSE, !.waiters = @ \cup {r}]
    /\ At(r, "asleep")
    /\ UNCHANGED <<op_queue, task_interrupted, outstanding_work, ioStopped, interrupt,
                   running, private, waiting_io, issued>>

\* The task is taken: r polls when there are more handlers and blocks otherwise.
TakeTask(r) ==
    /\ ~ioStopped /\ op_queue # <<>> /\ Head(op_queue) = Task
    /\ op_queue' = Tail(op_queue)
    /\ task_interrupted' = (Tail(op_queue) # <<>>)
    /\ IF Tail(op_queue) # <<>> THEN SignalOne /\ At(r, "polling")
                                ELSE UNCHANGED event /\ At(r, "blocking")
    /\ UNCHANGED <<outstanding_work, ioStopped, interrupt, running, private, waiting_io, issued>>

TakeOp(r) ==
    /\ ~ioStopped /\ op_queue # <<>> /\ Head(op_queue) # Task
    /\ op_queue' = Tail(op_queue)
    /\ running' = [running EXCEPT ![r] = Head(op_queue)]
    /\ At(r, "handler")
    /\ IF Tail(op_queue) # <<>> THEN WakeOne ELSE UNCHANGED <<event, task_interrupted, interrupt>>
    /\ UNCHANGED <<outstanding_work, ioStopped, private, waiting_io, issued>>

RunOne(r) == pc[r] = "loop" /\ (Leave(r) \/ Sleep(r) \/ TakeTask(r) \/ TakeOp(r))

\* r has the mutex again: it goes on when the flag is set, and sleeps otherwise.
Wake(r) ==
    /\ r \in event.woken
    /\ IF event.signalled
       THEN event' = [event EXCEPT !.waiters = @ \ {r}, !.woken = @ \ {r}] /\ At(r, "loop")
       ELSE event' = [event EXCEPT !.woken = @ \ {r}] /\ UNCHANGED pc
    /\ UNCHANGED <<op_queue, task_interrupted, outstanding_work, ioStopped, interrupt,
                   running, private, waiting_io, issued>>

\* The one way to take the operations in their order.
InOrder(ops) ==
    {q \in [1..Cardinality(ops) -> ops] : \A j, k \in 1..Cardinality(ops) : j < k => q[j] < q[k]}

\* epoll_wait returns with the operations that are ready.
EpollReturns(r, ready) ==
    /\ pc[r] = "polling" \/ (pc[r] = "blocking" /\ (interrupt \/ ready # {}))
    /\ \E q \in InOrder(ready) : private' = [private EXCEPT ![r] = q]
    /\ waiting_io' = waiting_io \ ready
    /\ interrupt' = FALSE
    /\ At(r, "returning")
    /\ UNCHANGED <<op_queue, task_interrupted, outstanding_work, ioStopped, event, running, issued>>

\* task_cleanup: the operations and then the task go to the end of the queue.
CleanUpTask(r) ==
    /\ pc[r] = "returning"
    /\ task_interrupted' = TRUE
    /\ op_queue' = op_queue \o private[r] \o <<Task>>
    /\ private' = [private EXCEPT ![r] = <<>>]
    /\ At(r, "loop")
    /\ UNCHANGED <<outstanding_work, ioStopped, event, interrupt, running, waiting_io, issued>>

\* A handler starts a read or a wait, or posts its continuation.
HandlerStartsIo(r) ==
    /\ pc[r] = "handler" /\ issued < MaxOps
    /\ issued' = issued + 1
    /\ waiting_io' = waiting_io \cup {issued + 1}
    /\ outstanding_work' = outstanding_work + 1
    /\ UNCHANGED <<op_queue, task_interrupted, ioStopped, event, interrupt, pc, running, private>>

HandlerPosts(r) ==
    /\ pc[r] = "handler" /\ issued < MaxOps
    /\ issued' = issued + 1
    /\ private' = [private EXCEPT ![r] = Append(@, issued + 1)]
    /\ UNCHANGED <<op_queue, task_interrupted, outstanding_work, ioStopped, event, interrupt,
                   pc, running, waiting_io>>

\* The handler returns or throws: work_cleanup.
CleanUpWork(r) ==
    /\ pc[r] = "handler"
    /\ outstanding_work' = (outstanding_work + Len(private[r])) - 1
    /\ IF outstanding_work' = 0 THEN StopAll
                                ELSE UNCHANGED <<ioStopped, event, task_interrupted, interrupt>>
    /\ op_queue' = op_queue \o private[r]
    /\ private' = [private EXCEPT ![r] = <<>>]
    /\ running' = [running EXCEPT ![r] = 0]
    /\ At(r, "loop")
    /\ UNCHANGED <<waiting_io, issued>>

-----------------------------------------------------------------------------
(* Other threads *)

\* asio::post from a thread that does not run this context.
Post ==
    /\ issued < MaxOps
    /\ issued' = issued + 1
    /\ outstanding_work' = outstanding_work + 1
    /\ op_queue' = Append(op_queue, issued + 1)
    /\ WakeOne
    /\ UNCHANGED <<ioStopped, pc, running, private, waiting_io>>

\* io_context::stop.
StopContext ==
    /\ ~ioStopped
    /\ StopAll
    /\ UNCHANGED <<op_queue, outstanding_work, pc, running, private, waiting_io, issued>>

Step(r) ==
    \/ RunOne(r)
    \/ Wake(r)
    \/ EpollReturns(r, {})
    \/ CleanUpTask(r)
    \/ CleanUpWork(r)

SchedulerNext ==
    \/ \E r \in Runners : Step(r) \/ HandlerStartsIo(r) \/ HandlerPosts(r)
    \/ \E r \in Runners : \E ready \in SUBSET waiting_io : EpollReturns(r, ready)
    \/ Post
    \/ StopContext

SchedulerSpec == SchedulerInit /\ [][SchedulerNext]_schedVars

\* Threads run and handlers end; I/O becomes ready or not, and nobody need post
\* or stop.
FairSchedulerSpec == SchedulerSpec /\ \A r \in Runners : WF_schedVars(Step(r))

-----------------------------------------------------------------------------
(* Properties *)

InReactor == {r \in Runners : pc[r] \in {"polling", "blocking", "returning"}}
Queued == {k \in DOMAIN op_queue : op_queue[k] # Task}

\* Exactly one holder of the task: it is in the queue or a thread is in the
\* reactor with it.  Lost, no I/O would ever complete; there twice, two threads
\* would wait in the reactor.
TaskHeldOnce ==
    Cardinality(DOMAIN op_queue \ Queued) + Cardinality(InReactor) = 1

\* No operation waits while every thread sleeps or blocks in the reactor with
\* nothing on its way to wake it, whatever the order of posts, sleeps and
\* interrupts was.
NobodySleepsOverWork ==
    Queued # {} /\ ~ioStopped =>
        \E r \in Runners :
            /\ r \notin Asleep /\ pc[r] # "out"
            /\ pc[r] = "blocking" => interrupt

\* outstanding_work_ counts the operations that are queued, being completed or
\* at the reactor: run() can return for lack of work only when none is left.
WorkIsCounted ==
    outstanding_work =
        Cardinality(Queued) + Cardinality({r \in Runners : pc[r] = "handler"})
          + Cardinality(waiting_io)
          + Cardinality(UNION {{<<r, k>> : k \in DOMAIN private[r]} : r \in InReactor})

\* asio's scheduler: one holder of the reactor, no thread asleep over an
\* operation, and work counted right, through every order of posts and wake-ups.
SchedulerIsSound == TaskHeldOnce /\ NobodySleepsOverWork /\ WorkIsCounted

\* An operation that was put into the queue is completed unless the context is
\* stopped.
QueuedRuns ==
    \A o \in Ops : (\E k \in DOMAIN op_queue : op_queue[k] = o) ~> (ioStopped \/ \E r \in Runners : running[r] = o)

\* After stop() every thread leaves run(), the one in the reactor included.
StopReleasesAll == ioStopped ~> (\A r \in Runners : pc[r] = "out")

=============================================================================
