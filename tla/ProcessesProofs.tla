---------------------------- MODULE ProcessesProofs ----------------------------
(***************************************************************************)
(* Theorems of the processes and threads that run by themselves, for any   *)
(* number of threads, workers and operations:                              *)
(*   - AsioScheduler: the queue of an io_context never loses its task nor  *)
(*     forgets an operation, and its work is counted right;                *)
(*   - CrowServer: connections are made when the workers are ready, and    *)
(*     are dealt evenly;                                                   *)
(*   - ConsoleMenu: an entry that breaks off writes little.                *)
(***************************************************************************)
EXTENDS Processes, FiniteSetTheorems, NaturalsInduction, WellFoundedInduction, TLAPS

-----------------------------------------------------------------------------
(* AsioScheduler: the invariant                                            *)

TaskAlone(q) == \E k \in DOMAIN q : q[k] = Task /\ \A j \in DOMAIN q : q[j] = Task => j = k
NoTask(q) == \A k \in DOMAIN q : q[k] # Task

\* The task is in the queue once and nobody is in the reactor, or one thread has
\* it there.
TaskHeld ==
    \/ TaskAlone(op_queue) /\ InReactor = {}
    \/ NoTask(op_queue) /\ \E r \in Runners : InReactor = {r}

\* Whoever finds the reactor interrupted already may rely on it.
InterruptStands ==
    \A r \in Runners : pc[r] = "blocking" /\ task_interrupted => interrupt

SomebodyIn == ~ioStopped => \E r \in Runners : pc[r] # "out"

\* Thread r comes to the queue without a further call.
Comes(r) ==
    \/ pc[r] \in {"loop", "polling", "returning", "handler"}
    \/ pc[r] = "blocking" /\ interrupt
    \/ r \in event.woken /\ event.signalled

WorkIsSeen == Queued # {} /\ ~ioStopped => \E r \in Runners : Comes(r)

\* The types the argument rests on: how much work is counted does not matter.
SchedTypes ==
    /\ op_queue \in Seq(Ops \cup {Task})
    /\ task_interrupted \in BOOLEAN /\ ioStopped \in BOOLEAN /\ interrupt \in BOOLEAN
    /\ event \in [signalled : BOOLEAN, waiters : SUBSET Runners, woken : SUBSET Runners]
    /\ event.woken \subseteq event.waiters
    /\ \A r \in Runners : (r \in event.waiters) <=> (pc[r] = "asleep")
    /\ pc \in [Runners -> Places]
    /\ private \in [Runners -> Seq(Ops)]
    /\ waiting_io \subseteq Ops
    /\ issued \in Ops

SchedInv == SchedTypes /\ TaskHeld /\ InterruptStands /\ SomebodyIn /\ WorkIsSeen

-----------------------------------------------------------------------------
(* Queues with and without the task *)

LEMMA TailOfQueue ==
    ASSUME AsioSchedulerAssumption, NEW q \in Seq(Ops \cup {Task}), q # <<>>
    PROVE  /\ Tail(q) \in Seq(Ops \cup {Task})
           /\ Head(q) = Task => ~NoTask(q)
           /\ Head(q) = Task /\ TaskAlone(q) => NoTask(Tail(q))
           /\ Head(q) # Task /\ TaskAlone(q) => TaskAlone(Tail(q))
           /\ NoTask(q) => NoTask(Tail(q))
<1>1. PICK t : t = Tail(q)
  OBVIOUS
<1>2. /\ t \in Seq(Ops \cup {Task}) /\ 1 \in DOMAIN q /\ Head(q) = q[1]
      /\ \A k \in DOMAIN t : k + 1 \in DOMAIN q /\ k + 1 # 1 /\ t[k] = q[k + 1]
      /\ \A k \in DOMAIN q : k # 1 => k - 1 \in DOMAIN t /\ t[k - 1] = q[k]
      /\ DOMAIN q \subseteq Nat /\ DOMAIN t \subseteq Nat
  BY <1>1
<1>3. TaskAlone(q) /\ Head(q) = Task => NoTask(t)
  BY <1>2 DEF TaskAlone, NoTask
<1>4. Head(q) = Task => ~NoTask(q)
  BY <1>2 DEF NoTask
<1>5. NoTask(q) => NoTask(t)
  BY <1>2 DEF NoTask
<1>6. ASSUME Head(q) # Task, TaskAlone(q) PROVE TaskAlone(t)
  <2>1. PICK k \in DOMAIN q : q[k] = Task /\ \A j \in DOMAIN q : q[j] = Task => j = k
    BY <1>6 DEF TaskAlone
  <2>2. k # 1 /\ k - 1 \in DOMAIN t /\ t[k - 1] = Task
    BY <1>2, <1>6, <2>1
  <2>3. \A j \in DOMAIN t : t[j] = Task => j = k - 1
    BY <1>2, <2>1
  <2> QED
    BY <2>2, <2>3 DEF TaskAlone
<1> QED
  BY <1>1, <1>2, <1>3, <1>4, <1>5, <1>6

LEMMA OpsAtTheEnd ==
    ASSUME AsioSchedulerAssumption, NEW q \in Seq(Ops \cup {Task}), NEW p \in Seq(Ops)
    PROVE  /\ q \o p \in Seq(Ops \cup {Task})
           /\ TaskAlone(q) => TaskAlone(q \o p)
           /\ NoTask(q) => NoTask(q \o p)
<1>1. PICK c : c = q \o p
  OBVIOUS
<1>2. /\ c \in Seq(Ops \cup {Task}) /\ DOMAIN q \subseteq DOMAIN c
      /\ \A k \in DOMAIN q : c[k] = q[k]
      /\ \A k \in DOMAIN c : k \notin DOMAIN q => c[k] \in Ops
  <2>1. \A k \in DOMAIN p : p[k] \in Ops
    OBVIOUS
  <2>2. \A k \in DOMAIN c : k \notin DOMAIN q => k - Len(q) \in DOMAIN p /\ c[k] = p[k - Len(q)]
    BY <1>1
  <2>3. c \in Seq(Ops \cup {Task})
    BY <1>1
  <2> QED
    BY <1>1, <2>1, <2>2, <2>3
<1>3. \A k \in DOMAIN c : k \notin DOMAIN q => c[k] # Task
  BY <1>2 DEF AsioSchedulerAssumption, Ops, Task
<1> QED
  BY <1>1, <1>2, <1>3 DEF TaskAlone, NoTask

LEMMA TaskAtTheEnd ==
    ASSUME AsioSchedulerAssumption, NEW q \in Seq(Ops \cup {Task}), NoTask(q)
    PROVE  q \o <<Task>> \in Seq(Ops \cup {Task}) /\ TaskAlone(q \o <<Task>>)
<1>1. PICK c : c = q \o <<Task>>
  OBVIOUS
<1>2. /\ c \in Seq(Ops \cup {Task}) /\ Len(q) + 1 \in DOMAIN c /\ c[Len(q) + 1] = Task
      /\ \A k \in DOMAIN c : k # Len(q) + 1 => k \in DOMAIN q /\ c[k] = q[k]
  BY <1>1
<1> QED
  BY <1>1, <1>2 DEF TaskAlone, NoTask

LEMMA AppendOp ==
    ASSUME AsioSchedulerAssumption, NEW q \in Seq(Ops \cup {Task}), NEW i \in Ops
    PROVE  /\ Append(q, i) \in Seq(Ops \cup {Task})
           /\ TaskAlone(q) => TaskAlone(Append(q, i))
           /\ NoTask(q) => NoTask(Append(q, i))
<1>1. <<i>> \in Seq(Ops) /\ Append(q, i) = q \o <<i>>
  OBVIOUS
<1> QED
  BY <1>1, OpsAtTheEnd

-----------------------------------------------------------------------------
(* Steps that move one thread or none                                      *)

\* A thread that is not in the reactor before or after leaves the task where it is.
LEMMA ReactorUntouched ==
    ASSUME SchedTypes, NEW r \in Runners, NEW place,
           pc' = [pc EXCEPT ![r] = place],
           pc[r] \notin {"polling", "blocking", "returning"},
           place \notin {"polling", "blocking", "returning"}
    PROVE  /\ InReactor' = InReactor
           /\ \A s \in Runners : pc'[s] = "blocking" => pc[s] = "blocking"
  BY DEF SchedTypes, InReactor

LEMMA EventTypes ==
    ASSUME SchedTypes
    PROVE  /\ event.signalled \in BOOLEAN /\ event.waiters \subseteq Runners
           /\ event.woken \subseteq event.waiters
  BY DEF SchedTypes

\* Waking changes who sleeps through, not who waits.
LEMMA SignalOneWakes ==
    ASSUME SchedTypes, SignalOne
    PROVE  /\ event' \in [signalled : BOOLEAN, waiters : SUBSET Runners, woken : SUBSET Runners]
           /\ event'.waiters = event.waiters /\ event'.woken \subseteq event.waiters
           /\ event.woken \subseteq event'.woken /\ event'.signalled
           /\ event.waiters # {} => event'.woken # {}
<1>1. CASE Asleep # {}
  <2>1. PICK r \in Asleep :
          event' = [event EXCEPT !.signalled = TRUE, !.woken = @ \cup {r}]
    BY <1>1 DEF SignalOne
  <2>2. r \in event.waiters
    BY <2>1 DEF Asleep
  <2>3. PICK e : e = [event EXCEPT !.signalled = TRUE, !.woken = @ \cup {r}]
    OBVIOUS
  <2>4. e.signalled /\ e.waiters = event.waiters /\ e.woken = event.woken \cup {r}
        /\ e \in [signalled : BOOLEAN, waiters : SUBSET Runners, woken : SUBSET Runners]
    BY <2>2, <2>3 DEF SchedTypes
  <2> QED
    BY <2>1, <2>2, <2>3, <2>4, EventTypes
<1>2. CASE Asleep = {} /\ event' = [event EXCEPT !.signalled = TRUE]
  <2>1. /\ event'.signalled /\ event'.waiters = event.waiters /\ event'.woken = event.woken
        /\ event' \in [signalled : BOOLEAN, waiters : SUBSET Runners, woken : SUBSET Runners]
    BY <1>2 DEF SchedTypes
  <2> QED
    BY <1>2, <2>1, EventTypes DEF Asleep
<1> QED
  BY <1>1, <1>2 DEF SignalOne

LEMMA StopAllWakes ==
    ASSUME SchedTypes, StopAll
    PROVE  /\ event' \in [signalled : BOOLEAN, waiters : SUBSET Runners, woken : SUBSET Runners]
           /\ event'.waiters = event.waiters /\ event'.woken = event.waiters
           /\ ioStopped' /\ ioStopped' \in BOOLEAN /\ task_interrupted' \in BOOLEAN
           /\ interrupt' \in BOOLEAN
           /\ \A r \in Runners : pc[r] = "blocking" /\ InterruptStands => interrupt'
<1>1. event' = [event EXCEPT !.signalled = TRUE, !.woken = event.waiters]
  BY DEF StopAll, SignalAll
<1>2. /\ event' \in [signalled : BOOLEAN, waiters : SUBSET Runners, woken : SUBSET Runners]
      /\ event'.waiters = event.waiters /\ event'.woken = event.waiters
  BY <1>1 DEF SchedTypes
<1> QED
  BY <1>2 DEF StopAll, InterruptTask, InterruptStands, SchedTypes

\* Somebody comes for what wake_one_thread_and_unlock was called for: a sleeper,
\* or else the thread in the reactor, or else a thread that is on its way.
LEMMA WakeOneWakes ==
    ASSUME SchedInv, WakeOne
    PROVE  /\ event' \in [signalled : BOOLEAN, waiters : SUBSET Runners, woken : SUBSET Runners]
           /\ event'.waiters = event.waiters /\ event'.woken \subseteq event.waiters
           /\ event.woken \subseteq event'.woken /\ event'.signalled
           /\ interrupt' \in BOOLEAN /\ task_interrupted' \in BOOLEAN
           /\ interrupt => interrupt'
           /\ \A r \in Runners : pc[r] = "blocking" /\ task_interrupted' => interrupt'
           /\ ~ioStopped => \E r \in Runners :
                 \/ pc[r] \in {"loop", "polling", "returning", "handler"}
                 \/ pc[r] = "blocking" /\ interrupt'
                 \/ r \in event'.woken
<1>0. SchedTypes /\ InterruptStands /\ SomebodyIn /\ SignalOne
  BY DEF SchedInv, WakeOne
<1>1. /\ event' \in [signalled : BOOLEAN, waiters : SUBSET Runners, woken : SUBSET Runners]
      /\ event'.waiters = event.waiters /\ event'.woken \subseteq event.waiters
      /\ event.woken \subseteq event'.woken /\ event'.signalled
      /\ event.waiters # {} => event'.woken # {}
  BY <1>0, SignalOneWakes
<1>2. event.waiters \subseteq Runners
  BY <1>0, EventTypes
<1>3. CASE event.waiters # {}
  <2>1. task_interrupted' = task_interrupted /\ interrupt' = interrupt
    BY <1>3 DEF WakeOne
  <2>2. \E r \in Runners : r \in event'.woken
    BY <1>1, <1>2, <1>3
  <2> QED
    BY <1>0, <1>1, <2>1, <2>2 DEF SchedTypes, InterruptStands
<1>4. CASE event.waiters = {}
  <2>1. task_interrupted' = TRUE /\ interrupt' = (interrupt \/ ~task_interrupted)
    BY <1>4 DEF WakeOne, InterruptTask
  <2>2. interrupt' \in BOOLEAN /\ (interrupt => interrupt')
    BY <1>0, <2>1 DEF SchedTypes
  <2>3. \A r \in Runners : pc[r] = "blocking" => interrupt'
    BY <1>0, <2>1 DEF SchedTypes, InterruptStands
  <2>4. ASSUME ~ioStopped
        PROVE  \E r \in Runners :
                 \/ pc[r] \in {"loop", "polling", "returning", "handler"}
                 \/ pc[r] = "blocking" /\ interrupt'
    <3>1. PICK r \in Runners : pc[r] # "out"
      BY <1>0, <2>4 DEF SomebodyIn
    <3>2. pc[r] # "asleep" /\ pc[r] \in Places
      BY <1>0, <1>4 DEF SchedTypes
    <3> QED
      BY <2>3, <3>1, <3>2 DEF Places
  <2> QED
    BY <1>1, <2>1, <2>2, <2>3, <2>4
<1> QED
  BY <1>3, <1>4

-----------------------------------------------------------------------------
(* Each action keeps the invariant                                         *)

LEMMA Numbers ==
    ASSUME AsioSchedulerAssumption
    PROVE  /\ \A i \in Ops : i < MaxOps => i + 1 \in Ops
           /\ Task \notin Ops
  BY DEF AsioSchedulerAssumption, Ops, Task

LEMMA LeaveStep ==
    ASSUME SchedInv, NEW r \in Runners, pc[r] = "loop", Leave(r)
    PROVE  SchedInv'
<1>0. SchedTypes /\ TaskHeld /\ InterruptStands
  BY DEF SchedInv
<1>1. pc' = [pc EXCEPT ![r] = "out"] /\ ioStopped /\ UNCHANGED <<op_queue, task_interrupted, ioStopped,
        event, interrupt, private, waiting_io, issued>>
  BY DEF Leave, At
<1>2. SchedTypes'
  BY <1>0, <1>1 DEF SchedTypes, Places
<1>3. InReactor' = InReactor /\ \A s \in Runners : pc'[s] = "blocking" => pc[s] = "blocking"
  BY <1>0, <1>1, ReactorUntouched
<1>4. TaskHeld' /\ InterruptStands'
  BY <1>0, <1>1, <1>3 DEF TaskHeld, InterruptStands
<1> QED
  BY <1>1, <1>2, <1>4 DEF SchedInv, SomebodyIn, WorkIsSeen

LEMMA SleepStep ==
    ASSUME SchedInv, NEW r \in Runners, pc[r] = "loop", Sleep(r)
    PROVE  SchedInv'
<1>0. SchedTypes /\ TaskHeld /\ InterruptStands
  BY DEF SchedInv
<1>1. /\ pc' = [pc EXCEPT ![r] = "asleep"] /\ op_queue = <<>>
      /\ event' = [event EXCEPT !.signalled = FALSE, !.waiters = @ \cup {r}]
      /\ UNCHANGED <<op_queue, task_interrupted, ioStopped, interrupt, private, waiting_io, issued>>
  BY DEF Sleep, At
<1>2. /\ event' \in [signalled : BOOLEAN, waiters : SUBSET Runners, woken : SUBSET Runners]
      /\ event'.woken = event.woken /\ event'.waiters = event.waiters \cup {r}
  BY <1>0, <1>1 DEF SchedTypes
<1>3. SchedTypes'
  BY <1>0, <1>1, <1>2 DEF SchedTypes, Places
<1>4. InReactor' = InReactor /\ \A s \in Runners : pc'[s] = "blocking" => pc[s] = "blocking"
  BY <1>0, <1>1, ReactorUntouched
<1>5. TaskHeld' /\ InterruptStands'
  BY <1>0, <1>1, <1>4 DEF TaskHeld, InterruptStands
<1>6. pc'[r] # "out"
  BY <1>0, <1>1 DEF SchedTypes
<1>7. Queued' = {}
  BY <1>1 DEF Queued
<1> QED
  BY <1>3, <1>5, <1>6, <1>7 DEF SchedInv, SomebodyIn, WorkIsSeen

\* Who takes the task out of the queue is alone in the reactor with it.
LEMMA TakeTaskStep ==
    ASSUME AsioSchedulerAssumption, SchedInv, NEW r \in Runners, pc[r] = "loop", TakeTask(r)
    PROVE  SchedInv'
<1>0. SchedTypes /\ TaskHeld /\ InterruptStands
  BY DEF SchedInv
<1>1. PICK q \in Seq(Ops \cup {Task}) : q = op_queue
  BY <1>0 DEF SchedTypes
<1>2. /\ q # <<>> /\ Head(q) = Task /\ op_queue' = Tail(q)
      /\ task_interrupted' = (Tail(q) # <<>>)
      /\ UNCHANGED <<ioStopped, interrupt, private, waiting_io, issued>>
  BY <1>1 DEF TakeTask
<1>3. /\ Tail(q) \in Seq(Ops \cup {Task})
      /\ ~NoTask(q) /\ (TaskAlone(q) => NoTask(Tail(q)))
  BY <1>1, <1>2, TailOfQueue
<1>4. InReactor = {} /\ NoTask(Tail(q))
  BY <1>0, <1>1, <1>3 DEF TaskHeld
<1>5. \A s \in Runners : pc[s] \notin {"polling", "blocking", "returning"}
  BY <1>4 DEF InReactor
<1>6. /\ event' \in [signalled : BOOLEAN, waiters : SUBSET Runners, woken : SUBSET Runners]
      /\ event'.waiters = event.waiters /\ event'.woken \subseteq event'.waiters
  <2>1. CASE Tail(q) # <<>>
    BY <1>0, <1>1, <2>1, SignalOneWakes DEF TakeTask
  <2>2. CASE Tail(q) = <<>>
    BY <1>0, <1>1, <2>2 DEF TakeTask, SchedTypes
  <2> QED
    BY <2>1, <2>2
<1>7. PICK place \in {"polling", "blocking"} :
        /\ pc' = [pc EXCEPT ![r] = place]
        /\ place = "blocking" => Tail(q) = <<>>
  BY <1>1 DEF TakeTask, At
<1>8. /\ pc'[r] = place /\ \A s \in Runners : s # r => pc'[s] = pc[s]
      /\ pc' \in [Runners -> Places]
  BY <1>0, <1>7 DEF SchedTypes, Places
<1>9. SchedTypes'
  <2>1. task_interrupted' \in BOOLEAN
    BY <1>2
  <2>2. \A s \in Runners : (s \in event'.waiters) <=> (pc'[s] = "asleep")
    BY <1>0, <1>6, <1>7, <1>8 DEF SchedTypes
  <2> QED
    BY <1>0, <1>2, <1>3, <1>6, <1>8, <2>1, <2>2 DEF SchedTypes
<1>10. InReactor' = {r}
  BY <1>5, <1>7, <1>8 DEF InReactor
<1>11. TaskHeld'
  BY <1>2, <1>4, <1>10 DEF TaskHeld
<1>12. InterruptStands'
  BY <1>2, <1>5, <1>7, <1>8 DEF InterruptStands
<1>13. SomebodyIn'
  BY <1>7, <1>8 DEF SomebodyIn
<1>14. WorkIsSeen'
  <2>1. CASE place = "polling"
    BY <1>8, <2>1 DEF WorkIsSeen, Comes
  <2>2. CASE place = "blocking"
    BY <1>2, <1>7, <2>2 DEF WorkIsSeen, Queued
  <2> QED
    BY <1>7, <2>1, <2>2
<1> QED
  BY <1>9, <1>11, <1>12, <1>13, <1>14 DEF SchedInv

LEMMA TakeOpStep ==
    ASSUME AsioSchedulerAssumption, SchedInv, NEW r \in Runners, pc[r] = "loop", TakeOp(r)
    PROVE  SchedInv'
<1>0. SchedTypes /\ TaskHeld /\ InterruptStands
  BY DEF SchedInv
<1>1. PICK q \in Seq(Ops \cup {Task}) : q = op_queue
  BY <1>0 DEF SchedTypes
<1>2. /\ q # <<>> /\ Head(q) # Task /\ op_queue' = Tail(q)
      /\ pc' = [pc EXCEPT ![r] = "handler"]
      /\ WakeOne \/ UNCHANGED <<event, task_interrupted, interrupt>>
      /\ UNCHANGED <<ioStopped, private, waiting_io, issued>>
  BY <1>1 DEF TakeOp, At
<1>3. /\ Tail(q) \in Seq(Ops \cup {Task})
      /\ TaskAlone(q) => TaskAlone(Tail(q))
      /\ NoTask(q) => NoTask(Tail(q))
  BY <1>1, <1>2, TailOfQueue
<1>4. /\ event' \in [signalled : BOOLEAN, waiters : SUBSET Runners, woken : SUBSET Runners]
      /\ event'.waiters = event.waiters /\ event'.woken \subseteq event'.waiters
      /\ interrupt' \in BOOLEAN /\ task_interrupted' \in BOOLEAN
      /\ \A s \in Runners : pc[s] = "blocking" /\ task_interrupted' => interrupt'
  <2>1. CASE WakeOne
    BY <2>1, WakeOneWakes
  <2>2. CASE UNCHANGED <<event, task_interrupted, interrupt>>
    BY <1>0, <2>2 DEF SchedTypes, InterruptStands
  <2> QED
    BY <1>2, <2>1, <2>2
<1>5. pc'[r] = "handler" /\ pc' \in [Runners -> Places] /\ \A s \in Runners : s # r => pc'[s] = pc[s]
  BY <1>0, <1>2 DEF SchedTypes, Places
<1>6. SchedTypes'
  <2>1. \A s \in Runners : (s \in event'.waiters) <=> (pc'[s] = "asleep")
    BY <1>0, <1>4, <1>5 DEF SchedTypes
  <2> QED
    BY <1>0, <1>2, <1>3, <1>4, <1>5, <2>1 DEF SchedTypes
<1>7. InReactor' = InReactor /\ \A s \in Runners : pc'[s] = "blocking" => pc[s] = "blocking"
  BY <1>0, <1>2, ReactorUntouched
<1>8. TaskHeld' /\ InterruptStands'
  BY <1>0, <1>1, <1>2, <1>3, <1>4, <1>7 DEF TaskHeld, InterruptStands
<1>9. SomebodyIn' /\ WorkIsSeen'
  BY <1>5 DEF SomebodyIn, WorkIsSeen, Comes
<1> QED
  BY <1>6, <1>8, <1>9 DEF SchedInv

\* A sleeper that finds the flag cleared goes back to sleep: somebody else found
\* the queue empty after it was woken.
LEMMA WakeStep ==
    ASSUME SchedInv, NEW r \in Runners, Wake(r)
    PROVE  SchedInv'
<1>0. SchedTypes /\ TaskHeld /\ InterruptStands /\ SomebodyIn /\ WorkIsSeen
  BY DEF SchedInv
<1>1. /\ r \in event.woken /\ pc[r] = "asleep"
      /\ UNCHANGED <<op_queue, task_interrupted, ioStopped, interrupt, private, waiting_io, issued>>
  BY <1>0 DEF Wake, SchedTypes
<1>2. CASE event.signalled
  <2>1. /\ event' = [event EXCEPT !.waiters = @ \ {r}, !.woken = @ \ {r}]
        /\ pc' = [pc EXCEPT ![r] = "loop"]
    BY <1>2 DEF Wake, At
  <2>2. /\ event' \in [signalled : BOOLEAN, waiters : SUBSET Runners, woken : SUBSET Runners]
        /\ event'.waiters = event.waiters \ {r} /\ event'.woken = event.woken \ {r}
    BY <1>0, <2>1 DEF SchedTypes
  <2>3. pc'[r] = "loop" /\ pc' \in [Runners -> Places] /\ \A s \in Runners : s # r => pc'[s] = pc[s]
    BY <1>0, <2>1 DEF SchedTypes, Places
  <2>4. SchedTypes'
    <3>1. \A s \in Runners : (s \in event'.waiters) <=> (pc'[s] = "asleep")
      BY <1>0, <2>2, <2>3 DEF SchedTypes
    <3> QED
      BY <1>0, <1>1, <2>2, <2>3, <3>1 DEF SchedTypes
  <2>5. InReactor' = InReactor /\ \A s \in Runners : pc'[s] = "blocking" => pc[s] = "blocking"
    BY <1>0, <1>1, <2>1, ReactorUntouched
  <2>6. TaskHeld' /\ InterruptStands'
    BY <1>0, <1>1, <2>5 DEF TaskHeld, InterruptStands
  <2>7. SomebodyIn' /\ WorkIsSeen'
    BY <2>3 DEF SomebodyIn, WorkIsSeen, Comes
  <2> QED
    BY <2>4, <2>6, <2>7 DEF SchedInv
<1>3. CASE ~event.signalled
  <2>1. event' = [event EXCEPT !.woken = @ \ {r}] /\ pc' = pc
    BY <1>3 DEF Wake
  <2>2. /\ event' \in [signalled : BOOLEAN, waiters : SUBSET Runners, woken : SUBSET Runners]
        /\ event'.waiters = event.waiters /\ event'.woken = event.woken \ {r}
    BY <1>0, <2>1 DEF SchedTypes
  <2>3. SchedTypes'
    BY <1>0, <1>1, <2>1, <2>2 DEF SchedTypes
  <2>4. TaskHeld' /\ InterruptStands' /\ SomebodyIn'
    BY <1>0, <1>1, <2>1 DEF TaskHeld, InReactor, InterruptStands, SomebodyIn
  <2>5. \A s \in Runners : Comes(s) => Comes(s)'
    BY <1>1, <1>3, <2>1 DEF Comes
  <2>6. WorkIsSeen'
    <3>1. Queued' = Queued
      BY <1>1 DEF Queued
    <3> QED
      BY <1>0, <1>1, <2>5, <3>1 DEF WorkIsSeen
  <2> QED
    BY <2>3, <2>4, <2>6 DEF SchedInv
<1> QED
  BY <1>2, <1>3

LEMMA EpollStep ==
    ASSUME AsioSchedulerAssumption, SchedInv, NEW r \in Runners,
           NEW ready \in SUBSET waiting_io, EpollReturns(r, ready)
    PROVE  SchedInv'
<1>0. SchedTypes /\ TaskHeld /\ InterruptStands
  BY DEF SchedInv
<1>1. PICK n \in Nat : n = Cardinality(ready)
  <2>1. IsFiniteSet(Ops)
    BY FS_Interval DEF Ops, AsioSchedulerAssumption
  <2>2. ready \subseteq Ops
    BY <1>0 DEF SchedTypes
  <2> QED
    BY <2>1, <2>2, FS_Subset, FS_CardinalityType
<1>2. PICK q \in InOrder(ready) : private' = [private EXCEPT ![r] = q]
  BY DEF EpollReturns
<1>3. q \in Seq(Ops)
  <2>1. q \in [1..n -> ready]
    BY <1>1, <1>2 DEF InOrder
  <2>2. q \in [1..n -> Ops]
    BY <1>0, <2>1 DEF SchedTypes
  <2> QED
    BY <1>1, <2>2
<1>4. /\ pc[r] \in {"polling", "blocking"} /\ pc' = [pc EXCEPT ![r] = "returning"]
      /\ waiting_io' = waiting_io \ ready
      /\ interrupt' = FALSE
      /\ UNCHANGED <<op_queue, task_interrupted, ioStopped, event, issued>>
  BY DEF EpollReturns, At
<1>5. pc'[r] = "returning" /\ pc' \in [Runners -> Places] /\ \A s \in Runners : s # r => pc'[s] = pc[s]
  BY <1>0, <1>4 DEF SchedTypes, Places
<1>6. SchedTypes'
  <2>1. private' \in [Runners -> Seq(Ops)]
    BY <1>0, <1>2, <1>3 DEF SchedTypes
  <2>2. \A s \in Runners : (s \in event'.waiters) <=> (pc'[s] = "asleep")
    BY <1>0, <1>4, <1>5 DEF SchedTypes
  <2> QED
    BY <1>0, <1>4, <1>5, <2>1, <2>2 DEF SchedTypes
<1>7. InReactor = {r} /\ NoTask(op_queue)
  BY <1>0, <1>4 DEF TaskHeld, InReactor
<1>8. \A s \in Runners : s # r => pc[s] \notin {"polling", "blocking", "returning"}
  BY <1>7 DEF InReactor
<1>9. InReactor' = {r}
  BY <1>5, <1>8 DEF InReactor
<1>10. TaskHeld' /\ InterruptStands'
  BY <1>4, <1>5, <1>7, <1>8, <1>9 DEF TaskHeld, InterruptStands
<1>11. SomebodyIn' /\ WorkIsSeen'
  BY <1>5 DEF SomebodyIn, WorkIsSeen, Comes
<1> QED
  BY <1>6, <1>10, <1>11 DEF SchedInv

LEMMA CleanUpTaskStep ==
    ASSUME AsioSchedulerAssumption, SchedInv, NEW r \in Runners, CleanUpTask(r)
    PROVE  SchedInv'
<1>0. SchedTypes /\ TaskHeld /\ InterruptStands
  BY DEF SchedInv
<1>1. PICK q \in Seq(Ops \cup {Task}), p \in Seq(Ops) : q = op_queue /\ p = private[r]
  BY <1>0 DEF SchedTypes
<1>2. /\ pc[r] = "returning" /\ pc' = [pc EXCEPT ![r] = "loop"]
      /\ task_interrupted' = TRUE
      /\ op_queue' = (q \o p) \o <<Task>>
      /\ private' = [private EXCEPT ![r] = <<>>]
      /\ UNCHANGED <<ioStopped, event, interrupt, waiting_io, issued>>
  BY <1>1 DEF CleanUpTask, At
<1>3. InReactor = {r} /\ NoTask(q)
  BY <1>0, <1>1, <1>2 DEF TaskHeld, InReactor
<1>4. op_queue' \in Seq(Ops \cup {Task}) /\ TaskAlone(op_queue')
  <2>1. q \o p \in Seq(Ops \cup {Task}) /\ NoTask(q \o p)
    BY <1>3, OpsAtTheEnd
  <2> QED
    BY <1>2, <2>1, TaskAtTheEnd
<1>5. pc'[r] = "loop" /\ pc' \in [Runners -> Places] /\ \A s \in Runners : s # r => pc'[s] = pc[s]
  BY <1>0, <1>2 DEF SchedTypes, Places
<1>6. SchedTypes'
  <2>1. <<>> \in Seq(Ops)
    OBVIOUS
  <2>2. private' \in [Runners -> Seq(Ops)]
    BY <1>0, <1>2, <2>1 DEF SchedTypes
  <2>3. \A s \in Runners : (s \in event'.waiters) <=> (pc'[s] = "asleep")
    BY <1>0, <1>2, <1>5 DEF SchedTypes
  <2> QED
    BY <1>0, <1>2, <1>4, <1>5, <2>2, <2>3 DEF SchedTypes
<1>7. \A s \in Runners : pc'[s] \notin {"polling", "blocking", "returning"}
  BY <1>3, <1>5 DEF InReactor
<1>8. TaskHeld' /\ InterruptStands'
  BY <1>4, <1>7 DEF TaskHeld, TaskAlone, InReactor, InterruptStands
<1>9. SomebodyIn' /\ WorkIsSeen'
  BY <1>5 DEF SomebodyIn, WorkIsSeen, Comes
<1> QED
  BY <1>6, <1>8, <1>9 DEF SchedInv

LEMMA CleanUpWorkStep ==
    ASSUME AsioSchedulerAssumption, SchedInv, NEW r \in Runners, CleanUpWork(r)
    PROVE  SchedInv'
<1>0. SchedTypes /\ TaskHeld /\ InterruptStands
  BY DEF SchedInv
<1>1. PICK q \in Seq(Ops \cup {Task}), p \in Seq(Ops) : q = op_queue /\ p = private[r]
  BY <1>0 DEF SchedTypes
<1>2. /\ pc[r] = "handler" /\ pc' = [pc EXCEPT ![r] = "loop"]
      /\ op_queue' = q \o p
      /\ private' = [private EXCEPT ![r] = <<>>]
      /\ StopAll \/ UNCHANGED <<ioStopped, event, task_interrupted, interrupt>>
      /\ UNCHANGED <<waiting_io, issued>>
  BY <1>1 DEF CleanUpWork, At
<1>3. /\ op_queue' \in Seq(Ops \cup {Task})
      /\ TaskAlone(q) => TaskAlone(q \o p)
      /\ NoTask(q) => NoTask(q \o p)
  BY <1>2, OpsAtTheEnd
<1>4. /\ event' \in [signalled : BOOLEAN, waiters : SUBSET Runners, woken : SUBSET Runners]
      /\ event'.waiters = event.waiters /\ event'.woken \subseteq event'.waiters
      /\ interrupt' \in BOOLEAN /\ task_interrupted' \in BOOLEAN /\ ioStopped' \in BOOLEAN
      /\ \A s \in Runners : pc[s] = "blocking" /\ task_interrupted' => interrupt'
  <2>1. CASE StopAll
    BY <1>0, <2>1, StopAllWakes
  <2>2. CASE UNCHANGED <<ioStopped, event, task_interrupted, interrupt>>
    BY <1>0, <2>2 DEF SchedTypes, InterruptStands
  <2> QED
    BY <1>2, <2>1, <2>2
<1>5. pc'[r] = "loop" /\ pc' \in [Runners -> Places] /\ \A s \in Runners : s # r => pc'[s] = pc[s]
  BY <1>0, <1>2 DEF SchedTypes, Places
<1>6. SchedTypes'
  <2>1. <<>> \in Seq(Ops)
    OBVIOUS
  <2>2. private' \in [Runners -> Seq(Ops)]
    BY <1>0, <1>2, <2>1 DEF SchedTypes
  <2>3. \A s \in Runners : (s \in event'.waiters) <=> (pc'[s] = "asleep")
    BY <1>0, <1>2, <1>4, <1>5 DEF SchedTypes
  <2> QED
    BY <1>0, <1>2, <1>3, <1>4, <1>5, <2>2, <2>3 DEF SchedTypes
<1>7. InReactor' = InReactor /\ \A s \in Runners : pc'[s] = "blocking" => pc[s] = "blocking"
  BY <1>0, <1>2, ReactorUntouched
<1>8. TaskHeld' /\ InterruptStands'
  BY <1>0, <1>1, <1>2, <1>3, <1>4, <1>7 DEF TaskHeld, InterruptStands
<1>9. SomebodyIn' /\ WorkIsSeen'
  BY <1>5 DEF SomebodyIn, WorkIsSeen, Comes
<1> QED
  BY <1>6, <1>8, <1>9 DEF SchedInv

LEMMA HandlerStartsIoStep ==
    ASSUME AsioSchedulerAssumption, SchedInv, NEW r \in Runners, HandlerStartsIo(r)
    PROVE  SchedInv'
<1>1. /\ issued < MaxOps /\ issued' = issued + 1 /\ waiting_io' = waiting_io \cup {issued + 1}
      /\ UNCHANGED <<op_queue, task_interrupted, ioStopped, event, interrupt, pc, private>>
  BY DEF HandlerStartsIo
<1>2. issued' \in Ops /\ waiting_io' \subseteq Ops
  BY <1>1, Numbers DEF SchedInv, SchedTypes
<1> QED
  BY <1>1, <1>2 DEF SchedInv, SchedTypes, TaskHeld, InReactor, InterruptStands, SomebodyIn,
                    WorkIsSeen, Queued, Comes

LEMMA HandlerPostsStep ==
    ASSUME AsioSchedulerAssumption, SchedInv, NEW r \in Runners, HandlerPosts(r)
    PROVE  SchedInv'
<1>1. /\ issued < MaxOps /\ issued' = issued + 1
      /\ private' = [private EXCEPT ![r] = Append(@, issued + 1)]
      /\ UNCHANGED <<op_queue, task_interrupted, ioStopped, event, interrupt, pc, waiting_io>>
  BY DEF HandlerPosts
<1>2. PICK i \in Ops : i = issued + 1
  BY <1>1, Numbers DEF SchedInv, SchedTypes
<1>3. issued' \in Ops /\ private' \in [Runners -> Seq(Ops)]
  <2>1. private[r] \in Seq(Ops)
    BY DEF SchedInv, SchedTypes
  <2>2. Append(private[r], i) \in Seq(Ops)
    BY <1>2, <2>1
  <2> QED
    BY <1>1, <1>2, <2>2 DEF SchedInv, SchedTypes
<1> QED
  BY <1>1, <1>3 DEF SchedInv, SchedTypes, TaskHeld, InReactor, InterruptStands, SomebodyIn,
                    WorkIsSeen, Queued, Comes

LEMMA PostStep ==
    ASSUME AsioSchedulerAssumption, SchedInv, Post
    PROVE  SchedInv'
<1>0. SchedTypes /\ TaskHeld /\ SomebodyIn
  BY DEF SchedInv
<1>1. PICK q \in Seq(Ops \cup {Task}) : q = op_queue
  BY <1>0 DEF SchedTypes
<1>2. /\ issued < MaxOps /\ issued' = issued + 1 /\ op_queue' = Append(q, issued + 1)
      /\ UNCHANGED <<ioStopped, pc, private, waiting_io>>
  BY <1>1 DEF Post
<1>3. PICK i \in Ops : i = issued + 1
  BY <1>2, Numbers DEF SchedInv, SchedTypes
<1>4. /\ op_queue' \in Seq(Ops \cup {Task})
      /\ TaskAlone(q) => TaskAlone(op_queue')
      /\ NoTask(q) => NoTask(op_queue')
  BY <1>2, <1>3, AppendOp
<1>5. /\ event' \in [signalled : BOOLEAN, waiters : SUBSET Runners, woken : SUBSET Runners]
      /\ event'.waiters = event.waiters /\ event'.woken \subseteq event'.waiters
      /\ event'.signalled
      /\ interrupt' \in BOOLEAN /\ task_interrupted' \in BOOLEAN
      /\ \A r \in Runners : pc[r] = "blocking" /\ task_interrupted' => interrupt'
      /\ ~ioStopped => \E r \in Runners :
            \/ pc[r] \in {"loop", "polling", "returning", "handler"}
            \/ pc[r] = "blocking" /\ interrupt'
            \/ r \in event'.woken
  BY WakeOneWakes DEF Post
<1>6. SchedTypes'
  BY <1>0, <1>2, <1>3, <1>4, <1>5 DEF SchedTypes
<1>7. TaskHeld'
  BY <1>0, <1>1, <1>2, <1>4 DEF TaskHeld, InReactor, TaskAlone, NoTask
<1>8. InterruptStands' /\ SomebodyIn' /\ WorkIsSeen'
  BY <1>0, <1>2, <1>5 DEF InterruptStands, SomebodyIn, WorkIsSeen, Comes
<1> QED
  BY <1>6, <1>7, <1>8 DEF SchedInv

LEMMA StopStep ==
    ASSUME SchedInv, StopContext
    PROVE  SchedInv'
<1>0. SchedTypes /\ TaskHeld /\ InterruptStands /\ StopAll
  BY DEF SchedInv, StopContext
<1>1. UNCHANGED <<op_queue, pc, private, waiting_io, issued>>
  BY DEF StopContext
<1>2. /\ event' \in [signalled : BOOLEAN, waiters : SUBSET Runners, woken : SUBSET Runners]
      /\ event'.waiters = event.waiters /\ event'.woken = event.waiters
      /\ ioStopped' /\ ioStopped' \in BOOLEAN /\ task_interrupted' \in BOOLEAN
      /\ interrupt' \in BOOLEAN
      /\ \A r \in Runners : pc[r] = "blocking" /\ InterruptStands => interrupt'
  BY <1>0, StopAllWakes
<1>3. SchedTypes'
  BY <1>0, <1>1, <1>2 DEF SchedTypes
<1>4. TaskHeld' /\ InterruptStands' /\ SomebodyIn' /\ WorkIsSeen'
  BY <1>0, <1>1, <1>2 DEF TaskHeld, InReactor, InterruptStands, SomebodyIn, WorkIsSeen
<1> QED
  BY <1>3, <1>4 DEF SchedInv

LEMMA InitSchedInv == AsioSchedulerAssumption /\ SchedulerInit => SchedInv
<1> SUFFICES ASSUME AsioSchedulerAssumption, SchedulerInit PROVE SchedInv
  OBVIOUS
<1>1. op_queue = <<Task>> /\ op_queue \in Seq(Ops \cup {Task}) /\ DOMAIN op_queue = {1} /\ op_queue[1] = Task
  BY DEF SchedulerInit
<1>2. 1 \in Ops
  BY DEF AsioSchedulerAssumption, Ops
<1>3. SchedTypes
  <2>1. <<>> \in Seq(Ops)
    OBVIOUS
  <2>2. private \in [Runners -> Seq(Ops)]
    BY <2>1 DEF SchedulerInit
  <2>3. event \in [signalled : BOOLEAN, waiters : SUBSET Runners, woken : SUBSET Runners]
        /\ event.waiters = {} /\ event.woken = {}
    BY DEF SchedulerInit
  <2>4. pc \in [Runners -> Places] /\ \A r \in Runners : pc[r] \in {"loop", "out"}
    BY DEF SchedulerInit, Places
  <2> QED
    BY <1>1, <1>2, <2>2, <2>3, <2>4 DEF SchedulerInit, SchedTypes
<1>4. \A r \in Runners : pc[r] \in {"loop", "out"}
  BY DEF SchedulerInit
<1>5. TaskHeld /\ InterruptStands
  BY <1>1, <1>4 DEF TaskHeld, TaskAlone, InReactor, InterruptStands
<1>6. SomebodyIn /\ WorkIsSeen
  BY <1>1 DEF SchedulerInit, SomebodyIn, WorkIsSeen, Queued
<1> QED
  BY <1>3, <1>5, <1>6 DEF SchedInv

LEMMA SchedStep == AsioSchedulerAssumption /\ SchedInv /\ [SchedulerNext]_schedVars => SchedInv'
<1> SUFFICES ASSUME AsioSchedulerAssumption, SchedInv, [SchedulerNext]_schedVars PROVE SchedInv'
  OBVIOUS
<1>1. CASE UNCHANGED schedVars
  BY <1>1 DEF schedVars, SchedInv, SchedTypes, TaskHeld, InReactor, InterruptStands, SomebodyIn,
              WorkIsSeen, Queued, Comes
<1>2. ASSUME NEW r \in Runners, Step(r) PROVE SchedInv'
  <2>1. {} \in SUBSET waiting_io
    OBVIOUS
  <2> QED
    BY <1>2, <2>1, LeaveStep, SleepStep, TakeTaskStep, TakeOpStep, WakeStep, EpollStep,
       CleanUpTaskStep, CleanUpWorkStep DEF Step, RunOne
<1> QED
  BY <1>1, <1>2, EpollStep, HandlerStartsIoStep, HandlerPostsStep, PostStep, StopStep DEF SchedulerNext

LEMMA SchedInvHolds == SchedulerSpec => []SchedInv
  BY AsioSchedulerAssumption, InitSchedInv, SchedStep, PTL DEF SchedulerSpec

-----------------------------------------------------------------------------
(* Theorems                                                                *)

\* Taking the task out of op_queue and putting it back never loses it and never
\* makes two of it: I/O goes on being waited for, by one thread at a time.
THEOREM TaskIsHeldOnce ==
    SchedulerSpec => []TaskHeldOnce
<1>1. ASSUME SchedInv PROVE TaskHeldOnce
  <2>1. CASE TaskAlone(op_queue) /\ InReactor = {}
    <3>1. PICK k \in DOMAIN op_queue :
            op_queue[k] = Task /\ \A j \in DOMAIN op_queue : op_queue[j] = Task => j = k
      BY <2>1 DEF TaskAlone
    <3>2. DOMAIN op_queue \ Queued = {k}
      BY <3>1 DEF Queued
    <3>3. Cardinality({k}) = 1 /\ Cardinality({}) = 0
      BY FS_Singleton, FS_EmptySet
    <3> QED
      BY <2>1, <3>2, <3>3 DEF TaskHeldOnce
  <2>2. CASE NoTask(op_queue) /\ \E r \in Runners : InReactor = {r}
    <3>1. DOMAIN op_queue \ Queued = {}
      BY <2>2 DEF NoTask, Queued
    <3>2. PICK r \in Runners : InReactor = {r}
      BY <2>2
    <3>3. Cardinality({r}) = 1 /\ Cardinality({}) = 0
      BY FS_Singleton, FS_EmptySet
    <3> QED
      BY <3>1, <3>2, <3>3 DEF TaskHeldOnce
  <2> QED
    BY <1>1, <2>1, <2>2 DEF SchedInv, TaskHeld
<1>2. SchedInv => TaskHeldOnce
  BY <1>1
<1> QED
  BY <1>2, SchedInvHolds, PTL

\* wake_one_thread_and_unlock and the interrupter lose no wake-up: while there is
\* an operation in op_queue some thread is awake, woken or about to be.
THEOREM WakeUpsAreNotLost ==
    SchedulerSpec => []NobodySleepsOverWork
<1>1. ASSUME SchedInv, Queued # {}, ~ioStopped
      PROVE  \E r \in Runners : r \notin Asleep /\ pc[r] # "out" /\ (pc[r] = "blocking" => interrupt)
  <2>1. PICK r \in Runners : Comes(r)
    BY <1>1 DEF SchedInv, WorkIsSeen
  <2>2. (r \in event.waiters) <=> (pc[r] = "asleep")
    BY <1>1 DEF SchedInv, SchedTypes
  <2>3. event.woken \subseteq event.waiters
    BY <1>1 DEF SchedInv, SchedTypes
  <2> QED
    BY <2>1, <2>2, <2>3 DEF Comes, Asleep
<1>2. SchedInv => NobodySleepsOverWork
  BY <1>1 DEF NobodySleepsOverWork
<1> QED
  BY <1>2, SchedInvHolds, PTL

-----------------------------------------------------------------------------
(* How much work a queue holds                                             *)

QueuedIn(q) == {k \in DOMAIN q : q[k] # Task}
Size(q) == Cardinality(QueuedIn(q))

\* A set of places moved by one has as many.
LEMMA Shifted ==
    ASSUME NEW S \in SUBSET Int, IsFiniteSet(S), NEW T \in SUBSET Int,
           \A k \in S : k + 1 \in T, \A k \in T : k - 1 \in S
    PROVE  IsFiniteSet(T) /\ Cardinality(T) = Cardinality(S)
<1>1. PICK f : f = [k \in S |-> k + 1]
  OBVIOUS
<1>2. f \in [S -> T] /\ \A k \in S : f[k] = k + 1
  BY <1>1
<1>3. \A j, k \in S : f[j] = f[k] => j = k
  BY <1>2
<1>4. \A t \in T : \E k \in S : f[k] = t
  BY <1>2
<1>5. f \in Bijection(S, T)
  BY <1>2, <1>3, <1>4 DEF Bijection, Injection, IsInjective, Surjection
<1>6. ExistsBijection(S, T)
  BY <1>5 DEF ExistsBijection
<1> QED
  BY <1>6, FS_Bijection

LEMMA QueuedIsFinite ==
    ASSUME NEW q \in Seq(Ops \cup {Task})
    PROVE  /\ QueuedIn(q) \subseteq 1..Len(q) /\ Len(q) \in Nat
           /\ IsFiniteSet(QueuedIn(q)) /\ Size(q) \in Nat
<1>1. QueuedIn(q) \subseteq 1..Len(q) /\ Len(q) \in Nat
  BY DEF QueuedIn
<1>2. IsFiniteSet(1..Len(q))
  BY <1>1, FS_Interval
<1>3. IsFiniteSet(QueuedIn(q))
  BY <1>1, <1>2, FS_Subset
<1> QED
  BY <1>1, <1>3, FS_CardinalityType DEF Size

LEMMA SizeOfTail ==
    ASSUME NEW q \in Seq(Ops \cup {Task}), q # <<>>
    PROVE  /\ Head(q) = Task => Size(Tail(q)) = Size(q)
           /\ Head(q) # Task => Size(Tail(q)) = Size(q) - 1
<1>1. PICK t : t = Tail(q)
  OBVIOUS
<1>2. /\ t \in Seq(Ops \cup {Task}) /\ 1 \in DOMAIN q /\ Head(q) = q[1]
      /\ \A k \in DOMAIN t : k + 1 \in DOMAIN q /\ k + 1 # 1 /\ t[k] = q[k + 1]
      /\ \A k \in DOMAIN q : k # 1 => k - 1 \in DOMAIN t /\ t[k - 1] = q[k]
      /\ DOMAIN q \subseteq Nat /\ DOMAIN t \subseteq Nat
  BY <1>1
<1>3. PICK S, T : S = QueuedIn(t) /\ T = QueuedIn(q) \ {1}
  OBVIOUS
<1>4. (\A k \in S : k + 1 \in T) /\ (\A k \in T : k - 1 \in S)
  <2>1. \A k : k \in S <=> k \in DOMAIN t /\ t[k] # Task
    BY <1>3 DEF QueuedIn
  <2>2. \A k : k \in T <=> k \in DOMAIN q /\ q[k] # Task /\ k # 1
    BY <1>3 DEF QueuedIn
  <2>3. \A k \in S : k + 1 \in T
    BY <1>2, <2>1, <2>2
  <2>4. \A k \in T : k - 1 \in S
    BY <1>2, <2>1, <2>2
  <2> QED
    BY <2>3, <2>4
<1>5. S \in SUBSET Int /\ IsFiniteSet(S) /\ T \in SUBSET Int
  <2>1. IsFiniteSet(S)
    BY <1>2, <1>3, QueuedIsFinite
  <2>2. S \subseteq DOMAIN t /\ T \subseteq DOMAIN q
    BY <1>3 DEF QueuedIn
  <2> QED
    BY <1>2, <2>1, <2>2
<1>6. Cardinality(T) = Cardinality(S)
  BY <1>4, <1>5, Shifted
<1>7. IsFiniteSet(QueuedIn(q)) /\ Size(q) \in Nat
  BY QueuedIsFinite
<1>8. Cardinality(T) = IF 1 \in QueuedIn(q) THEN Size(q) - 1 ELSE Size(q)
  BY <1>3, <1>7, FS_RemoveElement DEF Size
<1>9. 1 \in QueuedIn(q) <=> Head(q) # Task
  BY <1>2 DEF QueuedIn
<1> QED
  BY <1>1, <1>3, <1>6, <1>8, <1>9 DEF Size

LEMMA SizeOfConcat ==
    ASSUME NEW q \in Seq(Ops \cup {Task}), NEW p \in Seq(Ops)
    PROVE  Size(q \o p) = Size(q) + Len(p)
<1>1. PICK c : c = q \o p
  OBVIOUS
<1>2. /\ c \in Seq(Ops \cup {Task}) /\ DOMAIN q = 1..Len(q) /\ DOMAIN c = 1..(Len(q) + Len(p))
      /\ Len(q) \in Nat /\ Len(p) \in Nat
      /\ \A k \in DOMAIN q : c[k] = q[k]
      /\ \A k \in DOMAIN c : k \notin DOMAIN q => c[k] \in Ops
  <2>1. \A k \in DOMAIN p : p[k] \in Ops
    OBVIOUS
  <2>2. \A k \in DOMAIN c : k \notin DOMAIN q => k - Len(q) \in DOMAIN p /\ c[k] = p[k - Len(q)]
    BY <1>1
  <2>3. c \in Seq(Ops \cup {Task})
    BY <1>1
  <2> QED
    BY <1>1, <2>1, <2>2, <2>3
<1>3. PICK lo, hi : lo = QueuedIn(q) /\ hi = (Len(q) + 1)..(Len(q) + Len(p))
  OBVIOUS
<1>4. QueuedIn(c) = lo \cup hi
  <2>1. \A k \in DOMAIN c : k \notin DOMAIN q => c[k] # Task
    BY <1>2 DEF Ops, Task
  <2>2. \A k : k \in DOMAIN c <=> k \in DOMAIN q \/ k \in hi
    BY <1>2, <1>3
  <2>3. \A k \in hi : k \notin DOMAIN q
    BY <1>2, <1>3
  <2> QED
    BY <1>2, <1>3, <2>1, <2>2, <2>3 DEF QueuedIn
<1>5. lo \cap hi = {}
  BY <1>2, <1>3 DEF QueuedIn
<1>6. IsFiniteSet(lo) /\ Cardinality(lo) \in Nat /\ Cardinality(lo) = Size(q)
  BY <1>3, QueuedIsFinite DEF Size
<1>7. IsFiniteSet(hi) /\ Cardinality(hi) = Len(p)
  <2>1. PICK a, b : a = Len(q) + 1 /\ b = Len(q) + Len(p)
    OBVIOUS
  <2>2. a \in Int /\ b \in Int /\ hi = a..b /\ b - a + 1 = Len(p) /\ (a > b => Len(p) = 0)
    BY <1>2, <1>3, <2>1
  <2> QED
    BY <2>2, FS_Interval
<1>8. Cardinality(lo \cup hi) = Cardinality(lo) + Cardinality(hi) - Cardinality(lo \cap hi)
  BY <1>6, <1>7, FS_Union
<1>9. Cardinality(lo \cap hi) = 0
  BY <1>5, FS_EmptySet
<1> QED
  BY <1>1, <1>2, <1>4, <1>6, <1>7, <1>8, <1>9 DEF Size

LEMMA SizeWithTask ==
    ASSUME NEW q \in Seq(Ops \cup {Task})
    PROVE  Size(q \o <<Task>>) = Size(q)
<1>1. PICK c : c = q \o <<Task>>
  OBVIOUS
<1>2. /\ DOMAIN c = 1..(Len(q) + 1) /\ c[Len(q) + 1] = Task /\ Len(q) \in Nat
      /\ DOMAIN q = 1..Len(q)
      /\ \A k \in DOMAIN q : c[k] = q[k]
  BY <1>1
<1>3. \A k : k \in QueuedIn(c) <=> k \in QueuedIn(q)
  BY <1>2 DEF QueuedIn
<1>4. QueuedIn(c) = QueuedIn(q)
  BY <1>3
<1> QED
  BY <1>1, <1>4 DEF Size

-----------------------------------------------------------------------------
(* The work of an io_context                                               *)

Handlers == {r \in Runners : pc[r] = "handler"}

\* The operations that the threads of R hold.
HeldBy(R, held) == UNION {{<<r, k>> : k \in DOMAIN held[r]} : r \in R}

\* The parts of the sum are finite, threads that are not in the reactor nor in a
\* handler hold nothing back, and operations get numbers that are new.
WorkInv ==
    /\ running \in [Runners -> Ops \cup {0}]
    /\ IsFiniteSet(Handlers)
    /\ \A r \in Runners : pc[r] \notin {"returning", "handler"} => private[r] = <<>>
    /\ waiting_io \subseteq 1..issued
    /\ outstanding_work = Size(op_queue) + Cardinality(Handlers) + Cardinality(waiting_io)
                            + Cardinality(HeldBy(InReactor, private))

LEMMA HeldByNobody ==
    ASSUME NEW R, NEW held, \A r \in R : held[r] = <<>>
    PROVE  Cardinality(HeldBy(R, held)) = 0
<1>1. \A r \in R : DOMAIN held[r] = {}
  OBVIOUS
<1>2. HeldBy(R, held) = {}
  BY <1>1 DEF HeldBy
<1> QED
  BY <1>2, FS_EmptySet

LEMMA HeldByOne ==
    ASSUME NEW r, NEW held, held[r] \in Seq(Ops)
    PROVE  Cardinality(HeldBy({r}, held)) = Len(held[r]) /\ Len(held[r]) \in Nat
<1>0. PICK n \in Nat : n = Len(held[r]) /\ DOMAIN held[r] = 1..n
  OBVIOUS
<1>1. PICK T : T = {<<r, k>> : k \in 1..n}
  OBVIOUS
<1>2. HeldBy({r}, held) = T
  BY <1>0, <1>1 DEF HeldBy
<1>3. PICK f : f = [k \in 1..n |-> <<r, k>>]
  OBVIOUS
<1>4. f \in [1..n -> T] /\ (\A j, k \in 1..n : f[j] = f[k] => j = k) /\ \A t \in T : \E k \in 1..n : f[k] = t
  BY <1>1, <1>3
<1>5. f \in Bijection(1..n, T)
  BY <1>4 DEF Bijection, Injection, IsInjective, Surjection
<1>6. ExistsBijection(1..n, T)
  BY <1>5 DEF ExistsBijection
<1>7. Cardinality(T) = n
  BY <1>6, FS_CountingElements
<1> QED
  BY <1>0, <1>2, <1>7

LEMMA HeldBySame ==
    ASSUME NEW R, NEW held, NEW other, \A r \in R : other[r] = held[r]
    PROVE  HeldBy(R, other) = HeldBy(R, held)
  BY DEF HeldBy

\* The numbers that are summed.
LEMMA WorkParts ==
    ASSUME SchedTypes, WorkInv
    PROVE  /\ Size(op_queue) \in Nat
           /\ IsFiniteSet(Handlers) /\ Cardinality(Handlers) \in Nat
           /\ IsFiniteSet(waiting_io) /\ Cardinality(waiting_io) \in Nat
           /\ InReactor \subseteq Runners
<1>1. Size(op_queue) \in Nat
  BY QueuedIsFinite DEF SchedTypes
<1>2. IsFiniteSet(1..issued)
  <2>1. issued \in Int
    BY DEF SchedTypes, Ops
  <2> QED
    BY <2>1, FS_Interval
<1>3. IsFiniteSet(waiting_io) /\ IsFiniteSet(Handlers)
  BY <1>2, FS_Subset DEF WorkInv
<1> QED
  BY <1>1, <1>3, FS_CardinalityType DEF InReactor

LEMMA HeldIsCounted ==
    ASSUME SchedTypes, TaskHeld
    PROVE  Cardinality(HeldBy(InReactor, private)) \in Nat
<1>1. CASE InReactor = {}
  <2>1. Cardinality(HeldBy(InReactor, private)) = 0
    BY <1>1, HeldByNobody
  <2> QED
    BY <2>1
<1>2. ASSUME NEW r \in Runners, InReactor = {r}
      PROVE  Cardinality(HeldBy(InReactor, private)) \in Nat
  <2>1. private[r] \in Seq(Ops)
    BY DEF SchedTypes
  <2>2. Cardinality(HeldBy({r}, private)) \in Nat
    BY <2>1, HeldByOne
  <2> QED
    BY <1>2, <2>2
<1> QED
  BY <1>1, <1>2 DEF TaskHeld

\* A thread goes from one place to another that has no part in the work.
LEMMA MoveKeepsWork ==
    ASSUME SchedTypes, WorkInv, NEW r \in Runners, NEW place,
           pc' = [pc EXCEPT ![r] = place],
           pc[r] \notin {"handler", "polling", "blocking", "returning"},
           place \notin {"handler", "polling", "blocking", "returning"},
           Size(op_queue') = Size(op_queue),
           UNCHANGED <<outstanding_work, running, private, waiting_io, issued>>
    PROVE  WorkInv'
<1>1. pc'[r] = place /\ \A s \in Runners : s # r => pc'[s] = pc[s]
  BY DEF SchedTypes
<1>2. Handlers' = Handlers /\ InReactor' = InReactor
  BY <1>1 DEF Handlers, InReactor
<1>3. \A s \in Runners : pc'[s] \notin {"returning", "handler"} => private'[s] = <<>>
  BY <1>1 DEF WorkInv
<1> QED
  BY <1>2, <1>3 DEF WorkInv

LEMMA TakeTaskWork ==
    ASSUME SchedInv, WorkInv, NEW r \in Runners, pc[r] = "loop", TakeTask(r)
    PROVE  WorkInv'
<1>0. SchedTypes /\ TaskHeld
  BY DEF SchedInv
<1>1. PICK q \in Seq(Ops \cup {Task}) : q = op_queue
  BY <1>0 DEF SchedTypes
<1>2. /\ q # <<>> /\ Head(q) = Task /\ op_queue' = Tail(q)
      /\ UNCHANGED <<outstanding_work, running, private, waiting_io, issued>>
  BY <1>1 DEF TakeTask
<1>3. Size(op_queue') = Size(op_queue)
  BY <1>1, <1>2, SizeOfTail
<1>4. ~NoTask(q)
  BY <1>1, <1>2, AsioSchedulerAssumption, TailOfQueue
<1>5. InReactor = {}
  BY <1>0, <1>1, <1>4 DEF TaskHeld
<1>6. PICK place \in {"polling", "blocking"} : pc' = [pc EXCEPT ![r] = place]
  BY <1>1 DEF TakeTask, At
<1>7. pc'[r] = place /\ \A s \in Runners : s # r => pc'[s] = pc[s]
  BY <1>0, <1>6 DEF SchedTypes
<1>8. Handlers' = Handlers
  BY <1>6, <1>7 DEF Handlers
<1>9. InReactor' = {r} /\ private[r] = <<>>
  BY <1>5, <1>6, <1>7 DEF InReactor, WorkInv
<1>10. Cardinality(HeldBy(InReactor, private)) = 0
  BY <1>5, HeldByNobody
<1>11. Cardinality(HeldBy({r}, private)) = 0
  BY <1>9, HeldByNobody
<1>12. \A s \in Runners : pc'[s] \notin {"returning", "handler"} => private'[s] = <<>>
  BY <1>2, <1>7, <1>9 DEF WorkInv
<1> QED
  BY <1>2, <1>3, <1>8, <1>9, <1>10, <1>11, <1>12 DEF WorkInv

LEMMA TakeOpWork ==
    ASSUME SchedInv, WorkInv, NEW r \in Runners, pc[r] = "loop", TakeOp(r)
    PROVE  WorkInv'
<1>0. SchedTypes
  BY DEF SchedInv
<1>1. PICK q \in Seq(Ops \cup {Task}) : q = op_queue
  BY <1>0 DEF SchedTypes
<1>2. /\ q # <<>> /\ Head(q) # Task /\ op_queue' = Tail(q)
      /\ running' = [running EXCEPT ![r] = Head(q)]
      /\ pc' = [pc EXCEPT ![r] = "handler"]
      /\ UNCHANGED <<outstanding_work, private, waiting_io, issued>>
  BY <1>1 DEF TakeOp, At
<1>3. Size(op_queue') = Size(op_queue) - 1
  BY <1>1, <1>2, SizeOfTail
<1>4. Head(q) \in Ops
  BY <1>2
<1>5. running' \in [Runners -> Ops \cup {0}]
  BY <1>2, <1>4 DEF WorkInv
<1>6. pc'[r] = "handler" /\ \A s \in Runners : s # r => pc'[s] = pc[s]
  BY <1>0, <1>2 DEF SchedTypes
<1>7. Handlers' = Handlers \cup {r} /\ r \notin Handlers
  BY <1>6 DEF Handlers
<1>8. IsFiniteSet(Handlers') /\ Cardinality(Handlers') = Cardinality(Handlers) + 1
  BY <1>0, <1>7, WorkParts, FS_AddElement
<1>9. InReactor' = InReactor
  BY <1>0, <1>2, ReactorUntouched
<1>10. \A s \in Runners : pc'[s] \notin {"returning", "handler"} => private'[s] = <<>>
  BY <1>2, <1>6 DEF WorkInv
<1>11. Size(op_queue) \in Nat /\ Cardinality(Handlers) \in Nat
  BY <1>0, WorkParts
<1>12. Size(op_queue') + Cardinality(Handlers') = Size(op_queue) + Cardinality(Handlers)
  BY <1>3, <1>8, <1>11
<1> QED
  BY <1>2, <1>5, <1>8, <1>9, <1>10, <1>12 DEF WorkInv

LEMMA EpollWork ==
    ASSUME SchedInv, WorkInv, NEW r \in Runners, NEW ready \in SUBSET waiting_io, EpollReturns(r, ready)
    PROVE  WorkInv'
<1>0. SchedTypes /\ TaskHeld
  BY DEF SchedInv
<1>1. IsFiniteSet(waiting_io) /\ Cardinality(waiting_io) \in Nat
  BY <1>0, WorkParts
<1>2. IsFiniteSet(ready) /\ Cardinality(ready) \in Nat
  BY <1>1, FS_Subset, FS_CardinalityType
<1>3. PICK n \in Nat : n = Cardinality(ready)
  BY <1>2
<1>4. PICK q \in InOrder(ready) : private' = [private EXCEPT ![r] = q]
  BY DEF EpollReturns
<1>5. q \in Seq(Ops) /\ Len(q) = n
  <2>1. q \in [1..n -> ready]
    BY <1>3, <1>4 DEF InOrder
  <2>2. q \in [1..n -> Ops]
    BY <1>0, <2>1 DEF SchedTypes
  <2> QED
    BY <1>3, <2>2
<1>6. /\ pc[r] \in {"polling", "blocking"} /\ pc' = [pc EXCEPT ![r] = "returning"]
      /\ waiting_io' = waiting_io \ ready
      /\ UNCHANGED <<op_queue, outstanding_work, running, issued>>
  BY DEF EpollReturns, At
<1>7. pc'[r] = "returning" /\ \A s \in Runners : s # r => pc'[s] = pc[s]
  BY <1>0, <1>6 DEF SchedTypes
<1>8. private'[r] = q /\ \A s \in Runners : s # r => private'[s] = private[s]
  BY <1>0, <1>4 DEF SchedTypes
<1>9. InReactor = {r} /\ private[r] = <<>>
  BY <1>0, <1>6 DEF TaskHeld, InReactor, WorkInv
<1>10. InReactor' = {r} /\ Handlers' = Handlers
  BY <1>6, <1>7, <1>9 DEF InReactor, Handlers
<1>11. Cardinality(HeldBy({r}, private)) = 0
  BY <1>9, HeldByNobody
<1>12. Cardinality(HeldBy({r}, private')) = n
  BY <1>5, <1>8, HeldByOne
<1>13. Cardinality(waiting_io') = Cardinality(waiting_io) - n
  <2>1. waiting_io \cap ready = ready
    OBVIOUS
  <2> QED
    BY <1>1, <1>3, <1>6, <2>1, FS_Difference
<1>14. \A s \in Runners : pc'[s] \notin {"returning", "handler"} => private'[s] = <<>>
  BY <1>7, <1>8 DEF WorkInv
<1>15. Size(op_queue) \in Nat /\ Cardinality(Handlers) \in Nat
  BY <1>0, WorkParts
<1>16. outstanding_work' = Size(op_queue') + Cardinality(Handlers') + Cardinality(waiting_io')
                             + Cardinality(HeldBy(InReactor', private'))
  BY <1>1, <1>3, <1>6, <1>9, <1>10, <1>11, <1>12, <1>13, <1>15 DEF WorkInv
<1> QED
  BY <1>6, <1>10, <1>14, <1>16 DEF WorkInv

LEMMA CleanUpTaskWork ==
    ASSUME SchedInv, WorkInv, NEW r \in Runners, CleanUpTask(r)
    PROVE  WorkInv'
<1>0. SchedTypes /\ TaskHeld
  BY DEF SchedInv
<1>1. PICK q \in Seq(Ops \cup {Task}), p \in Seq(Ops) : q = op_queue /\ p = private[r]
  BY <1>0 DEF SchedTypes
<1>2. /\ pc[r] = "returning" /\ pc' = [pc EXCEPT ![r] = "loop"]
      /\ op_queue' = (q \o p) \o <<Task>>
      /\ private' = [private EXCEPT ![r] = <<>>]
      /\ UNCHANGED <<outstanding_work, running, waiting_io, issued>>
  BY <1>1 DEF CleanUpTask, At
<1>3. Size(op_queue') = Size(op_queue) + Len(p)
  <2>1. q \o p \in Seq(Ops \cup {Task})
    BY AsioSchedulerAssumption, OpsAtTheEnd
  <2> QED
    BY <1>1, <1>2, <2>1, SizeOfConcat, SizeWithTask
<1>4. pc'[r] = "loop" /\ \A s \in Runners : s # r => pc'[s] = pc[s]
  BY <1>0, <1>2 DEF SchedTypes
<1>5. private'[r] = <<>> /\ \A s \in Runners : s # r => private'[s] = private[s]
  BY <1>0, <1>2 DEF SchedTypes
<1>6. InReactor = {r}
  BY <1>0, <1>2 DEF TaskHeld, InReactor
<1>7. InReactor' = {} /\ Handlers' = Handlers
  BY <1>2, <1>4, <1>6 DEF InReactor, Handlers
<1>8. Cardinality(HeldBy(InReactor, private)) = Len(p) /\ Len(p) \in Nat
  BY <1>1, <1>6, HeldByOne
<1>9. Cardinality(HeldBy(InReactor', private')) = 0
  BY <1>7, HeldByNobody
<1>10. \A s \in Runners : pc'[s] \notin {"returning", "handler"} => private'[s] = <<>>
  BY <1>4, <1>5 DEF WorkInv
<1>11. Size(op_queue) \in Nat /\ Cardinality(Handlers) \in Nat /\ Cardinality(waiting_io) \in Nat
  BY <1>0, WorkParts
<1>12. outstanding_work' = Size(op_queue') + Cardinality(Handlers') + Cardinality(waiting_io')
                             + Cardinality(HeldBy(InReactor', private'))
  BY <1>2, <1>3, <1>7, <1>8, <1>9, <1>11 DEF WorkInv
<1> QED
  BY <1>2, <1>7, <1>10, <1>12 DEF WorkInv

LEMMA CleanUpWorkWork ==
    ASSUME SchedInv, WorkInv, NEW r \in Runners, CleanUpWork(r)
    PROVE  WorkInv'
<1>0. SchedTypes
  BY DEF SchedInv
<1>1. PICK q \in Seq(Ops \cup {Task}), p \in Seq(Ops) : q = op_queue /\ p = private[r]
  BY <1>0 DEF SchedTypes
<1>2. /\ pc[r] = "handler" /\ pc' = [pc EXCEPT ![r] = "loop"]
      /\ outstanding_work' = (outstanding_work + Len(p)) - 1
      /\ op_queue' = q \o p
      /\ private' = [private EXCEPT ![r] = <<>>]
      /\ running' = [running EXCEPT ![r] = 0]
      /\ UNCHANGED <<waiting_io, issued>>
  BY <1>1 DEF CleanUpWork, At
<1>3. Size(op_queue') = Size(op_queue) + Len(p) /\ Len(p) \in Nat
  <2>1. Size(q \o p) = Size(q) + Len(p)
    BY SizeOfConcat
  <2>2. Len(p) \in Nat
    OBVIOUS
  <2> QED
    BY <1>1, <1>2, <2>1, <2>2
<1>4. running' \in [Runners -> Ops \cup {0}]
  BY <1>2 DEF WorkInv
<1>5. pc'[r] = "loop" /\ \A s \in Runners : s # r => pc'[s] = pc[s]
  BY <1>0, <1>2 DEF SchedTypes
<1>6. private'[r] = <<>> /\ \A s \in Runners : s # r => private'[s] = private[s]
  BY <1>0, <1>2 DEF SchedTypes
<1>7. InReactor' = InReactor /\ r \notin InReactor /\ InReactor \subseteq Runners
  BY <1>0, <1>2, ReactorUntouched DEF InReactor
<1>8. HeldBy(InReactor', private') = HeldBy(InReactor, private)
  BY <1>6, <1>7, HeldBySame
<1>9. Handlers' = Handlers \ {r} /\ r \in Handlers
  BY <1>2, <1>5 DEF Handlers
<1>10. IsFiniteSet(Handlers') /\ Cardinality(Handlers') = Cardinality(Handlers) - 1
  BY <1>0, <1>9, WorkParts, FS_RemoveElement
<1>11. \A s \in Runners : pc'[s] \notin {"returning", "handler"} => private'[s] = <<>>
  BY <1>5, <1>6 DEF WorkInv
<1>12. Size(op_queue) \in Nat /\ Cardinality(Handlers) \in Nat /\ Cardinality(waiting_io) \in Nat
  BY <1>0, WorkParts
<1>13. Cardinality(HeldBy(InReactor, private)) \in Nat
  BY <1>0, HeldIsCounted DEF SchedInv
<1>14. outstanding_work' = Size(op_queue') + Cardinality(Handlers') + Cardinality(waiting_io')
                             + Cardinality(HeldBy(InReactor', private'))
  BY SMTT(30), <1>2, <1>3, <1>8, <1>10, <1>12, <1>13 DEF WorkInv
<1> QED
  BY <1>2, <1>4, <1>10, <1>11, <1>14 DEF WorkInv

LEMMA HandlerStartsIoWork ==
    ASSUME SchedInv, WorkInv, NEW r \in Runners, HandlerStartsIo(r)
    PROVE  WorkInv'
<1>0. SchedTypes
  BY DEF SchedInv
<1>1. /\ issued' = issued + 1 /\ waiting_io' = waiting_io \cup {issued + 1}
      /\ outstanding_work' = outstanding_work + 1
      /\ UNCHANGED <<op_queue, pc, running, private>>
  BY DEF HandlerStartsIo
<1>2. issued \in Nat
  BY <1>0 DEF SchedTypes, Ops
<1>3. waiting_io' \subseteq 1..issued' /\ issued + 1 \notin waiting_io
  BY <1>1, <1>2 DEF WorkInv
<1>4. Cardinality(waiting_io') = Cardinality(waiting_io) + 1
  BY <1>0, <1>1, <1>3, WorkParts, FS_AddElement
<1>5. Size(op_queue) \in Nat /\ Cardinality(Handlers) \in Nat /\ Cardinality(waiting_io) \in Nat
  BY <1>0, WorkParts
<1>6. Cardinality(HeldBy(InReactor, private)) \in Nat
  BY HeldIsCounted DEF SchedInv
<1>7. Handlers' = Handlers /\ InReactor' = InReactor
  BY <1>1 DEF Handlers, InReactor
<1>8. outstanding_work' = Size(op_queue') + Cardinality(Handlers') + Cardinality(waiting_io')
                            + Cardinality(HeldBy(InReactor', private'))
  BY <1>1, <1>4, <1>5, <1>6, <1>7 DEF WorkInv
<1> QED
  BY <1>1, <1>3, <1>7, <1>8 DEF WorkInv

LEMMA HandlerPostsWork ==
    ASSUME SchedInv, WorkInv, NEW r \in Runners, HandlerPosts(r)
    PROVE  WorkInv'
<1>0. SchedTypes
  BY DEF SchedInv
<1>1. /\ pc[r] = "handler" /\ issued' = issued + 1
      /\ private' = [private EXCEPT ![r] = Append(@, issued + 1)]
      /\ UNCHANGED <<op_queue, outstanding_work, pc, running, waiting_io>>
  BY DEF HandlerPosts
<1>2. \A s \in Runners : s # r => private'[s] = private[s]
  BY <1>0, <1>1 DEF SchedTypes
<1>3. InReactor' = InReactor /\ Handlers' = Handlers /\ r \notin InReactor /\ InReactor \subseteq Runners
  BY <1>1 DEF Handlers, InReactor
<1>4. HeldBy(InReactor', private') = HeldBy(InReactor, private)
  BY <1>2, <1>3, HeldBySame
<1>5. waiting_io' \subseteq 1..issued'
  <2>1. issued \in Nat
    BY <1>0 DEF SchedTypes, Ops
  <2> QED
    BY <1>1, <2>1 DEF WorkInv
<1>6. \A s \in Runners : pc'[s] \notin {"returning", "handler"} => private'[s] = <<>>
  BY <1>1, <1>2 DEF WorkInv
<1> QED
  BY <1>1, <1>3, <1>4, <1>5, <1>6 DEF WorkInv

LEMMA PostWork ==
    ASSUME SchedInv, WorkInv, Post
    PROVE  WorkInv'
<1>0. SchedTypes
  BY DEF SchedInv
<1>1. PICK q \in Seq(Ops \cup {Task}) : q = op_queue
  BY <1>0 DEF SchedTypes
<1>2. /\ issued < MaxOps /\ issued' = issued + 1 /\ op_queue' = Append(q, issued + 1)
      /\ outstanding_work' = outstanding_work + 1
      /\ UNCHANGED <<pc, running, private, waiting_io>>
  BY <1>1 DEF Post
<1>3. PICK i \in Ops : i = issued + 1
  BY <1>0, <1>2, AsioSchedulerAssumption, Numbers DEF SchedTypes
<1>4. Size(op_queue') = Size(op_queue) + 1
  <2>1. <<i>> \in Seq(Ops) /\ Append(q, i) = q \o <<i>> /\ Len(<<i>>) = 1
    OBVIOUS
  <2> QED
    BY <1>1, <1>2, <1>3, <2>1, SizeOfConcat
<1>5. Size(op_queue) \in Nat /\ Cardinality(Handlers) \in Nat /\ Cardinality(waiting_io) \in Nat
  BY <1>0, WorkParts
<1>6. Cardinality(HeldBy(InReactor, private)) \in Nat
  BY HeldIsCounted DEF SchedInv
<1>7. Handlers' = Handlers /\ InReactor' = InReactor
  BY <1>2 DEF Handlers, InReactor
<1>8. outstanding_work' = Size(op_queue') + Cardinality(Handlers') + Cardinality(waiting_io')
                            + Cardinality(HeldBy(InReactor', private'))
  BY <1>2, <1>4, <1>5, <1>6, <1>7 DEF WorkInv
<1>9. waiting_io' \subseteq 1..issued'
  <2>1. issued \in Nat
    BY <1>0 DEF SchedTypes, Ops
  <2> QED
    BY <1>2, <2>1 DEF WorkInv
<1> QED
  BY <1>2, <1>7, <1>8, <1>9 DEF WorkInv

LEMMA InitWork ==
    ASSUME SchedulerInit
    PROVE  WorkInv
<1>1. op_queue = <<Task>> /\ outstanding_work = 1 /\ waiting_io = {1} /\ issued = 1
  BY DEF SchedulerInit
<1>2. pc \in [Runners -> {"loop", "out"}]
  BY DEF SchedulerInit
<1>3. Handlers = {} /\ InReactor = {}
  BY <1>2 DEF Handlers, InReactor
<1>4. Size(op_queue) = 0
  <2>1. QueuedIn(op_queue) = {}
    BY <1>1 DEF QueuedIn
  <2> QED
    BY <2>1, FS_EmptySet DEF Size
<1>5. Cardinality(HeldBy(InReactor, private)) = 0
  BY <1>3, HeldByNobody
<1>6. IsFiniteSet(Handlers) /\ Cardinality(Handlers) = 0 /\ Cardinality(waiting_io) = 1
  BY <1>1, <1>3, FS_EmptySet, FS_Singleton
<1>7. /\ running \in [Runners -> Ops \cup {0}]
      /\ \A r \in Runners : private[r] = <<>>
      /\ waiting_io \subseteq 1..issued
  BY <1>1 DEF SchedulerInit
<1> QED
  BY <1>1, <1>4, <1>5, <1>6, <1>7 DEF WorkInv

LEMMA WorkStep ==
    ASSUME SchedInv, WorkInv, [SchedulerNext]_schedVars
    PROVE  WorkInv'
<1>0. SchedTypes
  BY DEF SchedInv
<1>1. ASSUME NEW r \in Runners, pc[r] = "loop", Leave(r) PROVE WorkInv'
  BY <1>0, <1>1, MoveKeepsWork DEF Leave, At
<1>2. ASSUME NEW r \in Runners, pc[r] = "loop", Sleep(r) PROVE WorkInv'
  BY <1>0, <1>2, MoveKeepsWork DEF Sleep, At
<1>3. ASSUME NEW r \in Runners, Wake(r) PROVE WorkInv'
  <2>1. pc[r] = "asleep" /\ pc = [pc EXCEPT ![r] = "asleep"]
    BY <1>0, <1>3 DEF Wake, SchedTypes
  <2>2. UNCHANGED <<op_queue, outstanding_work, running, private, waiting_io, issued>>
    BY <1>3 DEF Wake
  <2>3. pc' = [pc EXCEPT ![r] = "loop"] \/ pc' = [pc EXCEPT ![r] = "asleep"]
    BY <1>3, <2>1 DEF Wake, At
  <2> QED
    BY <1>0, <2>1, <2>2, <2>3, MoveKeepsWork
<1>4. ASSUME NEW r \in Runners, Step(r) PROVE WorkInv'
  <2>1. {} \in SUBSET waiting_io
    OBVIOUS
  <2> QED
    BY <1>1, <1>2, <1>3, <1>4, <2>1, TakeTaskWork, TakeOpWork, EpollWork, CleanUpTaskWork,
       CleanUpWorkWork DEF Step, RunOne
<1>5. CASE UNCHANGED schedVars \/ StopContext
  <2>1. UNCHANGED <<op_queue, outstanding_work, pc, running, private, waiting_io, issued>>
    BY <1>5 DEF schedVars, StopContext
  <2> QED
    BY <2>1 DEF WorkInv, Handlers, InReactor
<1> QED
  BY <1>4, <1>5, EpollWork, HandlerStartsIoWork, HandlerPostsWork, PostWork DEF SchedulerNext

LEMMA WorkInvHolds == SchedulerSpec => []WorkInv
  BY SchedInvHolds, InitWork, WorkStep, PTL DEF SchedulerSpec

\* The state of an io_context and its threads has its type.
THEOREM SchedulerTypeCorrect == SchedulerSpec => []SchedulerTypeOK
<1>1. ASSUME SchedInv, WorkInv PROVE SchedulerTypeOK
  <2>1. SchedTypes /\ TaskHeld
    BY <1>1 DEF SchedInv
  <2>2. Size(op_queue) \in Nat /\ Cardinality(Handlers) \in Nat /\ Cardinality(waiting_io) \in Nat
    BY <1>1, <2>1, WorkParts
  <2>3. Cardinality(HeldBy(InReactor, private)) \in Nat
    BY <2>1, HeldIsCounted
  <2>4. outstanding_work \in Nat
    BY <1>1, <2>2, <2>3 DEF WorkInv
  <2> QED
    BY <1>1, <2>1, <2>4 DEF SchedTypes, WorkInv, SchedulerTypeOK
<1>2. SchedInv /\ WorkInv => SchedulerTypeOK
  BY <1>1
<1> QED
  BY <1>2, SchedInvHolds, WorkInvHolds, PTL

\* scheduler.ipp: the task is never lost nor doubled, no wake-up is lost, and
\* outstanding_work_ is exactly the operations that are queued, being completed,
\* at the reactor or on their way from it, so that run() returns for lack of work
\* only when there is none.
THEOREM SchedulerStaysSound == SchedulerSpec => []SchedulerIsSound
<1>1. ASSUME WorkInv PROVE WorkIsCounted
  <2>1. Queued = QueuedIn(op_queue) /\ Handlers = {r \in Runners : pc[r] = "handler"}
    BY DEF Queued, QueuedIn, Handlers
  <2>2. HeldBy(InReactor, private) = UNION {{<<r, k>> : k \in DOMAIN private[r]} : r \in InReactor}
    BY DEF HeldBy
  <2> QED
    BY <1>1, <2>1, <2>2 DEF WorkInv, WorkIsCounted, Size
<1>2. WorkInv => WorkIsCounted
  BY <1>1
<1>3. TaskHeldOnce /\ NobodySleepsOverWork /\ WorkIsCounted => SchedulerIsSound
  BY DEF SchedulerIsSound
<1> QED
  BY <1>2, <1>3, WorkInvHolds, TaskIsHeldOnce, WakeUpsAreNotLost, PTL

-----------------------------------------------------------------------------
(* CrowServer: the counters and what was dealt                             *)

\* A worker nobody has fewer connections than.
Least(len, w) == \A v \in Workers : len[w] <= len[v]

\* Before the first accept nothing is counted; from it on a worker's counter is
\* what it was dealt, and one more while a connection waits for it, and that
\* worker has been dealt no more than any other.
Counted ==
    /\ main = "starting" =>
         /\ pending = 0 /\ ~stopped
         /\ \A w \in Workers : queue_length[w] = 0 /\ dealt[w] = 0
    /\ main # "starting" =>
         /\ pending \in Workers
         /\ Least(dealt, pending)
         /\ \A w \in Workers : queue_length[w] = dealt[w] + (IF w = pending THEN 1 ELSE 0)

\* Workers count themselves once, and their timers live as long as they run.
WorkersCounted ==
    /\ init_count = Cardinality({w \in Workers : wstate[w] # "starting"})
    /\ \A w \in Workers : timer[w] <=> wstate[w] = "running"
    /\ \A w \in Workers : wstate[w] = "ended" => stopped
    /\ main # "starting" => \A w \in Workers : wstate[w] # "starting"

\* Each accept deals one connection at most.
DealtBound == \A w \in Workers : dealt[w] <= accepts

ServerInv == ServerTypeOK /\ Counted /\ WorkersCounted /\ DealtEvenly /\ DealtBound

LEMMA LeastNumber ==
    ASSUME NEW S \in SUBSET Nat, S # {}
    PROVE  \E m \in S : \A k \in S : m <= k
<1> DEFINE R == OpToRel(<, Nat)
<1>1. IsWellFoundedOn(R, Nat)
  BY NatLessThanWellFounded, Zenon
<1>2. \A x, y \in Nat : x < y => <<x, y>> \in R
  BY Zenon DEF OpToRel
<1> HIDE DEF R
<1>3. PICK m \in S : \A k \in S : <<k, m>> \notin R
  BY <1>1, WFMin
<1>4. \A k \in S : ~(k < m)
  BY <1>2, <1>3
<1> QED
  BY <1>4

LEMMA PickLeast ==
    ASSUME NEW len \in [Workers -> Nat]
    PROVE  Pick(len) \in Workers /\ Least(len, Pick(len))
<1>1. Workers # {} /\ Workers \subseteq Nat
  BY CrowServerAssumption, FS_CardinalityType
<1>2. PICK L : L = {len[w] : w \in Workers}
  OBVIOUS
<1>3. L \in SUBSET Nat /\ L # {}
  BY <1>1, <1>2
<1>4. PICK n \in L : \A k \in L : n <= k
  BY <1>3, LeastNumber
<1>5. PICK W : W = {w \in Workers : len[w] = n}
  OBVIOUS
<1>6. W \in SUBSET Nat /\ W # {}
  BY <1>1, <1>2, <1>4, <1>5
<1>7. PICK w \in W : \A v \in W : w <= v
  BY <1>6, LeastNumber
<1>8. w \in Workers /\ \A v \in Workers : len[w] < len[v] \/ (len[w] = len[v] /\ w <= v)
  <2>1. \A v \in Workers : len[v] \in L /\ len[v] \in Nat /\ (len[v] = n => v \in W)
    BY <1>2, <1>5
  <2>2. w \in Workers /\ len[w] = n
    BY <1>5
  <2> QED
    BY <1>4, <1>7, <2>1, <2>2
<1>9. /\ Pick(len) \in Workers
      /\ \A v \in Workers : len[Pick(len)] < len[v] \/ (len[Pick(len)] = len[v] /\ Pick(len) <= v)
  BY <1>8 DEF Pick
<1> QED
  BY <1>9 DEF Least

-----------------------------------------------------------------------------
(* The steps of CrowServer                                                 *)

\* A worker's counter as do_accept finds it leaves one more on the worker picked.
LEMMA DoAcceptKeepsCount ==
    ASSUME NEW d \in [Workers -> Nat], DoAccept(d)
    PROVE  /\ pending' \in Workers
           /\ Least(d, pending')
           /\ queue_length' \in [Workers -> Nat]
           /\ \A w \in Workers : queue_length'[w] = d[w] + (IF w = pending' THEN 1 ELSE 0)
<1>1. pending' = Pick(d) /\ queue_length' = [d EXCEPT ![pending'] = @ + 1]
  BY DEF DoAccept
<1>2. pending' \in Workers /\ Least(d, pending')
  BY <1>1, PickLeast
<1> QED
  BY <1>1, <1>2

LEMMA InitServerInv == ServerInit => ServerInv
<1> SUFFICES ASSUME ServerInit PROVE ServerInv
  OBVIOUS
<1>1. Cardinality(Workers) \in Nat /\ Workers \subseteq Nat
  BY CrowServerAssumption, FS_CardinalityType
<1>2. {w \in Workers : wstate[w] # "starting"} = {}
  BY DEF ServerInit
<1>3. Cardinality({}) = 0
  BY FS_EmptySet
<1>4. ServerTypeOK
  <2>1. 0 \in 0..Cardinality(Workers) /\ 0 \in 0..MaxAccepts
    BY <1>1, CrowServerAssumption
  <2> QED
    BY <2>1 DEF ServerInit, ServerTypeOK
<1>5. Counted
  BY DEF ServerInit, Counted
<1>6. WorkersCounted
  BY <1>2, <1>3 DEF ServerInit, WorkersCounted
<1>7. DealtEvenly
  BY DEF ServerInit, DealtEvenly
<1>8. DealtBound
  BY DEF ServerInit, DealtBound
<1> QED
  BY <1>4, <1>5, <1>6, <1>7, <1>8 DEF ServerInv

\* The steps that leave the workers alone leave what is counted of them alone.
LEMMA SameWorkers ==
    ASSUME WorkersCounted, UNCHANGED <<wstate, timer, init_count>>, stopped => stopped',
           main' # "starting" => \A w \in Workers : wstate[w] # "starting"
    PROVE  WorkersCounted'
BY DEF WorkersCounted

\* The steps that leave the counters alone leave the rest alone.
LEMMA SameCounts ==
    ASSUME Counted, DealtEvenly, DealtBound,
           UNCHANGED <<queue_length, pending, dealt, accepts>>,
           main = "starting" <=> main' = "starting", main = "starting" => stopped' = stopped
    PROVE  Counted' /\ DealtEvenly' /\ DealtBound'
BY DEF Counted, DealtEvenly, DealtBound, Least

LEMMA StartWorkerStep ==
    ASSUME ServerInv, NEW w \in Workers, StartWorker(w)
    PROVE  ServerInv'
<1> USE DEF ServerInv
<1> DEFINE up == {v \in Workers : wstate[v] # "starting"}
<1>1. /\ IsFiniteSet(up) /\ up \subseteq Workers /\ w \notin up
      /\ init_count = Cardinality(up)
  <2>1. up \subseteq Workers /\ IsFiniteSet(Workers)
    BY CrowServerAssumption
  <2>2. IsFiniteSet(up)
    BY <2>1, FS_Subset
  <2>3. init_count = Cardinality(up)
    BY DEF WorkersCounted
  <2> QED
    BY <2>1, <2>2, <2>3 DEF StartWorker
<1>2. {v \in Workers : wstate'[v] # "starting"} = up \cup {w}
  BY DEF StartWorker, ServerTypeOK
<1>3. Cardinality(up \cup {w}) = Cardinality(up) + 1
  BY <1>1, FS_AddElement
<1>4. Cardinality(up \cup {w}) <= Cardinality(Workers)
  <2>1. up \cup {w} \subseteq Workers
    BY <1>1
  <2> QED
    BY <2>1, CrowServerAssumption, FS_Subset
<1>5. Cardinality(Workers) \in Nat /\ Cardinality(up) \in Nat
  BY <1>1, CrowServerAssumption, FS_CardinalityType
<1>6. main = "starting" /\ main' = "starting"
  BY DEF StartWorker, WorkersCounted
<1> HIDE DEF up
<1>7. ServerTypeOK'
  <2>1. init_count' \in 0..Cardinality(Workers)
    BY <1>1, <1>3, <1>4, <1>5 DEF StartWorker
  <2> QED
    BY <2>1 DEF StartWorker, ServerTypeOK
<1>8. WorkersCounted'
  <2>1. init_count' = Cardinality({v \in Workers : wstate'[v] # "starting"})
    BY <1>1, <1>2, <1>3 DEF StartWorker
  <2>2. \A v \in Workers : timer'[v] <=> wstate'[v] = "running"
    BY DEF StartWorker, WorkersCounted, ServerTypeOK
  <2>3. \A v \in Workers : wstate'[v] = "ended" => stopped'
    BY DEF StartWorker, WorkersCounted, ServerTypeOK
  <2> QED
    BY <1>6, <2>1, <2>2, <2>3 DEF WorkersCounted
<1>9. Counted' /\ DealtEvenly' /\ DealtBound'
  BY <1>6 DEF StartWorker, Counted, DealtEvenly, DealtBound, ServerTypeOK
<1> QED
  BY <1>7, <1>8, <1>9

LEMMA EndWorkerStep ==
    ASSUME ServerInv, NEW w \in Workers, EndWorker(w)
    PROVE  ServerInv'
<1> USE DEF ServerInv
<1>1. {v \in Workers : wstate'[v] # "starting"} = {v \in Workers : wstate[v] # "starting"}
  BY DEF EndWorker, ServerTypeOK
<1>2. ServerTypeOK'
  BY DEF EndWorker, ServerTypeOK
<1>3. WorkersCounted'
  <2>1. init_count' = Cardinality({v \in Workers : wstate'[v] # "starting"})
    BY <1>1 DEF EndWorker, WorkersCounted
  <2>2. \A v \in Workers : timer'[v] <=> wstate'[v] = "running"
    BY DEF EndWorker, WorkersCounted, ServerTypeOK
  <2>3. stopped' /\ main' = main /\ \A v \in Workers : wstate[v] # "starting" => wstate'[v] # "starting"
    BY DEF EndWorker, ServerTypeOK
  <2> QED
    BY <2>1, <2>2, <2>3 DEF WorkersCounted
<1>4. Counted' /\ DealtEvenly' /\ DealtBound'
  BY SameCounts DEF EndWorker
<1> QED
  BY <1>2, <1>3, <1>4

\* When the main thread sees all workers counted, none is starting.
LEMMA StartAcceptingStep ==
    ASSUME ServerInv, StartAccepting
    PROVE  ServerInv'
<1> USE DEF ServerInv
<1>1. queue_length \in [Workers -> Nat] /\ DoAccept(queue_length)
  BY DEF StartAccepting, ServerTypeOK
<1>2. /\ pending' \in Workers
      /\ Least(queue_length, pending')
      /\ queue_length' \in [Workers -> Nat]
      /\ \A w \in Workers : queue_length'[w] = queue_length[w] + (IF w = pending' THEN 1 ELSE 0)
  BY <1>1, DoAcceptKeepsCount
<1>3. \A w \in Workers : queue_length[w] = 0 /\ dealt[w] = 0
  BY DEF Counted, StartAccepting
<1>4. \A w \in Workers : wstate[w] # "starting"
  <2> DEFINE up == {v \in Workers : wstate[v] # "starting"}
  <2>1. up \subseteq Workers /\ IsFiniteSet(Workers)
    BY CrowServerAssumption
  <2>2. Cardinality(up) = Cardinality(Workers)
    BY DEF StartAccepting, WorkersCounted
  <2>3. up = Workers
    <3> HIDE DEF up
    <3> QED
      BY <2>1, <2>2, FS_Subset
  <2> QED
    BY <2>3
<1>5. ServerTypeOK'
  BY <1>2 DEF StartAccepting, ServerTypeOK
<1>6. WorkersCounted'
  BY <1>4, SameWorkers DEF StartAccepting
<1>7. Counted'
  <2>1. main' = "accepting" /\ dealt' = dealt
    BY DEF StartAccepting
  <2> QED
    BY <1>2, <1>3, <2>1 DEF Counted, Least
<1>8. DealtEvenly' /\ DealtBound'
  BY DEF StartAccepting, DealtEvenly, DealtBound
<1> QED
  BY <1>5, <1>6, <1>7, <1>8

\* The worker that gets a connection had no more than any other, and its counter
\* already says so: do_accept chooses by what was dealt.
LEMMA AcceptedStep ==
    ASSUME ServerInv, Accepted
    PROVE  ServerInv'
<1> USE DEF ServerInv
<1>1. /\ main = "accepting" /\ main' = main
      /\ accepts' = accepts + 1 /\ accepts < MaxAccepts
      /\ dealt' = [dealt EXCEPT ![pending] = @ + 1]
      /\ DoAccept(queue_length)
      /\ UNCHANGED <<wstate, timer, init_count, stopped>>
  BY DEF Accepted
<1>2. /\ pending \in Workers /\ Least(dealt, pending)
      /\ \A w \in Workers : queue_length[w] = dealt[w] + (IF w = pending THEN 1 ELSE 0)
  BY <1>1 DEF Counted
<1>3. /\ dealt \in [Workers -> Nat] /\ queue_length \in [Workers -> Nat]
      /\ accepts \in Nat /\ MaxAccepts \in Nat
  BY CrowServerAssumption DEF ServerTypeOK
<1>4. \A w \in Workers : dealt'[w] = queue_length[w]
  BY <1>1, <1>2, <1>3
<1>5. /\ pending' \in Workers
      /\ Least(queue_length, pending')
      /\ queue_length' \in [Workers -> Nat]
      /\ \A w \in Workers : queue_length'[w] = queue_length[w] + (IF w = pending' THEN 1 ELSE 0)
  BY <1>1, <1>3, DoAcceptKeepsCount
<1>6. DealtBound'
  BY <1>1, <1>2, <1>3 DEF DealtBound
<1>7. ServerTypeOK'
  <2>1. dealt' \in [Workers -> 0..MaxAccepts]
    <3>1. \A w \in Workers : dealt[w] <= accepts
      BY DEF DealtBound
    <3> QED
      BY <1>1, <1>2, <1>3, <3>1
  <2>2. accepts' \in 0..MaxAccepts
    BY <1>1, <1>3
  <2>3. given' \in [Workers -> Nat]
    BY <1>2 DEF Accepted, ServerTypeOK
  <2> QED
    BY <1>1, <1>5, <2>1, <2>2, <2>3 DEF Accepted, ServerTypeOK
<1>8. WorkersCounted'
  <2>1. \A w \in Workers : wstate[w] # "starting"
    BY <1>1 DEF WorkersCounted
  <2> QED
    BY <1>1, <2>1, SameWorkers
<1>9. Counted'
  BY <1>1, <1>4, <1>5 DEF Counted, Least
<1>10. DealtEvenly'
  <2> SUFFICES ASSUME NEW v \in Workers, NEW w \in Workers
               PROVE  dealt'[v] <= dealt'[w] + 1
    BY DEF DealtEvenly
  <2>1. dealt[v] <= dealt[w] + 1
    BY DEF DealtEvenly
  <2>2. dealt[pending] <= dealt[w]
    BY <1>2 DEF Least
  <2>3. dealt[v] \in Nat /\ dealt[w] \in Nat /\ dealt[pending] \in Nat
    BY <1>2, <1>3
  <2>4. dealt'[v] = (IF v = pending THEN dealt[v] + 1 ELSE dealt[v])
    BY <1>1, <1>3
  <2>5. dealt'[w] = (IF w = pending THEN dealt[w] + 1 ELSE dealt[w])
    BY <1>1, <1>3
  <2> QED
    BY <2>1, <2>2, <2>3, <2>4, <2>5
<1> QED
  BY <1>6, <1>7, <1>8, <1>9, <1>10

\* A failed accept takes its connection off the counter before the next choice.
LEMMA AcceptFailedStep ==
    ASSUME ServerInv, AcceptFailed
    PROVE  ServerInv'
<1> USE DEF ServerInv
<1>1. /\ main = "accepting" /\ main' = main /\ dealt' = dealt
      /\ accepts' = accepts + 1 /\ accepts < MaxAccepts
      /\ DoAccept([queue_length EXCEPT ![pending] = @ - 1])
      /\ UNCHANGED <<wstate, timer, init_count, stopped, given, live>>
  BY DEF AcceptFailed
<1>2. /\ pending \in Workers
      /\ \A w \in Workers : queue_length[w] = dealt[w] + (IF w = pending THEN 1 ELSE 0)
  BY <1>1 DEF Counted
<1>3. /\ dealt \in [Workers -> Nat] /\ queue_length \in [Workers -> Nat]
      /\ accepts \in Nat /\ MaxAccepts \in Nat
  BY CrowServerAssumption DEF ServerTypeOK
<1>4. [queue_length EXCEPT ![pending] = @ - 1] = dealt
  BY <1>2, <1>3
<1>5. DoAccept(dealt)
  BY <1>1, <1>4
<1>6. /\ pending' \in Workers
      /\ Least(dealt, pending')
      /\ queue_length' \in [Workers -> Nat]
      /\ \A w \in Workers : queue_length'[w] = dealt[w] + (IF w = pending' THEN 1 ELSE 0)
  BY <1>3, <1>5, DoAcceptKeepsCount
<1>7. ServerTypeOK'
  <2>1. accepts' \in 0..MaxAccepts
    BY <1>1, <1>3
  <2> QED
    BY <1>1, <1>6, <2>1 DEF ServerTypeOK
<1>8. WorkersCounted'
  <2>1. \A w \in Workers : wstate[w] # "starting"
    BY <1>1 DEF WorkersCounted
  <2> QED
    BY <1>1, <2>1, SameWorkers
<1>9. Counted' /\ DealtEvenly' /\ DealtBound'
  <2>1. DealtBound'
    BY <1>1, <1>3 DEF DealtBound
  <2> QED
    BY <1>1, <1>6, <2>1 DEF Counted, Least, DealtEvenly
<1> QED
  BY <1>7, <1>8, <1>9

\* The other steps touch neither counters nor threads.
LEMMA QuietServerStep ==
    ASSUME ServerInv,
           (\E w \in Workers : Begin(w) \/ End(w)) \/ Stop \/ Return
    PROVE  ServerInv'
<1> USE DEF ServerInv
<1>1. /\ UNCHANGED <<wstate, timer, init_count, queue_length, pending, dealt, accepts>>
      /\ stopped => stopped'
      /\ main = "starting" <=> main' = "starting"
      /\ main = "starting" => stopped' = stopped
  BY DEF Begin, End, Stop, Return
<1>2. ServerTypeOK'
  <2>1. ASSUME NEW w \in Workers, Begin(w) PROVE ServerTypeOK'
    <3>1. given'  \in [Workers -> Nat] /\ live' \in [Workers -> Nat]
      BY <2>1 DEF Begin, ServerTypeOK
    <3> QED
      BY <2>1, <3>1 DEF Begin, ServerTypeOK
  <2>2. ASSUME NEW w \in Workers, End(w) PROVE ServerTypeOK'
    BY <2>2 DEF End, ServerTypeOK
  <2>3. CASE Stop \/ Return
    BY <2>3 DEF Stop, Return, ServerTypeOK
  <2> QED
    BY <2>1, <2>2, <2>3
<1>3. WorkersCounted'
  <2>1. main' # "starting" => \A w \in Workers : wstate[w] # "starting"
    BY <1>1 DEF WorkersCounted
  <2> QED
    BY <1>1, <2>1, SameWorkers
<1>4. Counted' /\ DealtEvenly' /\ DealtBound'
  BY <1>1, SameCounts
<1> QED
  BY <1>2, <1>3, <1>4

LEMMA NextServerInv == ServerInv /\ [ServerNext]_crowVars => ServerInv'
<1> SUFFICES ASSUME ServerInv, [ServerNext]_crowVars PROVE ServerInv'
  OBVIOUS
<1>1. CASE \E w \in Workers : StartWorker(w)
  BY <1>1, StartWorkerStep
<1>2. CASE \E w \in Workers : EndWorker(w)
  BY <1>2, EndWorkerStep
<1>3. CASE (\E w \in Workers : Begin(w) \/ End(w)) \/ Stop \/ Return
  BY <1>3, QuietServerStep
<1>4. CASE StartAccepting
  BY <1>4, StartAcceptingStep
<1>5. CASE Accepted
  BY <1>5, AcceptedStep
<1>6. CASE AcceptFailed
  BY <1>6, AcceptFailedStep
<1>7. CASE UNCHANGED crowVars
  BY <1>7 DEF crowVars, ServerInv, ServerTypeOK, Counted, WorkersCounted, DealtEvenly, DealtBound, Least
<1> QED
  BY <1>1, <1>2, <1>3, <1>4, <1>5, <1>6, <1>7 DEF ServerNext

LEMMA ServerInvHolds == ServerSpec => []ServerInv
<1>1. ServerInit => ServerInv
  BY InitServerInv
<1>2. ServerInv /\ [ServerNext]_crowVars => ServerInv'
  BY NextServerInv
<1> QED
  BY <1>1, <1>2, PTL DEF ServerSpec

\* The state of crow::Server's run has its type: the counters never fall below
\* zero, though a failed accept takes one down.
THEOREM ServerTypeCorrect == ServerSpec => []ServerTypeOK
<1>1. ServerInv => ServerTypeOK
  BY DEF ServerInv
<1> QED
  BY <1>1, ServerInvHolds, PTL

\* For any number of workers: do_accept dereferences only a timer that is there,
\* after every worker has set its counter, and no worker is ever given two
\* connections more than another, whatever accepts fail in between.
THEOREM ServerKeepsOrder == ServerSpec => []ServerRunsInOrder
<1>1. ServerInv => ServerRunsInOrder
  <2> SUFFICES ASSUME ServerInv PROVE ServerRunsInOrder
    OBVIOUS
  <2>1. ASSUME pending # 0 PROVE \A w \in Workers : wstate[w] # "starting"
    BY <2>1 DEF ServerInv, Counted, WorkersCounted
  <2>2. ASSUME pending # 0, ~stopped PROVE timer[pending]
    <3>1. pending \in Workers
      BY <2>2 DEF ServerInv, ServerTypeOK
    <3>2. wstate[pending] = "running"
      BY <2>1, <2>2, <3>1 DEF ServerInv, ServerTypeOK, WorkersCounted
    <3> QED
      BY <3>1, <3>2 DEF ServerInv, WorkersCounted
  <2>3. WorkersReadyFirst
    BY <2>1, <2>2 DEF WorkersReadyFirst
  <2> QED
    BY <2>3 DEF ServerRunsInOrder, ServerInv
<1> QED
  BY <1>1, ServerInvHolds, PTL

-----------------------------------------------------------------------------
(* ConsoleMenu: what is known of an entry at each of its lines             *)

\* Behind the line in which the input ended every line is empty: an add or a delete
\* that gets to its statement has its last number from that line or before it, and
\* an update that ended with the customer's number has nothing to set.
EntryRead ==
    /\ menu.broken # "no" => menu.eof
    /\ menu.pc \in {"id", "text", "region", "statement"} =>
         menu.entry \in Entries /\ ~menu.wrote
    /\ menu.pc = "id" => menu.entry \in {"delete", "update"}
    /\ menu.pc = "text" => menu.entry \in {"add", "update"}
    /\ menu.pc = "region" => menu.entry # "delete"
    /\ menu.pc \in {"text", "region", "statement"} /\ menu.entry = "update" => menu.broken # "menu"
    /\ menu.pc \in {"region", "statement"} /\ menu.entry = "update" /\ menu.broken = "id" =>
         menu.text = Blank
    /\ menu.pc = "statement" /\ menu.entry = "update" /\ menu.broken = "id" => menu.region = Blank
    /\ menu.pc = "statement" /\ menu.entry = "add" =>
         menu.broken \in {"no", "region"} /\ menu.region # Blank
    /\ menu.pc = "statement" /\ menu.entry = "delete" => menu.broken \in {"no", "id"}

MenuInv == MenuTypeOK /\ EntryRead /\ TruncatedEntryWritesLittle

\* Where the input may have ended.
Ends == {"no", "menu", "id", "text", "region"}

LEMMA MenuConstants ==
    /\ Rowids \cup Regions \subseteq Nat /\ Rowids \subseteq Nat
    /\ Blank \notin Texts /\ Blank \notin Nat /\ Blank \notin Rowids \cup Regions
    /\ MaxRowid \in Nat /\ MaxMenuRuns \in Nat
<1>1. Rowids \subseteq Nat
  BY ConsoleMenuAssumption DEF Rowids
<1>2. Rowids \cup Regions \subseteq Nat
  BY <1>1, ConsoleMenuAssumption
<1>3. Blank \notin Texts /\ Blank \notin Nat
  BY ConsoleMenuAssumption
<1> QED
  BY <1>1, <1>2, <1>3, ConsoleMenuAssumption

LEMMA InitMenuInv == MenuInit => MenuInv
<1> SUFFICES ASSUME MenuInit PROVE MenuInv
  OBVIOUS
<1>1. 0 \in 0..MaxRowid /\ 0 \in 0..MaxMenuRuns
  BY MenuConstants
<1> QED
  BY <1>1 DEF MenuInit, Idle, MenuInv, MenuTypeOK, EntryRead, TruncatedEntryWritesLittle

\* A line that is not empty is only read where the input has not ended before.
LEMMA LineIs ==
    ASSUME MenuInv, NEW line, NEW eof \in BOOLEAN, Read(line, eof),
           menu.pc \in {"id", "text", "region"}
    PROVE  /\ Broken(eof) \in Ends
           /\ Broken(eof) # "no" => eof
           /\ line # Blank => Broken(eof) \in {"no", menu.pc}
           /\ Broken(eof) \in {"no", menu.pc} \/ (Broken(eof) = menu.broken /\ line = Blank)
<1>1. menu.broken \in Ends /\ menu.eof \in BOOLEAN /\ (menu.broken # "no" => menu.eof)
  BY DEF MenuInv, MenuTypeOK, EntryRead, Ends
<1>2. CASE menu.eof
  BY <1>1, <1>2 DEF Read, Broken
<1>3. CASE ~menu.eof
  BY <1>1, <1>3 DEF Broken, Ends
<1> QED
  BY <1>1, <1>2, <1>3

\* The exception leaves the entry before it has written anything.
LEMMA TerminateStep ==
    ASSUME MenuInv, NEW line, NEW eof \in BOOLEAN, Read(line, eof),
           menu.pc \in {"id", "region"}, UNCHANGED <<customers, lastId>>,
           NEW next \in {"menu", "terminated"}, menu' = ReadOn(eof, next)
    PROVE  MenuInv'
<1>1. PICK broken \in Ends : broken = Broken(eof) /\ (broken # "no" => eof)
  BY LineIs
<1>2. menu' = [menu EXCEPT !.pc = next, !.eof = eof, !.broken = broken]
  BY <1>1 DEF ReadOn
<1>3. ~menu.wrote
  BY DEF MenuInv, EntryRead
<1>4. MenuTypeOK'
  BY <1>2 DEF MenuInv, MenuTypeOK, Ends
<1>5. EntryRead' /\ TruncatedEntryWritesLittle'
  BY <1>1, <1>2, <1>3 DEF MenuInv, MenuTypeOK, EntryRead, TruncatedEntryWritesLittle
<1> QED
  BY <1>4, <1>5 DEF MenuInv

LEMMA ReadIdStep ==
    ASSUME MenuInv, ReadId
    PROVE  MenuInv'
<1>1. PICK line \in Lines, eof \in BOOLEAN :
         /\ Read(line, eof)
         /\ IF IsNumber(line)
            THEN menu' = [ReadOn(eof, IF menu.entry = "update" THEN "text" ELSE "statement")
                             EXCEPT !.id = line]
            ELSE Terminate(eof)
  BY DEF ReadId
<1>2. menu.pc = "id" /\ UNCHANGED <<customers, lastId>>
  BY DEF ReadId
<1>3. CASE ~IsNumber(line)
  BY <1>1, <1>2, <1>3, TerminateStep DEF Terminate
<1>4. CASE IsNumber(line)
  <2>1. line \in Rowids \cup Regions /\ line \in Nat /\ line # Blank
    BY <1>4, MenuConstants DEF IsNumber
  <2>2. PICK broken \in {"no", "id"} : broken = Broken(eof) /\ (broken # "no" => eof)
    BY <1>1, <1>2, <2>1, LineIs
  <2>3. menu.entry \in {"delete", "update"} /\ ~menu.wrote
    BY <1>2 DEF MenuInv, EntryRead
  <2>4. PICK next \in {"text", "statement"} : next = IF menu.entry = "update" THEN "text" ELSE "statement"
    OBVIOUS
  <2>5. menu' = [menu EXCEPT !.pc = next, !.id = line, !.eof = eof, !.broken = broken]
    BY <1>1, <1>4, <2>2, <2>4 DEF ReadOn
  <2>6. MenuTypeOK'
    BY <1>2, <2>1, <2>5 DEF MenuInv, MenuTypeOK
  <2>7. EntryRead' /\ TruncatedEntryWritesLittle'
    BY <2>2, <2>3, <2>4, <2>5 DEF MenuInv, MenuTypeOK, EntryRead, TruncatedEntryWritesLittle, Entries
  <2> QED
    BY <2>6, <2>7 DEF MenuInv
<1> QED
  BY <1>3, <1>4

LEMMA ReadTextStep ==
    ASSUME MenuInv, ReadText
    PROVE  MenuInv'
<1>1. PICK line \in Texts \cup {Blank}, eof \in BOOLEAN :
         Read(line, eof) /\ menu' = [ReadOn(eof, "region") EXCEPT !.text = line]
  BY DEF ReadText
<1>2. menu.pc = "text" /\ UNCHANGED <<customers, lastId>>
  BY DEF ReadText
<1>3. PICK broken \in Ends :
         /\ broken = Broken(eof) /\ (broken # "no" => eof)
         /\ broken \in {"no", "text"} \/ (broken = menu.broken /\ line = Blank)
  BY <1>1, <1>2, LineIs
<1>4. menu' = [menu EXCEPT !.pc = "region", !.text = line, !.eof = eof, !.broken = broken]
  BY <1>1, <1>3 DEF ReadOn
<1>5. MenuTypeOK'
  BY <1>2, <1>4 DEF MenuInv, MenuTypeOK, Ends
<1>6. menu.entry \in {"add", "update"} /\ ~menu.wrote /\ (menu.entry = "update" => menu.broken # "menu")
  BY <1>2 DEF MenuInv, EntryRead
<1>7. EntryRead' /\ TruncatedEntryWritesLittle'
  BY <1>3, <1>4, <1>6 DEF MenuInv, MenuTypeOK, EntryRead, TruncatedEntryWritesLittle, Entries
<1> QED
  BY <1>5, <1>7 DEF MenuInv

LEMMA ReadRegionStep ==
    ASSUME MenuInv, ReadRegion
    PROVE  MenuInv'
<1>1. PICK line \in Lines, eof \in BOOLEAN :
         /\ Read(line, eof)
         /\ IF IsNumber(line) \/ (menu.entry = "update" /\ line = Blank)
            THEN menu' = [ReadOn(eof, "statement") EXCEPT !.region = line]
            ELSE \/ Terminate(eof)
                 \/ /\ menu.entry = "update"
                    /\ menu' = ReadOn(eof, "menu")
  BY DEF ReadRegion
<1>2. menu.pc = "region" /\ UNCHANGED <<customers, lastId>>
  BY DEF ReadRegion
<1>3. CASE Terminate(eof) \/ menu' = ReadOn(eof, "menu")
  BY <1>1, <1>2, <1>3, TerminateStep DEF Terminate
<1>4. CASE /\ IsNumber(line) \/ (menu.entry = "update" /\ line = Blank)
           /\ menu' = [ReadOn(eof, "statement") EXCEPT !.region = line]
  <2>1. PICK broken \in Ends :
           /\ broken = Broken(eof) /\ (broken # "no" => eof)
           /\ line # Blank => broken \in {"no", "region"}
           /\ broken \in {"no", "region"} \/ (broken = menu.broken /\ line = Blank)
    BY <1>1, <1>2, LineIs
  <2>2. menu' = [menu EXCEPT !.pc = "statement", !.region = line, !.eof = eof, !.broken = broken]
    BY <1>4, <2>1 DEF ReadOn
  <2>3. line \in Rowids \cup Regions \cup {Blank}
    BY <1>4 DEF IsNumber
  <2>4. menu.entry # "update" => line # Blank /\ broken \in {"no", "region"}
    <3>1. menu.entry # "update" => line # Blank
      BY <1>4, MenuConstants DEF IsNumber
    <3> QED
      BY <2>1, <3>1
  <2>5. MenuTypeOK'
    BY <1>2, <2>2, <2>3 DEF MenuInv, MenuTypeOK, Ends
  <2>6. /\ menu.entry \in Entries /\ ~menu.wrote
        /\ menu.entry = "update" => menu.broken # "menu" /\ (menu.broken = "id" => menu.text = Blank)
        /\ menu.entry # "delete"
    BY <1>2 DEF MenuInv, EntryRead
  <2>7. EntryRead' /\ TruncatedEntryWritesLittle'
    BY <2>1, <2>2, <2>4, <2>6 DEF MenuInv, MenuTypeOK, EntryRead, TruncatedEntryWritesLittle
  <2> QED
    BY <2>5, <2>7 DEF MenuInv
<1> QED
  BY <1>1, <1>3, <1>4

LEMMA AddStep ==
    ASSUME MenuInv, Add
    PROVE  MenuInv'
<1>1. /\ menu.pc = "statement" /\ menu.entry = "add" /\ lastId < MaxRowid
      /\ customers' = customers \cup {[id |-> lastId + 1, text |-> menu.text, region |-> menu.region]}
      /\ lastId' = lastId + 1
      /\ menu' = [menu EXCEPT !.pc = "menu", !.wrote = TRUE]
  BY DEF Add, BackToMenu
<1>2. lastId + 1 \in Rowids /\ lastId + 1 \in 0..MaxRowid
  BY <1>1, MenuConstants DEF MenuInv, MenuTypeOK, Rowids
<1>3. menu.broken \in {"no", "region"} /\ menu.region \in Nat
  BY <1>1, MenuConstants DEF MenuInv, MenuTypeOK, EntryRead
<1>4. [id |-> lastId + 1, text |-> menu.text, region |-> menu.region]
        \in [id : Rowids, text : Texts \cup {Blank}, region : Nat]
  BY <1>2, <1>3 DEF MenuInv, MenuTypeOK
<1>5. MenuTypeOK'
  BY <1>1, <1>2, <1>4 DEF MenuInv, MenuTypeOK
<1>6. EntryRead' /\ TruncatedEntryWritesLittle'
  BY <1>1, <1>3 DEF MenuInv, MenuTypeOK, EntryRead, TruncatedEntryWritesLittle, EndsIn
<1> QED
  BY <1>5, <1>6 DEF MenuInv

LEMMA UpdateStep ==
    ASSUME MenuInv, Update
    PROVE  MenuInv'
<1>1. /\ menu.pc = "statement" /\ menu.entry = "update"
      /\ customers' = {IF c.id = menu.id THEN Updated(c) ELSE c : c \in customers}
      /\ menu' = [menu EXCEPT !.pc = "menu", !.wrote = TRUE]
      /\ lastId' = lastId
  BY DEF Update, BackToMenu
<1> DEFINE Rows == [id : Rowids, text : Texts \cup {Blank}, region : Nat]
<1>2. ASSUME NEW c \in Rows PROVE Updated(c) \in Rows
  <2>1. PICK t \in Texts \cup {Blank} : t = IF menu.text = Blank THEN c.text ELSE menu.text
    BY DEF MenuInv, MenuTypeOK
  <2>2. PICK n \in Nat : n = IF menu.region = Blank THEN c.region ELSE menu.region
    BY MenuConstants DEF MenuInv, MenuTypeOK
  <2>3. Updated(c) = [c EXCEPT !.text = t, !.region = n]
    BY <2>1, <2>2 DEF Updated
  <2> QED
    BY <2>3
<1>3. customers \subseteq Rows
  BY DEF MenuInv, MenuTypeOK
<1> HIDE DEF Rows
<1>4. customers' \subseteq Rows
  BY <1>1, <1>2, <1>3
<1>5. MenuTypeOK'
  BY <1>1, <1>4 DEF MenuInv, MenuTypeOK, Rows
<1>6. EntryRead' /\ TruncatedEntryWritesLittle'
  <2>1. menu.text # Blank \/ menu.region # Blank
    BY DEF Update
  <2>2. menu.broken \in {"no", "text", "region"}
    BY <1>1, <2>1 DEF MenuInv, MenuTypeOK, EntryRead
  <2> QED
    BY <1>1, <2>2 DEF MenuInv, MenuTypeOK, EntryRead, TruncatedEntryWritesLittle, EndsIn
<1> QED
  BY <1>5, <1>6 DEF MenuInv

LEMMA DeleteStep ==
    ASSUME MenuInv, Delete
    PROVE  MenuInv'
<1>1. /\ menu.pc = "statement" /\ menu.entry = "delete"
      /\ customers' \subseteq customers
      /\ menu' = [menu EXCEPT !.pc = "menu", !.wrote = TRUE]
      /\ lastId' = lastId
  BY DEF Delete, BackToMenu
<1>2. MenuTypeOK'
  BY <1>1 DEF MenuInv, MenuTypeOK
<1>3. EntryRead' /\ TruncatedEntryWritesLittle'
  BY <1>1 DEF MenuInv, MenuTypeOK, EntryRead, TruncatedEntryWritesLittle, EndsIn
<1> QED
  BY <1>2, <1>3 DEF MenuInv

\* The steps at the menu, and the ends of an entry that write nothing.
LEMMA MenuMoves ==
    ASSUME MenuInv,
           Start \/ Choose \/ ChooseInvalid \/ ChooseExit \/ StatementWritesNothing \/ Killed
    PROVE  MenuInv'
<1>1. CASE Start
  <2>1. PICK n \in 0..MaxMenuRuns : n = menu.runs + 1
    BY <1>1, MenuConstants DEF Start, MenuInv, MenuTypeOK
  <2>2. menu' = [pc |-> "menu", entry |-> "none", id |-> 0, text |-> Blank, region |-> Blank,
                 eof |-> FALSE, runs |-> n, broken |-> "no", wrote |-> FALSE]
    BY <1>1, <2>1 DEF Start, Idle
  <2>3. MenuTypeOK'
    <3>1. customers' = customers /\ lastId' = lastId
      BY <1>1 DEF Start
    <3>2. menu' \in [pc : {"menu"}, entry : {"none"}, id : {0}, text : {Blank}, region : {Blank},
                     eof : BOOLEAN, runs : 0..MaxMenuRuns, broken : Ends, wrote : BOOLEAN]
      BY <2>2 DEF Ends
    <3> QED
      BY <3>1, <3>2 DEF MenuInv, MenuTypeOK, Ends
  <2>4. EntryRead' /\ TruncatedEntryWritesLittle'
    BY <2>2 DEF EntryRead, TruncatedEntryWritesLittle
  <2> QED
    BY <2>3, <2>4 DEF MenuInv
<1>2. CASE Choose
  <2>0. PICK entry \in Entries, eof \in BOOLEAN :
           menu' = [Idle EXCEPT !.pc = FirstField(entry), !.entry = entry, !.runs = menu.runs,
                                !.eof = eof, !.broken = IF eof THEN "menu" ELSE "no"]
    BY <1>2 DEF Choose
  <2>1. PICK broken \in {"no", "menu"} :
           /\ broken # "no" => eof
           /\ menu' = [Idle EXCEPT !.pc = FirstField(entry), !.entry = entry, !.runs = menu.runs,
                                   !.eof = eof, !.broken = broken]
    BY <2>0
  <2>2. PICK next \in {"statement", "region", "text", "id"} :
           /\ next = FirstField(entry)
           /\ next = "id" => entry \in {"delete", "update"}
           /\ next = "text" => entry = "add"
           /\ next = "region" => entry = "filter"
           /\ next = "statement" => entry = "list"
    BY DEF FirstField, Entries
  <2>3. menu' = [pc |-> next, entry |-> entry, id |-> 0, text |-> Blank, region |-> Blank,
                 eof |-> eof, runs |-> menu.runs, broken |-> broken, wrote |-> FALSE]
    BY <2>1, <2>2 DEF Idle
  <2>4. MenuTypeOK'
    BY <1>2, <2>3 DEF Choose, MenuInv, MenuTypeOK
  <2>5. /\ menu'.pc = next /\ menu'.entry = entry /\ menu'.eof = eof
        /\ menu'.broken = broken /\ menu'.wrote = FALSE
    BY <2>3
  <2>6. /\ next # "statement" \/ entry = "list"
        /\ next # "region" \/ entry = "filter"
        /\ next # "text" \/ entry = "add"
        /\ next # "id" \/ entry \in {"delete", "update"}
    BY <2>2
  <2>7. EntryRead'
    BY <2>1, <2>5, <2>6 DEF EntryRead
  <2>8. TruncatedEntryWritesLittle'
    BY <2>5 DEF TruncatedEntryWritesLittle
  <2> QED
    BY <2>4, <2>7, <2>8 DEF MenuInv
<1>3. CASE ChooseInvalid
  <2>1. PICK eof \in BOOLEAN : Read(Blank, eof) /\ menu' = [menu EXCEPT !.eof = eof]
    BY <1>3 DEF ChooseInvalid
  <2>2. menu.eof => eof
    BY <2>1 DEF Read
  <2> QED
    BY <1>3, <2>1, <2>2 DEF ChooseInvalid, MenuInv, MenuTypeOK, EntryRead, TruncatedEntryWritesLittle
<1>4. CASE ChooseExit
  BY <1>4 DEF ChooseExit, MenuInv, MenuTypeOK, EntryRead, TruncatedEntryWritesLittle
<1>5. CASE StatementWritesNothing
  BY <1>5 DEF StatementWritesNothing, BackToMenu, MenuInv, MenuTypeOK, EntryRead, TruncatedEntryWritesLittle
<1>6. CASE Killed
  BY <1>6 DEF Killed, MenuInv, MenuTypeOK, EntryRead, TruncatedEntryWritesLittle
<1> QED
  BY <1>1, <1>2, <1>3, <1>4, <1>5, <1>6

LEMMA OtherProgramStep ==
    ASSUME MenuInv, OtherProgram
    PROVE  MenuInv'
<1>1. menu' = menu
  BY DEF OtherProgram
<1>2. CASE /\ lastId < MaxRowid
           /\ \E t \in Texts, r \in Regions :
                customers' = customers \cup {[id |-> lastId + 1, text |-> t, region |-> r]}
           /\ lastId' = lastId + 1
  <2>1. PICK t \in Texts, r \in Regions :
           customers' = customers \cup {[id |-> lastId + 1, text |-> t, region |-> r]}
    BY <1>2
  <2>2. lastId + 1 \in Rowids /\ lastId + 1 \in 0..MaxRowid
    BY <1>2, MenuConstants DEF MenuInv, MenuTypeOK, Rowids
  <2>3. [id |-> lastId + 1, text |-> t, region |-> r]
          \in [id : Rowids, text : Texts \cup {Blank}, region : Nat]
    BY <2>2, MenuConstants
  <2> QED
    BY <1>1, <1>2, <2>1, <2>2, <2>3 DEF MenuInv, MenuTypeOK, EntryRead, TruncatedEntryWritesLittle
<1>3. CASE customers' \subseteq customers /\ lastId' = lastId
  BY <1>1, <1>3 DEF MenuInv, MenuTypeOK, EntryRead, TruncatedEntryWritesLittle
<1> QED
  BY <1>2, <1>3 DEF OtherProgram

LEMMA NextMenuInv == MenuInv /\ [MenuNext]_menuVars => MenuInv'
<1> SUFFICES ASSUME MenuInv, [MenuNext]_menuVars PROVE MenuInv'
  OBVIOUS
<1>1. CASE UNCHANGED menuVars
  BY <1>1 DEF menuVars, MenuInv, MenuTypeOK, EntryRead, TruncatedEntryWritesLittle
<1> QED
  BY <1>1, MenuMoves, ReadIdStep, ReadTextStep, ReadRegionStep, AddStep, DeleteStep, UpdateStep,
     OtherProgramStep DEF MenuNext, MenuStep

LEMMA MenuInvHolds == MenuSpec => []MenuInv
  BY InitMenuInv, NextMenuInv, PTL DEF MenuSpec

\* The console menu's state and the rows it writes have their types: no row gets
\* an empty region, and no update one that is no number.
THEOREM MenuTypeCorrect == MenuSpec => []MenuTypeOK
<1>1. MenuInv => MenuTypeOK
  BY DEF MenuInv
<1> QED
  BY <1>1, MenuInvHolds, PTL

\* customers.cpp: whatever is typed and wherever the input ends, an entry that
\* lacks the line with its last number, or was only chosen, never writes; the line
\* that breaks off itself counts for what there is of it.
THEOREM TruncatedEntriesWriteLittle == MenuSpec => []TruncatedEntryWritesLittle
<1>1. MenuInv => TruncatedEntryWritesLittle
  BY DEF MenuInv
<1> QED
  BY <1>1, MenuInvHolds, PTL

-----------------------------------------------------------------------------
(* The processes side by side                                              *)

\* Everything that runs by itself keeps its type, however the processes
\* interleave: none has a say in the state of another.
THEOREM ProcessesTypeCorrect == ProcessesSpec => []ProcessesTypeOK
<1>1. ServerTypeOK /\ SchedulerTypeOK /\ MenuTypeOK => ProcessesTypeOK
  BY DEF ProcessesTypeOK
<1> QED
  BY <1>1, ServerTypeCorrect, SchedulerTypeCorrect, MenuTypeCorrect, PTL DEF ProcessesSpec

=============================================================================
