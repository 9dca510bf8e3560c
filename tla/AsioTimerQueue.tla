---------------------------- MODULE AsioTimerQueue ----------------------------
(***************************************************************************)
(* The timers of an io_context: a heap of the times at which they fire,    *)
(* with the earliest in front.  Each timer knows its place in the heap, so *)
(* that it can be taken out when it is cancelled, and is in a list of the  *)
(* active timers.  Several waits may hang on one timer; a timer is in the  *)
(* heap once, with the time it had at its first wait.                      *)
(*                                                                         *)
(* An operation begins with a step that does all but its loop; each turn   *)
(* of up_heap, down_heap and get_ready_timers is a step, and no operation  *)
(* begins before the loop has ended: the reactor's mutex is held.          *)
(* Places count from 1 here and from 0 in the code.                        *)
(***************************************************************************)
EXTENDS Naturals, Sequences

CONSTANTS
    Timers,
    Times,    \* when a timer may be set to fire
    MaxWaits  \* bound: waits that hang on one timer

ASSUME AsioTimerQueueAssumption == Times \subseteq Nat \ {0} /\ MaxWaits \in Nat \ {0}

VARIABLES
    heap,      \* entries [time, timer]
    place,     \* place[t]: heap_index_, NoPlace for the largest size_t
    active,    \* the timers in the linked list timers_
    waits,     \* waits[t]: number of operations in op_queue_
    now,
    sift,      \* the loop that runs: "none", "up" (up_heap) or "down" (down_heap)
    index,     \* its entry
    popping,   \* get_ready_timers runs
    fired,     \* history: the entries get_ready_timers took from the front, in order
    expected,  \* history: the entries that were due when it began
    due        \* history: due[t]: the time t was enqueued with, 0: it is not active

timerVars == <<heap, place, active, waits, now, sift, index, popping, fired, expected, due>>

NoPlace == 0

EntryOf(t) == [time |-> due[t], timer |-> t]
Active(t) == t \in active
Free == sift = "none" /\ ~popping

-----------------------------------------------------------------------------
(* The heap *)

Earlier(i, j) == heap[i].time < heap[j].time

Exchanged(i, j) == [heap EXCEPT ![i] = heap[j], ![j] = heap[i]]

\* Mutant of PlacesExchanged: the places of the timers are left as they were.
PlacesAsBefore(i, j) == place

PlacesExchanged(i, j) == [place EXCEPT ![heap[j].timer] = i, ![heap[i].timer] = j]

SwapHeap(i, j) == heap' = Exchanged(i, j) /\ place' = PlacesExchanged(i, j)

Parent(i) == i \div 2

MinChild(i) ==
    IF 2 * i = Len(heap) \/ Earlier(2 * i, 2 * i + 1) THEN 2 * i ELSE 2 * i + 1

\* One turn of up_heap.
UpHeap ==
    /\ sift = "up"
    /\ IF index > 1 /\ Earlier(index, Parent(index))
       THEN SwapHeap(index, Parent(index)) /\ index' = Parent(index) /\ UNCHANGED sift
       ELSE sift' = "none" /\ UNCHANGED <<heap, place, index>>
    /\ UNCHANGED <<active, waits, now, popping, fired, expected, due>>

\* One turn of down_heap.
DownHeap ==
    /\ sift = "down"
    /\ IF 2 * index <= Len(heap) /\ ~Earlier(index, MinChild(index))
       THEN SwapHeap(index, MinChild(index)) /\ index' = MinChild(index) /\ UNCHANGED sift
       ELSE sift' = "none" /\ UNCHANGED <<heap, place, index>>
    /\ UNCHANGED <<active, waits, now, popping, fired, expected, due>>

\* The last entry takes the place of the timer's, and then moves to where it belongs.
TakeOut(t) ==
    LET i == place[t]
        last == Len(heap)
    IN
    /\ heap' = SubSeq(Exchanged(i, last), 1, last - 1)
    /\ place' = [PlacesExchanged(i, last) EXCEPT ![t] = NoPlace]
    /\ index' = i
    /\ sift' = IF i = last THEN "none"
               ELSE IF i > 1 /\ Earlier(last, Parent(i)) THEN "up" ELSE "down"

RemoveTimer(t) ==
    /\ IF place[t] \in DOMAIN heap THEN TakeOut(t) ELSE UNCHANGED <<heap, place, sift, index>>
    /\ active' = active \ {t}
    /\ due' = [due EXCEPT ![t] = 0]

-----------------------------------------------------------------------------
(* Operations *)

TimerInit ==
    /\ heap = <<>> /\ active = {}
    /\ place = [t \in Timers |-> NoPlace]
    /\ waits = [t \in Timers |-> 0]
    /\ now = 0
    /\ sift = "none" /\ index = 0 /\ popping = FALSE
    /\ fired = <<>> /\ expected = {}
    /\ due = [t \in Timers |-> 0]

Forget == fired' = <<>> /\ expected' = {}

\* enqueue_timer for a timer nothing waits on.
Enqueue(t, time) ==
    /\ Free /\ ~Active(t)
    /\ heap' = Append(heap, [time |-> time, timer |-> t])
    /\ place' = [place EXCEPT ![t] = Len(heap) + 1]
    /\ sift' = "up" /\ index' = Len(heap) + 1
    /\ active' = active \cup {t}
    /\ waits' = [waits EXCEPT ![t] = 1]
    /\ due' = [due EXCEPT ![t] = time]
    /\ Forget
    /\ UNCHANGED <<now, popping>>

\* enqueue_timer once more: only the operation is added.
EnqueueAgain(t) ==
    /\ Free /\ Active(t) /\ waits[t] < MaxWaits
    /\ waits' = [waits EXCEPT ![t] = @ + 1]
    /\ Forget
    /\ UNCHANGED <<heap, place, active, now, sift, index, popping, due>>

\* cancel_timer: max operations are aborted, and the timer leaves with its last.
CancelTimer(t, max) ==
    /\ Free /\ Active(t)
    /\ waits' = [waits EXCEPT ![t] = IF max < @ THEN @ - max ELSE 0]
    /\ IF max < waits[t] THEN UNCHANGED <<heap, place, active, sift, index, due>> ELSE RemoveTimer(t)
    /\ Forget
    /\ UNCHANGED <<now, popping>>

\* get_ready_timers begins.
GetReadyTimers(at) ==
    /\ Free /\ at >= now
    /\ now' = at
    /\ popping' = TRUE
    /\ fired' = <<>>
    /\ expected' = {EntryOf(t) : t \in {u \in active : due[u] <= at}}
    /\ UNCHANGED <<heap, place, active, waits, sift, index, due>>

\* One turn of its loop: the operations of the timer in front are handed over.
TakeFront ==
    /\ popping /\ sift = "none"
    /\ IF heap # <<>> /\ heap[1].time <= now
       THEN LET t == heap[1].timer IN
            /\ fired' = Append(fired, heap[1])
            /\ waits' = [waits EXCEPT ![t] = 0]
            /\ RemoveTimer(t)
            /\ UNCHANGED popping
       ELSE /\ popping' = FALSE
            /\ UNCHANGED <<heap, place, active, waits, sift, index, fired, due>>
    /\ UNCHANGED <<now, expected>>

\* move_timer: u, on which nothing waits, takes over everything from t.
MoveTimer(t, u) ==
    /\ Free /\ Active(t) /\ ~Active(u)
    /\ place' = [place EXCEPT ![u] = place[t], ![t] = NoPlace]
    /\ heap' = [heap EXCEPT ![place[t]].timer = u]
    /\ active' = (active \ {t}) \cup {u}
    /\ waits' = [waits EXCEPT ![u] = waits[t], ![t] = 0]
    /\ due' = [due EXCEPT ![u] = due[t], ![t] = 0]
    /\ Forget
    /\ UNCHANGED <<now, sift, index, popping>>

TimerNext ==
    \/ UpHeap \/ DownHeap
    \/ \E t \in Timers, time \in Times : Enqueue(t, time)
    \/ \E t \in Timers : EnqueueAgain(t)
    \/ \E t \in Timers, max \in 1..MaxWaits : CancelTimer(t, max)
    \/ \E at \in Times : GetReadyTimers(at)
    \/ TakeFront
    \/ \E t, u \in Timers : MoveTimer(t, u)

TimerSpec == TimerInit /\ [][TimerNext]_timerVars

-----------------------------------------------------------------------------
(* Properties *)

Entries == [time : Times, timer : Timers]

TimerTypeOK ==
    /\ heap \in Seq(Entries)
    /\ place \in [Timers -> Nat]
    /\ active \subseteq Timers
    /\ waits \in [Timers -> 0..MaxWaits]
    /\ now \in Times \cup {0}
    /\ sift \in {"none", "up", "down"} /\ index \in Nat
    /\ popping \in BOOLEAN
    /\ fired \in Seq(Entries) /\ expected \subseteq Entries
    /\ due \in [Timers -> Times \cup {0}]

\* Every active timer is in the heap once, at the place it knows, with the time
\* it was set to, and nothing else is: a timer that is cancelled takes itself out
\* and not another one.
TimersKnowTheirPlaces ==
    /\ \A t \in active :
          /\ place[t] \in DOMAIN heap
          /\ heap[place[t]] = EntryOf(t)
          /\ waits[t] > 0
    /\ \A i \in DOMAIN heap : heap[i].timer \in active /\ place[heap[i].timer] = i

\* The front of the heap is the earliest timer, which the reactor sleeps for.
EarliestInFront == sift = "none" => \A t \in active : heap[1].time <= due[t]

\* Exactly the timers whose time has come fire, each once and the earlier ones
\* first, whatever was cancelled, moved and enqueued before.
DueFireInOrder ==
    /\ ~popping => {fired[i] : i \in DOMAIN fired} = expected
    /\ \A i, j \in DOMAIN fired :
          i < j => fired[i].time <= fired[j].time /\ fired[i].timer # fired[j].timer

\* asio's timer_queue: timers know their places in the heap, the earliest is in
\* front, and what is due fires in the order of its times.
TimersFireInOrder == TimersKnowTheirPlaces /\ EarliestInFront /\ DueFireInOrder

=============================================================================
