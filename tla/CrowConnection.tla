---------------------------- MODULE CrowConnection ----------------------------
(***************************************************************************)
(* One worker of Crow: an io_context run by one thread, the connections    *)
(* given to it and the task_timer that closes the silent ones.  Handlers   *)
(* wait in one queue and run one at a time.  Closing a socket whose read   *)
(* is under way puts the aborted read at the end of that queue, so other   *)
(* handlers run between the deadline of a connection and its last handler. *)
(* The timer numbers its tasks from 1 and starts again whenever a tick     *)
(* leaves it without tasks; a connection keeps the last number it was      *)
(* given.  All tasks wait equally long, so they fall due in the order of   *)
(* their numbers.                                                          *)
(***************************************************************************)
EXTENDS Naturals, FiniteSets, Sequences

CONSTANTS
    Conns,        \* connections the acceptor gives to this worker, each once
    MaxArrivals   \* bound: reads that bring something

ASSUME CrowConnectionAssumption == MaxArrivals \in Nat

VARIABLES
    ready,      \* handlers waiting to run
    phase,      \* phase[c]: "new", "posted", "reading", "gone"
    isOpen,     \* isOpen[c]: the socket is open
    task_id,    \* task_id[c]: the number of the last deadline, 0 at first
    tasks,      \* the timer's map: number -> [conn, due]
    highest_id, \* the last number given out
    arrivals,   \* number of reads that brought something
    era,        \* history: resets of highest_id, and when each number was given
    robbed      \* history: connections whose deadline another one called off

connVars == <<ready, phase, isOpen, task_id, tasks, highest_id, arrivals, era, robbed>>

\* What a read brings: a whole request on a connection that stays, a whole
\* request that asks to close, a part of a request, bytes that do not parse or
\* a URL without a route, the end of the stream, or nothing: it was aborted.
Brings == {"request", "lastRequest", "part", "bad", "eof"}
Handler == [run : {"start"}, conn : Conns]
             \cup [run : {"read"}, conn : Conns, got : Brings \cup {"aborted"}]
             \cup {[run |-> "tick"]}

TypeOK ==
    /\ ready \in Seq(Handler)
    /\ phase \in [Conns -> {"new", "posted", "reading", "gone"}]
    /\ isOpen \in [Conns -> BOOLEAN]
    /\ task_id \in [Conns -> Nat]
    /\ highest_id \in Nat
    /\ DOMAIN tasks \subseteq 1..highest_id
    /\ \A i \in DOMAIN tasks : tasks[i] \in [conn : Conns, due : BOOLEAN]
    /\ arrivals \in 0..MaxArrivals
    /\ era \in [now : Nat, of : [Conns -> Nat]]
    /\ robbed \subseteq Conns

Init ==
    /\ ready = <<>>
    /\ phase = [c \in Conns |-> "new"]
    /\ isOpen = [c \in Conns |-> FALSE]
    /\ task_id = [c \in Conns |-> 0]
    /\ tasks = <<>> /\ highest_id = 0
    /\ arrivals = 0
    /\ era = [now |-> 0, of |-> [c \in Conns |-> 0]]
    /\ robbed = {}

Queued(h) == \E k \in DOMAIN ready : ready[k] = h
ReadQueued(c) == \E k \in DOMAIN ready : ready[k].run = "read" /\ ready[k].conn = c

-----------------------------------------------------------------------------
(* The timer *)

Without(f, ids) == [i \in DOMAIN f \ ids |-> f[i]]

\* cancel(task_id_): erases whatever has that number.
Cancelled(c) == Without(tasks, {task_id[c]})

\* Those who lose their deadline when c calls off its number.
Robbed(c) == {tasks[i].conn : i \in DOMAIN tasks \cap {task_id[c]}} \ {c}

\* Mutant of StartDeadline: the deadline set before is left in the map.
StartDeadlineOnly(c) ==
    /\ highest_id' = highest_id + 1
    /\ tasks' = [i \in DOMAIN tasks \cup {highest_id + 1} |->
                    IF i = highest_id + 1 THEN [conn |-> c, due |-> FALSE] ELSE tasks[i]]
    /\ task_id' = [task_id EXCEPT ![c] = highest_id + 1]
    /\ era' = [era EXCEPT !.of[c] = era.now]
    /\ robbed' = (robbed \cup Robbed(c)) \ {c}

\* cancel_deadline_timer, then schedule: ++highest_id_.
StartDeadline(c) ==
    /\ highest_id' = highest_id + 1
    /\ tasks' = [i \in (DOMAIN tasks \ {task_id[c]}) \cup {highest_id + 1} |->
                    IF i = highest_id + 1 THEN [conn |-> c, due |-> FALSE] ELSE tasks[i]]
    /\ task_id' = [task_id EXCEPT ![c] = highest_id + 1]
    /\ era' = [era EXCEPT !.of[c] = era.now]
    /\ robbed' = (robbed \cup Robbed(c)) \ {c}

\* The clock passes the deadline that was set first.
FallDue ==
    \E i \in DOMAIN tasks :
        /\ ~tasks[i].due
        /\ \A j \in DOMAIN tasks : j < i => tasks[j].due
        /\ tasks' = [tasks EXCEPT ![i].due = TRUE]
        /\ UNCHANGED <<ready, phase, isOpen, task_id, highest_id, arrivals, era, robbed>>

\* The steady timer expires.
TickExpires ==
    /\ DOMAIN tasks # {} \/ highest_id > 0
    /\ ~Queued([run |-> "tick"])
    /\ ready' = Append(ready, [run |-> "tick"])
    /\ UNCHANGED <<phase, isOpen, task_id, tasks, highest_id, arrivals, era, robbed>>

DueIds == {i \in DOMAIN tasks : tasks[i].due}

\* The deadlines that cut a read short.  A read that could be done but was not yet
\* counts as one that brought nothing.
CutShort == {i \in DueIds : isOpen[tasks[i].conn] /\ ~ReadQueued(tasks[i].conn)}

\* The one way to take the numbers in their order.
InOrder(ids) ==
    {o \in [1..Cardinality(ids) -> ids] : \A j, k \in 1..Cardinality(ids) : j < k => o[j] < o[k]}

\* The aborted reads, in the order of their deadlines.
Aborts(order) ==
    [k \in DOMAIN order |-> [run |-> "read", conn |-> tasks[order[k]].conn, got |-> "aborted"]]

\* process_tasks: the tasks that are due close their sockets.
RunTick ==
    /\ tasks' = Without(tasks, DueIds)
    /\ isOpen' = [c \in Conns |-> isOpen[c] /\ \A i \in DueIds : tasks[i].conn # c]
    /\ \E order \in InOrder(CutShort) : ready' = Tail(ready) \o Aborts(order)
    /\ highest_id' = IF DOMAIN tasks' = {} THEN 0 ELSE highest_id
    /\ era' = IF DOMAIN tasks' = {} /\ highest_id > 0 THEN [era EXCEPT !.now = @ + 1] ELSE era
    /\ UNCHANGED <<phase, task_id, arrivals, robbed>>

-----------------------------------------------------------------------------
(* A connection *)

\* The acceptor thread posts start().
Post(c) ==
    /\ phase[c] = "new"
    /\ phase' = [phase EXCEPT ![c] = "posted"]
    /\ isOpen' = [isOpen EXCEPT ![c] = TRUE]
    /\ ready' = Append(ready, [run |-> "start", conn |-> c])
    /\ UNCHANGED <<task_id, tasks, highest_id, arrivals, era, robbed>>

RunStart(c) ==
    /\ phase' = [phase EXCEPT ![c] = "reading"]
    /\ StartDeadline(c)
    /\ ready' = Tail(ready)
    /\ UNCHANGED <<isOpen, arrivals>>

\* The read under way on c completes.
Arrive(c, got) ==
    /\ arrivals < MaxArrivals
    /\ phase[c] = "reading" /\ isOpen[c] /\ ~ReadQueued(c)
    /\ arrivals' = arrivals + 1
    /\ ready' = Append(ready, [run |-> "read", conn |-> c, got |-> got])
    /\ UNCHANGED <<phase, isOpen, task_id, tasks, highest_id, era, robbed>>

\* Mutant of GoOn: the connection reads on without a deadline.
GoOnUnwatched(c) ==
    /\ tasks' = Cancelled(c)
    /\ robbed' = robbed \cup Robbed(c)
    /\ ready' = Tail(ready)
    /\ UNCHANGED <<phase, isOpen, task_id, highest_id, arrivals, era>>

\* A part of a request, or a request that has been answered: read on.
GoOn(c) ==
    /\ StartDeadline(c)
    /\ ready' = Tail(ready)
    /\ UNCHANGED <<phase, isOpen, arrivals>>

\* The deadline is cancelled and the last handler that holds the connection
\* ends: after an error, after a request that asked to close, or because
\* remote_endpoint() threw out of handle() on a socket the tick has closed.
Leave(c) ==
    /\ tasks' = Cancelled(c)
    /\ phase' = [phase EXCEPT ![c] = "gone"]
    /\ isOpen' = [isOpen EXCEPT ![c] = FALSE]
    /\ robbed' = (robbed \cup Robbed(c)) \ {c}
    /\ ready' = Tail(ready)
    /\ UNCHANGED <<task_id, highest_id, arrivals, era>>

ReadsOn(c, got) == isOpen[c] /\ got \in {"request", "part"}

RunRead(c, got) ==
    \/ ReadsOn(c, got) /\ GoOn(c)
    \/ ~ReadsOn(c, got) /\ Leave(c)

\* The io_context runs the handler at the head of its queue.
Run ==
    /\ ready # <<>>
    /\ LET h == Head(ready) IN
        \/ h.run = "tick" /\ RunTick
        \/ h.run = "start" /\ RunStart(h.conn)
        \/ h.run = "read" /\ RunRead(h.conn, h.got)

Next ==
    \/ FallDue
    \/ TickExpires
    \/ \E c \in Conns : Post(c)
    \/ \E c \in Conns, got \in Brings : Arrive(c, got)
    \/ Run

Spec == Init /\ [][Next]_connVars

\* The worker runs what is ready, time passes and the steady timer expires.
FairSpec == Spec /\ WF_connVars(Run) /\ WF_connVars(FallDue) /\ WF_connVars(TickExpires)

-----------------------------------------------------------------------------
(* Properties *)

\* A task of the timer is the one deadline of a connection that is reading, and
\* the connection knows its number: a request or an error can call it off, and
\* no earlier deadline is left to close the socket in the middle of a request.
DeadlineIsOwn ==
    \A i \in DOMAIN tasks :
        phase[tasks[i].conn] = "reading" /\ task_id[tasks[i].conn] = i

\* Two connections hold the same number only when the timer was empty, and
\* started its numbers again, between the two.
NumbersUniqueBetweenResets ==
    \A c, d \in Conns :
        (c # d /\ task_id[c] # 0 /\ task_id[c] = task_id[d]) => era.of[c] # era.of[d]

Waiting(c) == phase[c] = "reading" /\ isOpen[c] /\ ~ReadQueued(c)

HasDeadline(c) == \E i \in DOMAIN tasks : tasks[i].conn = c

\* A connection that waits for its peer is without a deadline only when another
\* connection called off a number that had been given twice.
OnlyReuseLosesDeadlines == \A c \in Conns : Waiting(c) => HasDeadline(c) \/ c \in robbed

\* Crow's task_timer: a deadline belongs to the one connection that can call it
\* off, numbers are given twice only when the timer has run empty in between,
\* and only a number given twice takes a deadline from somebody else.
DeadlinesAreOwn == DeadlineIsOwn /\ NumbersUniqueBetweenResets /\ OnlyReuseLosesDeadlines

\* Peers stop sending, so every connection ends: a silent one is cut, its
\* aborted read runs and lets go of it.  Only one that was robbed stays.
Leaves(c) == (phase[c] = "posted") ~> (phase[c] = "gone" \/ c \in robbed)
SilentConnectionsLeave == \A c \in Conns : Leaves(c)

\* Crow's timeout: "Set the connection timeout in seconds (default is 5)".  A
\* connection that waits for its peer has a deadline in the map of the timer.
WaitingHasDeadline ==
    \A c \in Conns : Waiting(c) => HasDeadline(c)

=============================================================================
