----------------------------- MODULE SqliteAccess -----------------------------
(***************************************************************************)
(* The Customers table as the programs reach it through SQLite: the worker *)
(* threads of the web server share one connection, every other program has *)
(* a connection of its own, and all of them open the same file, which is   *)
(* in rollback-journal mode.  A handler is prepare, step until no row is   *)
(* left, finalize, answer; no connection sets a busy timeout, so a lock    *)
(* that is taken makes sqlite3_step return SQLITE_BUSY at once.            *)
(*                                                                         *)
(* sqlite3_step holds the connection's mutex, so one call of it is one     *)
(* action for the threads of that connection.  For the other connections   *)
(* a statement that writes goes through three moments: it reserves the     *)
(* file, takes it exclusively when no other connection is reading, and     *)
(* commits.  A statement that reads holds a shared lock from its first row *)
(* until it is done or finalized.                                          *)
(***************************************************************************)
EXTENDS Naturals, FiniteSets

CONSTANTS
    Threads,   \* worker threads of the web server
    Peers,     \* the other programs: the console, the seed programs
    MaxRowid,  \* largest customer id
    Owing      \* customers with an Overdue bill, which billInfo looks for

Clients == Threads \cup Peers
Rowids == 1..MaxRowid
Writes == {"add", "delete"}
Reads == {"list", "info"}

ASSUME SqliteAccessAssumption ==
    /\ Threads \cap Peers = {}
    /\ MaxRowid \in Nat
    /\ Owing \subseteq Rowids

VARIABLES
    rows,   \* ids of the Customers table, as committed
    last,   \* sqlite_sequence of Customers
    sess,   \* sess[c]: the handler c is in, with its statement
    answer, \* what the last step answered, if it did, and to whom
    seen    \* history: seen[c].must and .may are the ids that were in the table
            \* all the time and at some time since c's request to read

accessVars == <<rows, last, sess, answer, seen>>

Pc == {"idle", "called", "reading", "reserved", "exclusive", "rollback", "stepped"}
Writing == {"reserved", "exclusive", "rollback"}
Session == [pc : Pc, op : Writes \cup Reads \cup {"none"}, id : 0..MaxRowid,
            cursor : 0..MaxRowid,  \* rowid the statement is at
            got : SUBSET Rowids,   \* rows appended to the answer
            rc : {"none", "malformed", "busy", "full", "row", "done"},
            open : BOOLEAN]        \* the statement holds a shared lock
Answers == [to : Clients, code : {"ok", "error", "notFound"}, ids : SUBSET Rowids]

NoSession == [pc |-> "idle", op |-> "none", id |-> 0, cursor |-> 0, got |-> {},
              rc |-> "none", open |-> FALSE]
NoAnswer == [code |-> "none"]
Unseen == [must |-> {}, may |-> {}]

TypeOK ==
    /\ rows \subseteq Rowids
    /\ last \in 0..MaxRowid
    /\ sess \in [Clients -> Session]
    /\ answer \in Answers \cup {NoAnswer}
    /\ seen \in [Clients -> [must : SUBSET Rowids, may : SUBSET Rowids]]

Init ==
    /\ rows = {} /\ last = 0
    /\ sess = [c \in Clients |-> NoSession]
    /\ answer = NoAnswer
    /\ seen = [c \in Clients |-> Unseen]

NoReply == answer' = NoAnswer

-----------------------------------------------------------------------------
(* Locks *)

Connection(c) == IF c \in Threads THEN "server" ELSE c
Others(c) == {d \in Clients : Connection(d) # Connection(c)}

\* A step of a write statement of the same connection is under way.
MutexHeld(c) ==
    \E d \in Clients \ {c} :
        Connection(d) = Connection(c) /\ sess[d].pc \in Writing

\* Another connection has the file to itself, or still keeps newcomers out
\* after it tried to: nobody can start to read, except on a connection that is
\* reading already and has its shared lock.
FileLocked(c) ==
    /\ ~\E d \in Clients : Connection(d) = Connection(c) /\ sess[d].open
    /\ \E d \in Others(c) : sess[d].pc \in {"exclusive", "rollback"}

\* Another connection is about to write: nobody else can.
FileReserved(c) == \E d \in Others(c) : sess[d].pc \in Writing
\* Mutant of FileRead: write-ahead log mode, readers do not stop a writer.
FileReadInWal(c) == FALSE

\* Another connection is in the middle of a scan: nobody can commit.
FileRead(c) == \E d \in Others(c) : sess[d].open

-----------------------------------------------------------------------------
(* Handlers *)

\* A request arrives at a free worker thread, or a menu entry is chosen.
Begin(c) ==
    /\ sess[c].pc = "idle"
    /\ \E op \in (IF c \in Threads THEN Writes \cup Reads ELSE Writes \cup {"list"}) :
         /\ \E id \in (IF op \in {"delete", "info"} THEN Rowids ELSE {0}) :
              sess' = [sess EXCEPT ![c] = [NoSession EXCEPT !.pc = "called", !.op = op, !.id = id]]
         /\ seen' = [seen EXCEPT ![c] = IF op \in Reads THEN [must |-> rows, may |-> rows] ELSE Unseen]
    /\ UNCHANGED <<rows, last>> /\ NoReply

\* A request without the parameter it needs: no statement, or an empty one,
\* is prepared.
Malformed(c) ==
    /\ c \in Threads
    /\ sess[c].pc = "called"
    /\ sess' = [sess EXCEPT ![c].pc = "stepped", ![c].rc = "malformed"]
    /\ UNCHANGED <<rows, last, seen>> /\ NoReply

\* The statement returns code rc and holds no lock any more.
Returns(c, rc) ==
    sess' = [sess EXCEPT ![c].pc = "stepped", ![c].rc = rc, ![c].open = FALSE]

\* Mutant of Ahead: the row the statement is at is visited again.
AheadOrAt(c) ==
    {i \in rows : i >= sess[c].cursor /\ (sess[c].op = "info" => i = sess[c].id /\ i \in Owing)}

\* The rows the statement is still to visit, in the order of their rowids.
Ahead(c) ==
    {i \in rows : i > sess[c].cursor /\ (sess[c].op = "info" => i = sess[c].id /\ i \in Owing)}

\* One sqlite3_step that is not refused: the next row, or SQLITE_DONE.  A list
\* goes on to the next row, billInfo asks for one row only.
FetchRow(c) ==
    /\ IF Ahead(c) = {}
       THEN Returns(c, "done")
       ELSE \E i \in Ahead(c) :
              /\ \A j \in Ahead(c) : i <= j
              /\ sess' = [sess EXCEPT
                   ![c].cursor = i, ![c].got = @ \cup {i}, ![c].open = TRUE,
                   ![c].pc = IF sess[c].op = "info" THEN "stepped" ELSE "reading",
                   ![c].rc = IF sess[c].op = "info" THEN "row" ELSE @]
    /\ UNCHANGED <<rows, last, seen>> /\ NoReply

StepReadFirst(c) ==
    /\ sess[c].pc = "called" /\ sess[c].op \in Reads
    /\ ~MutexHeld(c)
    /\ ~FileLocked(c)
    /\ FetchRow(c)

StepReadNext(c) ==
    /\ sess[c].pc = "reading"
    /\ ~MutexHeld(c)
    /\ FetchRow(c)

StepReadBusy(c) ==
    /\ sess[c].pc = "called" /\ sess[c].op \in Reads
    /\ ~MutexHeld(c)
    /\ FileLocked(c)
    /\ Returns(c, "busy")
    /\ UNCHANGED <<rows, last, seen>> /\ NoReply

\* The step of an INSERT or DELETE, up to the reserved lock.
StepWrite(c) ==
    /\ sess[c].pc = "called" /\ sess[c].op \in Writes
    /\ ~MutexHeld(c)
    /\ IF FileReserved(c)
       THEN Returns(c, "busy")
       ELSE sess' = [sess EXCEPT ![c].pc = "reserved"]
    /\ UNCHANGED <<rows, last, seen>> /\ NoReply

NothingToDelete(c) == sess[c].op = "delete" /\ sess[c].id \notin rows

\* Mutant of Full: off by one.
FullTooLate(c) == sess[c].op = "add" /\ last > MaxRowid

Full(c) == sess[c].op = "add" /\ last >= MaxRowid

\* A statement that changes nothing needs no exclusive lock; one that cannot
\* have it rolls its changes back.
StepWriteLock(c) ==
    /\ sess[c].pc = "reserved"
    /\ CASE NothingToDelete(c) -> Returns(c, "done")
         [] Full(c)            -> Returns(c, "full")
         [] OTHER -> sess' = [sess EXCEPT ![c].pc = IF FileRead(c) THEN "rollback" ELSE "exclusive"]
    /\ UNCHANGED <<rows, last, seen>> /\ NoReply

StepWriteRollback(c) ==
    /\ sess[c].pc = "rollback"
    /\ Returns(c, "busy")
    /\ UNCHANGED <<rows, last, seen>> /\ NoReply

NewRows(c) == IF sess[c].op = "add" THEN rows \cup {last + 1} ELSE rows \ {sess[c].id}

StepWriteCommit(c) ==
    /\ sess[c].pc = "exclusive"
    /\ rows' = NewRows(c)
    /\ last' = IF sess[c].op = "add" THEN last + 1 ELSE last
    /\ Returns(c, "done")
    /\ seen' = [d \in Clients |->
                  IF sess[d].op \in Reads /\ sess[d].pc # "idle"
                  THEN [must |-> seen[d].must \cap NewRows(c), may |-> seen[d].may \cup NewRows(c)]
                  ELSE seen[d]]
    /\ NoReply

\* Mutant of AnswerCode: a write does not look at the result of its step.
AnswerCodeUnchecked(c) ==
    CASE sess[c].op = "list" -> IF c \in Peers /\ sess[c].rc = "busy" THEN "error" ELSE "ok"
      [] sess[c].op = "info" -> IF sess[c].rc = "row" THEN "ok" ELSE "notFound"
      [] sess[c].op \in Writes -> "ok"

\* The server answers a list with 200 and the rows it has whatever made the
\* loop end; the console's listCustomers, which uses sqlite3_exec, tells.
AnswerCode(c) ==
    CASE sess[c].op = "list" -> IF c \in Peers /\ sess[c].rc = "busy" THEN "error" ELSE "ok"
      [] sess[c].op = "info" -> CASE sess[c].rc = "row" -> "ok"
                                  [] sess[c].rc = "malformed" -> "error"
                                  [] OTHER -> "notFound"
      [] sess[c].op \in Writes -> IF sess[c].rc = "done" THEN "ok" ELSE "error"

\* Mutant of FinalizeAndRespond: the statement is not finalized.
RespondOnly(c) ==
    /\ sess[c].pc = "stepped"
    /\ answer' = [to |-> c, code |-> AnswerCode(c), ids |-> sess[c].got]
    /\ sess' = [sess EXCEPT ![c] = [NoSession EXCEPT !.open = sess[c].open]]
    /\ seen' = [seen EXCEPT ![c] = Unseen]
    /\ UNCHANGED <<rows, last>>

\* The statement is finalized on every path, then the answer is written.
FinalizeAndRespond(c) ==
    /\ sess[c].pc = "stepped"
    /\ answer' = [to |-> c, code |-> AnswerCode(c), ids |-> sess[c].got]
    /\ sess' = [sess EXCEPT ![c] = NoSession]
    /\ seen' = [seen EXCEPT ![c] = Unseen]
    /\ UNCHANGED <<rows, last>>

\* A process is killed: its requests are lost, its locks are released and a
\* statement that has not committed is rolled back from the journal.
Crash(conn) ==
    LET gone == {c \in Clients : Connection(c) = conn}
    IN  /\ \E c \in gone : sess[c].pc # "idle"
        /\ sess' = [c \in Clients |-> IF c \in gone THEN NoSession ELSE sess[c]]
        /\ seen' = [c \in Clients |-> IF c \in gone THEN Unseen ELSE seen[c]]
        /\ UNCHANGED <<rows, last>> /\ NoReply

Step(c) ==
    \/ Malformed(c)
    \/ StepReadFirst(c) \/ StepReadNext(c) \/ StepReadBusy(c)
    \/ StepWrite(c) \/ StepWriteLock(c) \/ StepWriteRollback(c) \/ StepWriteCommit(c)
    \/ FinalizeAndRespond(c)

Next ==
    \/ \E c \in Clients : Begin(c) \/ Step(c)
    \/ \E c \in Clients : Crash(Connection(c))

Spec == Init /\ [][Next]_accessVars

\* A thread that is scheduled goes on; one that waits for the connection's
\* mutex gets it when it is free again and again.  Nothing makes a request
\* arrive and nothing makes a process crash.
FairSpec == Spec /\ \A c \in Clients : SF_accessVars(Step(c))

-----------------------------------------------------------------------------
(* Properties *)

\* The calls of CustomerRegistry that the handlers stand for.
Calls == [c \in Clients |->
    [st   |-> CASE sess[c].pc = "idle" -> "idle"
                [] sess[c].op \in Writes /\ sess[c].rc = "done" -> "applied"
                [] OTHER -> "pending",
     op   |-> sess[c].op,
     id   |-> sess[c].id,
     must |-> seen[c].must,
     may  |-> seen[c].may]]

Registry == INSTANCE CustomerRegistry WITH call <- Calls

\* The handlers keep the promises of CustomerRegistry: an acknowledged write
\* happened, once, and survives a crash; a refused one did not; a list loses
\* either nothing or everything.
ImplementsRegistry == Registry!RegSpec

\* While one program is in the middle of a scan, no other program's write gets
\* through: only requests of the same server change rows under a list.
ScanIsolated ==
    [][\A c \in Clients :
         sess[c].open /\ sess'[c].open /\ rows' # rows =>
            \E d \in Clients \ {c} : Connection(d) = Connection(c) /\ sess[d].pc = "exclusive"
      ]_accessVars

\* No path through a handler leaves its statement open: a server at rest never
\* keeps the other programs from writing.
NoLockLeft ==
    \A c \in Clients : sess[c].pc \in {"idle", "called"} => ~sess[c].open

\* Every request is answered, or its process dies.
AnsweredTo(c) == sess[c].pc = "called" ~> sess[c].pc = "idle"
Answered == \A c \in Clients : AnsweredTo(c)

=============================================================================
