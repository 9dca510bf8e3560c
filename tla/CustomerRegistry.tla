--------------------------- MODULE CustomerRegistry ---------------------------
(***************************************************************************)
(* What the programs promise about the Customers table to whoever calls    *)
(* them, without connections, statements and locks: a call to add or       *)
(* delete takes effect at one moment between the call and its answer, and  *)
(* is answered "ok" exactly when it did; a list holds every customer that  *)
(* was there all the time and none that never was, unless it is empty      *)
(* because the database was busy.  A crash loses the answer of a call,     *)
(* never its effect.                                                       *)
(***************************************************************************)
EXTENDS Naturals

CONSTANTS
    Clients,   \* whoever calls: the requests in flight and the other programs
    MaxRowid   \* largest customer id that is handed out

Rowids == 1..MaxRowid
Writes == {"add", "delete"}
Reads == {"list", "info"}

VARIABLES
    rows,   \* ids of the customers
    last,   \* the last id handed out
    call,   \* call[c]: the call c makes
    answer  \* what the last step answered, if it did, and to whom

regVars == <<rows, last, call, answer>>

\* A call is [st, op, id, must, may].  st: "idle" (answered, or the answer was
\* lost), "pending" (not yet effective), "applied" (effective).  must and may:
\* the customers that were there all the time, and at some time, since a read
\* was called.  An answer is [to, code, ids].
NoCall == [st |-> "idle", op |-> "none", id |-> 0, must |-> {}, may |-> {}]
NoAnswer == [code |-> "none"]

RegInit ==
    /\ rows = {} /\ last = 0
    /\ call = [c \in Clients |-> NoCall]
    /\ answer = NoAnswer

NoReply == answer' = NoAnswer

NewCall(op, id) ==
    LET there == IF op \in Reads THEN rows ELSE {}
    IN  [st |-> "pending", op |-> op, id |-> id, must |-> there, may |-> there]

Invoke(c, op, id) ==
    /\ call[c].st = "idle"
    /\ call' = [call EXCEPT ![c] = NewCall(op, id)]
    /\ UNCHANGED <<rows, last>> /\ NoReply

\* A read under way sees the change of the table.
Sees(k, newRows) ==
    [st |-> k.st, op |-> k.op, id |-> k.id,
     must |-> k.must \cap newRows, may |-> k.may \cup newRows]

\* The table becomes newRows by c's call.
Effect(c, newRows) ==
    /\ rows' = newRows
    /\ call' = [d \in Clients |->
                  IF d = c THEN [call[d] EXCEPT !.st = "applied"]
                  ELSE IF call[d].st = "pending" /\ call[d].op \in Reads
                  THEN Sees(call[d], newRows)
                  ELSE call[d]]
    /\ NoReply

ApplyAdd(c) ==
    /\ call[c].st = "pending" /\ call[c].op = "add"
    /\ last < MaxRowid
    /\ last' = last + 1
    /\ Effect(c, rows \cup {last + 1})

ApplyDelete(c) ==
    /\ call[c].st = "pending" /\ call[c].op = "delete"
    /\ Effect(c, rows \ {call[c].id})
    /\ UNCHANGED last

Answer(c, code, ids) ==
    /\ answer' = [to |-> c, code |-> code, ids |-> ids]
    /\ call' = [call EXCEPT ![c] = NoCall]
    /\ UNCHANGED <<rows, last>>

ReplyWritten(c) == call[c].st = "applied" /\ Answer(c, "ok", {})

ReplyRefused(c) == call[c].st = "pending" /\ Answer(c, "error", {})

ReplyList(c) ==
    /\ call[c].st = "pending" /\ call[c].op = "list"
    /\ \E ids \in SUBSET Rowids :
         /\ ids = {} \/ (call[c].must \subseteq ids /\ ids \subseteq call[c].may)
         /\ Answer(c, "ok", ids)

ReplyInfo(c) ==
    /\ call[c].st = "pending" /\ call[c].op = "info"
    /\ \/ call[c].id \in call[c].may /\ Answer(c, "ok", {call[c].id})
       \/ Answer(c, "notFound", {})

\* A process stops: the calls S it was serving are never answered.
Crash(S) ==
    /\ call' = [c \in Clients |-> IF c \in S THEN NoCall ELSE call[c]]
    /\ UNCHANGED <<rows, last>> /\ NoReply

RegNext ==
    \/ \E c \in Clients, op \in Writes \cup Reads, id \in 0..MaxRowid : Invoke(c, op, id)
    \/ \E c \in Clients :
         \/ ApplyAdd(c) \/ ApplyDelete(c)
         \/ ReplyWritten(c) \/ ReplyRefused(c) \/ ReplyList(c) \/ ReplyInfo(c)
    \/ \E S \in SUBSET Clients : Crash(S)

RegSpec == RegInit /\ [][RegNext]_regVars

=============================================================================
