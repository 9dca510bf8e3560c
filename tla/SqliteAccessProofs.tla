-------------------------- MODULE SqliteAccessProofs --------------------------
(***************************************************************************)
(* Theorems of SqliteAccess for any number of threads, programs and        *)
(* customers: locks, the isolation of scans, and that the handlers         *)
(* implement CustomerRegistry.                                             *)
(***************************************************************************)
EXTENDS SqliteAccess, TLAPS

-----------------------------------------------------------------------------
(* The inductive invariant *)

Seen == [must : SUBSET Rowids, may : SUBSET Rowids]

\* What a session s with history w can be like in each place of its handler.
Proper(s, w) ==
    /\ s.pc = "idle" => s = NoSession /\ w = Unseen
    /\ s.pc # "idle" => s.op # "none"
    /\ s.pc = "called" => s.rc = "none" /\ s.got = {} /\ s.cursor = 0 /\ ~s.open
    /\ s.pc = "reading" => /\ s.op = "list" /\ s.rc = "none" /\ s.open
                           /\ s.got \subseteq w.may
                           /\ \A i \in w.must : i <= s.cursor => i \in s.got
    /\ s.pc \in Writing => s.op \in Writes /\ s.rc = "none" /\ s.got = {} /\ ~s.open
    /\ s.pc = "stepped" => s.rc # "none"
    /\ s.pc = "stepped" /\ s.op \in Writes => s.got = {} /\ ~s.open
    /\ s.pc = "stepped" /\ s.op = "info" =>
         IF s.rc = "row" THEN s.got = {s.id} /\ s.id \in w.may ELSE s.got = {}
    /\ s.pc = "stepped" /\ s.op = "list" =>
         IF s.rc = "done" THEN w.must \subseteq s.got /\ s.got \subseteq w.may ELSE s.got = {}

\* The history of a read brackets the table.
Brackets(s, w, table) ==
    s.op \in Reads => w.must \subseteq table /\ table \subseteq w.may

SessionsProper ==
    \A c \in Clients : Proper(sess[c], seen[c]) /\ Brackets(sess[c], seen[c], rows)

\* One statement writes at a time, whatever its connection.
WriterAlone ==
    \A c, d \in Clients : sess[c].pc \in Writing /\ sess[d].pc \in Writing => c = d

\* Who may commit meets no scan of another connection.
NoReaderAtCommit ==
    \A c \in Clients : sess[c].pc = "exclusive" => \A d \in Others(c) : ~sess[d].open

\* The rowid an insert found is still there when it commits.
RowidLeft ==
    \A c \in Clients : sess[c].pc = "exclusive" /\ sess[c].op = "add" => last < MaxRowid

AccessInv == TypeOK /\ SessionsProper /\ WriterAlone /\ NoReaderAtCommit /\ RowidLeft

-----------------------------------------------------------------------------
(* Induction *)

LEMMA IdleIsProper ==
    /\ NoSession \in Session /\ Unseen \in Seen
    /\ Proper(NoSession, Unseen)
    /\ \A table : Brackets(NoSession, Unseen, table)
<1>1. NoSession \in Session /\ Unseen \in Seen
  BY SqliteAccessAssumption DEF NoSession, Session, Pc, Unseen, Seen
<1>2. Proper(NoSession, Unseen)
  BY DEF NoSession, Proper, Writing
<1>3. \A table : Brackets(NoSession, Unseen, table)
  BY DEF NoSession, Brackets, Reads
<1> QED
  BY <1>1, <1>2, <1>3

LEMMA InitAccess == Init => AccessInv
<1> SUFFICES ASSUME Init PROVE AccessInv
  OBVIOUS
<1>1. \A c \in Clients : sess[c] = NoSession /\ seen[c] = Unseen
  BY DEF Init
<1>2. TypeOK
  BY IdleIsProper, SqliteAccessAssumption DEF Init, TypeOK, Seen
<1>3. SessionsProper
  BY <1>1, IdleIsProper DEF SessionsProper
<1> QED
  BY <1>1, <1>2, <1>3
  DEF AccessInv, WriterAlone, NoReaderAtCommit, RowidLeft, Others, NoSession, Writing

\* A step that changes one session and no table.
LEMMA LocalStep ==
    ASSUME AccessInv,
           NEW c \in Clients, NEW s \in Session, NEW w \in Seen,
           sess' = [sess EXCEPT ![c] = s],
           seen' = [seen EXCEPT ![c] = w],
           UNCHANGED <<rows, last>>,
           answer' \in Answers \cup {NoAnswer},
           Proper(s, w), Brackets(s, w, rows),
           s.pc \in Writing => \A d \in Clients \ {c} : sess[d].pc \notin Writing,
           s.pc = "exclusive" => \A d \in Others(c) : ~sess[d].open,
           s.open => \A d \in Others(c) : sess[d].pc # "exclusive",
           s.pc = "exclusive" /\ s.op = "add" => last < MaxRowid
    PROVE  AccessInv'
<1>1. /\ sess' \in [Clients -> Session] /\ seen' \in [Clients -> Seen]
      /\ sess'[c] = s /\ seen'[c] = w
      /\ \A d \in Clients \ {c} : sess'[d] = sess[d] /\ seen'[d] = seen[d]
  BY DEF AccessInv, TypeOK, Seen
<1>2. TypeOK'
  BY <1>1 DEF AccessInv, TypeOK, Seen
<1>3. SessionsProper'
  BY <1>1 DEF AccessInv, SessionsProper
<1>4. WriterAlone'
  BY <1>1 DEF AccessInv, WriterAlone
<1>5. NoReaderAtCommit'
  <2> SUFFICES ASSUME NEW d \in Clients, sess'[d].pc = "exclusive", NEW e \in Others(d)
               PROVE  ~sess'[e].open
    BY DEF NoReaderAtCommit, Others
  <2>1. e \in Clients /\ d \in Others(e) /\ e # d
    BY DEF Others
  <2> QED
    BY <1>1, <2>1 DEF AccessInv, NoReaderAtCommit
<1>6. RowidLeft'
  BY <1>1 DEF AccessInv, RowidLeft
<1> QED
  BY <1>2, <1>3, <1>4, <1>5, <1>6 DEF AccessInv

-----------------------------------------------------------------------------
(* One lemma per action *)

LEMMA BeginKeeps ==
    ASSUME AccessInv, NEW c \in Clients, Begin(c)
    PROVE  AccessInv'
<1>1. PICK op \in Writes \cup Reads, id \in 0..MaxRowid :
        /\ sess' = [sess EXCEPT ![c] = [NoSession EXCEPT !.pc = "called", !.op = op, !.id = id]]
        /\ seen' = [seen EXCEPT ![c] = IF op \in Reads THEN [must |-> rows, may |-> rows] ELSE Unseen]
  <2>1. Rowids \subseteq 0..MaxRowid /\ 0 \in 0..MaxRowid
    BY SqliteAccessAssumption DEF Rowids
  <2>2. "list" \in Reads
    BY DEF Reads
  <2> QED
    BY <2>1, <2>2, Zenon DEF Begin
<1> PICK s : s = [NoSession EXCEPT !.pc = "called", !.op = op, !.id = id]
  OBVIOUS
<1> DEFINE w == IF op \in Reads THEN [must |-> rows, may |-> rows] ELSE Unseen
<1>2. /\ s \in Session /\ s.pc = "called" /\ s.op = op /\ s.rc = "none" /\ s.got = {}
      /\ s.cursor = 0 /\ s.open = FALSE
  <2>1. s \in Session
    BY IdleIsProper DEF Session, Pc, Writes, Reads
  <2> QED
    BY <2>1 DEF NoSession
<1>3. w \in Seen
  BY DEF AccessInv, TypeOK, Seen, Unseen
<1>4. Brackets(s, w, rows)
  BY <1>2 DEF Brackets
<1>5. Proper(s, w)
  BY <1>2 DEF Proper, Writing, Writes, Reads
<1>6. UNCHANGED <<rows, last>> /\ answer' \in Answers \cup {NoAnswer}
  BY DEF Begin, NoReply
<1> HIDE DEF w
<1> QED
  BY <1>1, <1>2, <1>3, <1>4, <1>5, <1>6, LocalStep DEF w, Writing

\* A statement that returns releases its locks and goes to the end of its handler.
LEMMA ReturnsLocally ==
    ASSUME AccessInv, NEW c \in Clients, NEW rc \in {"malformed", "busy", "full", "done"},
           sess[c].pc # "idle",
           sess' = [sess EXCEPT ![c].pc = "stepped", ![c].rc = rc, ![c].open = FALSE],
           UNCHANGED <<rows, last, seen>>, NoReply,
           sess[c].op \in Writes \cup {"info"} => sess[c].got = {},
           sess[c].op = "list" =>
             IF rc = "done"
             THEN seen[c].must \subseteq sess[c].got /\ sess[c].got \subseteq seen[c].may
             ELSE sess[c].got = {}
    PROVE  AccessInv'
<1> DEFINE s == [sess[c] EXCEPT !.pc = "stepped", !.rc = rc, !.open = FALSE]
<1>1. sess[c] \in Session /\ seen[c] \in Seen
  BY DEF AccessInv, TypeOK, Seen
<1>2. /\ s \in Session /\ s.pc = "stepped" /\ s.op = sess[c].op /\ s.rc = rc
      /\ s.got = sess[c].got /\ s.open = FALSE /\ s.id = sess[c].id
  BY <1>1 DEF Session, Pc
<1>3. Proper(sess[c], seen[c]) /\ Brackets(sess[c], seen[c], rows)
  BY DEF AccessInv, SessionsProper
<1>4. Proper(s, seen[c])
  BY <1>2, <1>3 DEF Proper, Writing
<1>5. Brackets(s, seen[c], rows)
  BY <1>2, <1>3 DEF Brackets
<1>6. sess' = [sess EXCEPT ![c] = s]
  BY <1>1 DEF AccessInv, TypeOK
<1>7. seen' = [seen EXCEPT ![c] = seen[c]] /\ answer' \in Answers \cup {NoAnswer}
  BY DEF AccessInv, TypeOK, NoReply
<1> HIDE DEF s
<1> QED
  BY <1>1, <1>2, <1>4, <1>5, <1>6, <1>7, LocalStep DEF Writing

LEMMA MalformedKeeps ==
    ASSUME AccessInv, NEW c \in Clients, Malformed(c)
    PROVE  AccessInv'
<1>1. sess[c] \in Session /\ Proper(sess[c], seen[c])
  BY DEF AccessInv, TypeOK, SessionsProper
<1>2. sess[c].open = FALSE /\ sess[c].got = {}
  BY <1>1 DEF Malformed, Proper, Session
<1>3. sess' = [sess EXCEPT ![c].pc = "stepped", ![c].rc = "malformed", ![c].open = FALSE]
  BY <1>1, <1>2 DEF Malformed, AccessInv, TypeOK, Session
<1> QED
  BY <1>2, <1>3, ReturnsLocally DEF Malformed

\* Nobody starts or goes on to read while another connection commits.
LEMMA ReaderMeetsNoCommit ==
    ASSUME AccessInv, NEW c \in Clients,
           sess[c].open \/ ~FileLocked(c)
    PROVE  \A d \in Others(c) : sess[d].pc # "exclusive"
<1> SUFFICES ASSUME NEW d \in Others(c), sess[d].pc = "exclusive" PROVE FALSE
  OBVIOUS
<1>1. d \in Clients /\ \A e \in Clients : Connection(e) = Connection(c) => e \in Others(d)
  BY DEF Others
<1>2. \A e \in Clients : Connection(e) = Connection(c) => ~sess[e].open
  BY <1>1 DEF AccessInv, NoReaderAtCommit
<1> QED
  BY <1>2 DEF FileLocked

LEMMA FetchRowKeeps ==
    ASSUME AccessInv, NEW c \in Clients, FetchRow(c),
           \/ sess[c].pc = "called" /\ sess[c].op \in Reads /\ ~FileLocked(c)
           \/ sess[c].pc = "reading"
    PROVE  AccessInv'
<1>1. /\ sess[c] \in Session /\ seen[c] \in Seen
      /\ Proper(sess[c], seen[c]) /\ Brackets(sess[c], seen[c], rows)
  BY DEF AccessInv, TypeOK, SessionsProper, Seen
<1>2. /\ sess[c].op \in Reads /\ sess[c].got \subseteq seen[c].may
      /\ \A i \in seen[c].must : i <= sess[c].cursor => i \in sess[c].got
      /\ seen[c].must \subseteq rows /\ rows \subseteq seen[c].may
      /\ sess[c].op = "info" => sess[c].got = {}
  <2>1. sess[c].op \in Reads
    BY <1>1 DEF Proper, Reads
  <2>2. \A i \in seen[c].must : i \in 1..MaxRowid
    BY <1>1 DEF Seen, Rowids
  <2>3. \A i \in seen[c].must : i <= sess[c].cursor => i \in sess[c].got
    BY <1>1, <2>2, SqliteAccessAssumption DEF Proper
  <2>4. sess[c].got \subseteq seen[c].may /\ (sess[c].op = "info" => sess[c].got = {})
    BY <1>1 DEF Proper
  <2> QED
    BY <1>1, <2>1, <2>3, <2>4 DEF Brackets
<1>3. \A d \in Others(c) : sess[d].pc # "exclusive"
  BY <1>1, ReaderMeetsNoCommit DEF Proper
<1>4. CASE Ahead(c) = {}
  <2>1. Returns(c, "done")
    BY <1>4 DEF FetchRow
  <2>2. ASSUME sess[c].op = "list" PROVE seen[c].must \subseteq sess[c].got
    <3> SUFFICES ASSUME NEW i \in seen[c].must PROVE i \in sess[c].got
      OBVIOUS
    <3>1. i \in rows /\ i \in Nat /\ sess[c].cursor \in Nat
      BY <1>1, <1>2, SqliteAccessAssumption DEF Session, Seen, Rowids
    <3>2. ~(i > sess[c].cursor)
      BY <3>1, <1>4, <2>2 DEF Ahead
    <3> QED
      BY <3>1, <3>2, <1>2
  <2>3. sess[c].pc # "idle" /\ sess[c].op \notin Writes
    BY <1>2 DEF Reads, Writes
  <2> QED
    BY <2>1, <2>2, <2>3, <1>2, ReturnsLocally DEF Returns, FetchRow
<1>5. CASE Ahead(c) # {}
  <2>1. PICK i \in Ahead(c) :
          /\ \A j \in Ahead(c) : i <= j
          /\ sess' = [sess EXCEPT
               ![c].cursor = i, ![c].got = @ \cup {i}, ![c].open = TRUE,
               ![c].pc = IF sess[c].op = "info" THEN "stepped" ELSE "reading",
               ![c].rc = IF sess[c].op = "info" THEN "row" ELSE @]
    BY <1>5 DEF FetchRow
  <2> DEFINE pc == IF sess[c].op = "info" THEN "stepped" ELSE "reading"
             rc == IF sess[c].op = "info" THEN "row" ELSE sess[c].rc
  <2> PICK s : s = [sess[c] EXCEPT !.cursor = i, !.got = sess[c].got \cup {i}, !.open = TRUE,
                                   !.pc = pc, !.rc = rc]
    OBVIOUS
  <2>2. i \in Rowids /\ i \in rows
    BY DEF Ahead, AccessInv, TypeOK
  <2>3. /\ s \in Session /\ s.op = sess[c].op /\ s.id = sess[c].id /\ s.cursor = i
        /\ s.got = sess[c].got \cup {i} /\ s.open = TRUE
        /\ s.pc = pc /\ s.rc = rc
    <3>1. pc \in Pc /\ rc \in {"none", "malformed", "busy", "full", "row", "done"}
      BY <1>1 DEF Pc, Session
    <3>2. i \in 0..MaxRowid /\ sess[c].got \cup {i} \in SUBSET Rowids
      BY <1>1, <2>2, SqliteAccessAssumption DEF Session, Rowids
    <3> HIDE DEF pc, rc
    <3> QED
      BY <1>1, <3>1, <3>2 DEF Session
  <2>4. sess' = [sess EXCEPT ![c] = s]
    BY <1>1, <2>1 DEF AccessInv, TypeOK
  <2>5. \A j \in seen[c].must : sess[c].op = "list" /\ j <= i => j \in s.got
    <3> SUFFICES ASSUME NEW j \in seen[c].must, sess[c].op = "list", j <= i
                 PROVE  j \in s.got
      OBVIOUS
    <3>1. j \in rows /\ j \in Nat /\ i \in Nat /\ sess[c].cursor \in Nat
      BY <1>1, <1>2, <2>2, SqliteAccessAssumption DEF Session, Seen, Rowids
    <3>2. CASE j <= sess[c].cursor
      BY <3>2, <1>2, <2>3
    <3>3. CASE j > sess[c].cursor
      <4>1. j \in Ahead(c)
        BY <3>1, <3>3 DEF Ahead
      <4>2. j = i
        BY <4>1, <2>1, <3>1
      <4> QED
        BY <4>2, <2>3
    <3> QED
      BY <3>1, <3>2, <3>3
  <2>6. sess[c].op = "info" => i = sess[c].id
    BY DEF Ahead
  <2>7. sess[c].op = "list" => sess[c].rc = "none"
    BY <1>1 DEF Proper
  <2>8. Proper(s, seen[c])
    <3>1. CASE sess[c].op = "info"
      BY <3>1, <1>2, <2>2, <2>3, <2>6 DEF Proper, Writing, Writes
    <3>2. CASE sess[c].op = "list"
      BY <3>2, <1>2, <2>2, <2>3, <2>5, <2>7 DEF Proper, Writing, Writes
    <3> QED
      BY <1>2, <3>1, <3>2 DEF Reads
  <2>9. Brackets(s, seen[c], rows)
    BY <1>2 DEF Brackets
  <2>10. /\ seen' = [seen EXCEPT ![c] = seen[c]] /\ answer' \in Answers \cup {NoAnswer}
         /\ UNCHANGED <<rows, last>>
    BY DEF AccessInv, TypeOK, NoReply, FetchRow
  <2>11. s.pc \notin Writing /\ s.pc # "exclusive"
    BY <2>3 DEF Writing
  <2> QED
    BY <1>1, <1>3, <2>3, <2>4, <2>8, <2>9, <2>10, <2>11, LocalStep
<1> QED
  BY <1>4, <1>5

LEMMA StepReadBusyKeeps ==
    ASSUME AccessInv, NEW c \in Clients, StepReadBusy(c)
    PROVE  AccessInv'
<1>1. Proper(sess[c], seen[c])
  BY DEF AccessInv, SessionsProper
<1>2. sess[c].got = {} /\ sess[c].pc # "idle"
  BY <1>1 DEF StepReadBusy, Proper
<1> QED
  BY <1>2, ReturnsLocally DEF StepReadBusy, Returns

\* A write statement that goes on to its next moment.
LEMMA WriteMovesLocally ==
    ASSUME AccessInv, NEW c \in Clients, NEW pc \in Writing,
           sess[c].op \in Writes, sess[c].pc \in Writing \cup {"called"},
           sess' = [sess EXCEPT ![c].pc = pc],
           UNCHANGED <<rows, last, seen>>, NoReply,
           \A d \in Clients \ {c} : sess[d].pc \notin Writing,
           pc = "exclusive" => (\A d \in Others(c) : ~sess[d].open) /\ (sess[c].op = "add" => last < MaxRowid)
    PROVE  AccessInv'
<1> DEFINE s == [sess[c] EXCEPT !.pc = pc]
<1>1. sess[c] \in Session /\ seen[c] \in Seen
  BY DEF AccessInv, TypeOK, Seen
<1>2. /\ s \in Session /\ s.pc = pc /\ s.op = sess[c].op /\ s.rc = sess[c].rc
      /\ s.got = sess[c].got /\ s.open = sess[c].open
  BY <1>1 DEF Session, Pc, Writing
<1>3. Proper(sess[c], seen[c]) /\ Brackets(sess[c], seen[c], rows)
  BY DEF AccessInv, SessionsProper
<1>4. sess[c].rc = "none" /\ sess[c].got = {} /\ ~sess[c].open
  BY <1>3 DEF Proper, Writing
<1>5. /\ sess' = [sess EXCEPT ![c] = s]
      /\ seen' = [seen EXCEPT ![c] = seen[c]] /\ answer' \in Answers \cup {NoAnswer}
  BY DEF AccessInv, TypeOK, NoReply
<1> HIDE DEF s
<1>6. Brackets(s, seen[c], rows)
  BY <1>2, <1>3 DEF Brackets
<1>7. Proper(s, seen[c])
  <2>1. s.pc \notin {"idle", "called", "reading", "stepped"}
    BY <1>2 DEF Writing
  <2>2. s.op \in Writes /\ s.op # "none" /\ s.rc = "none" /\ s.got = {} /\ ~s.open
    BY <1>2, <1>4 DEF Writes
  <2> QED
    BY <2>1, <2>2 DEF Proper
<1> QED
  BY <1>1, <1>2, <1>4, <1>5, <1>6, <1>7, LocalStep

LEMMA WriteGot ==
    ASSUME AccessInv, NEW c \in Clients, sess[c].op \in Writes
    PROVE  sess[c].got = {}
<1>1. sess[c] \in Session /\ Proper(sess[c], seen[c])
  BY DEF AccessInv, TypeOK, SessionsProper
<1> QED
  BY <1>1 DEF Proper, Session, Pc, Writing, Writes, NoSession

LEMMA StepWriteKeeps ==
    ASSUME AccessInv, NEW c \in Clients, StepWrite(c)
    PROVE  AccessInv'
<1>1. sess[c].got = {} /\ sess[c].op \in Writes /\ sess[c].pc = "called"
  BY WriteGot DEF StepWrite
<1>2. CASE FileReserved(c)
  BY <1>1, <1>2, ReturnsLocally DEF StepWrite, Returns, Writes
<1>3. CASE ~FileReserved(c)
  <2>1. \A d \in Clients \ {c} : sess[d].pc \notin Writing
    BY <1>3 DEF StepWrite, MutexHeld, FileReserved, Others
  <2>2. sess' = [sess EXCEPT ![c].pc = "reserved"] /\ UNCHANGED <<rows, last, seen>> /\ NoReply
    BY <1>3 DEF StepWrite
  <2> QED
    BY <1>1, <2>1, <2>2, WriteMovesLocally DEF Writing
<1> QED
  BY <1>2, <1>3

LEMMA StepWriteLockKeeps ==
    ASSUME AccessInv, NEW c \in Clients, StepWriteLock(c)
    PROVE  AccessInv'
<1>1. Proper(sess[c], seen[c]) /\ sess[c].pc = "reserved"
  BY DEF AccessInv, SessionsProper, StepWriteLock
<1>2. sess[c].got = {} /\ sess[c].op \in Writes
  BY <1>1 DEF Proper, Writing
<1>3. UNCHANGED <<rows, last, seen>> /\ NoReply
  BY DEF StepWriteLock
<1>4. CASE NothingToDelete(c) \/ Full(c)
  <2>1. PICK rc \in {"done", "full"} : Returns(c, rc)
    BY <1>4 DEF StepWriteLock
  <2> QED
    BY <1>1, <1>2, <1>3, <2>1, ReturnsLocally DEF Returns, Writes
<1>5. CASE ~(NothingToDelete(c) \/ Full(c))
  <2>1. sess' = [sess EXCEPT ![c].pc = IF FileRead(c) THEN "rollback" ELSE "exclusive"]
    BY <1>5 DEF StepWriteLock
  <2>2. \A d \in Clients \ {c} : sess[d].pc \notin Writing
    BY <1>1 DEF AccessInv, WriterAlone, Writing
  <2>3. sess[c].op = "add" => last < MaxRowid
    BY <1>5, SqliteAccessAssumption DEF Full, AccessInv, TypeOK
  <2>4. CASE FileRead(c)
    BY <1>1, <1>2, <1>3, <2>1, <2>2, <2>4, WriteMovesLocally DEF Writing
  <2>5. CASE ~FileRead(c)
    <3>1. \A d \in Others(c) : ~sess[d].open
      BY <2>5 DEF FileRead
    <3> QED
      BY <1>1, <1>2, <1>3, <2>1, <2>2, <2>3, <2>5, <3>1, WriteMovesLocally DEF Writing
  <2> QED
    BY <2>4, <2>5
<1> QED
  BY <1>4, <1>5

LEMMA StepWriteRollbackKeeps ==
    ASSUME AccessInv, NEW c \in Clients, StepWriteRollback(c)
    PROVE  AccessInv'
<1>1. Proper(sess[c], seen[c]) /\ sess[c].pc = "rollback"
  BY DEF AccessInv, SessionsProper, StepWriteRollback
<1>2. sess[c].got = {} /\ sess[c].op \in Writes
  BY <1>1 DEF Proper, Writing
<1> QED
  BY <1>1, <1>2, ReturnsLocally DEF StepWriteRollback, Returns, Writes

\* At the end of a handler the code is one of the three.
LEMMA AnswerCodeType ==
    ASSUME AccessInv, NEW c \in Clients, sess[c].pc = "stepped"
    PROVE  AnswerCode(c) \in {"ok", "error", "notFound"}
<1>1. sess[c] \in Session /\ Proper(sess[c], seen[c])
  BY DEF AccessInv, TypeOK, SessionsProper
<1>2. sess[c].op \in Writes \cup {"list", "info"}
  BY <1>1 DEF Session, Proper, Reads
<1> QED
  BY <1>2 DEF AnswerCode, Writes

LEMMA FinalizeKeeps ==
    ASSUME AccessInv, NEW c \in Clients, FinalizeAndRespond(c)
    PROVE  AccessInv'
<1>1. sess[c].got \in SUBSET Rowids
  BY DEF AccessInv, TypeOK, Session
<1>2. answer' \in Answers
  BY <1>1, AnswerCodeType DEF FinalizeAndRespond, Answers
<1>3. NoSession.pc = "idle" /\ NoSession.open = FALSE
  BY DEF NoSession
<1> QED
  BY <1>2, <1>3, IdleIsProper, LocalStep DEF FinalizeAndRespond, Writing

\* What a commit does to the sessions and to what they have seen.
LEMMA CommitEffect ==
    ASSUME AccessInv, NEW c \in Clients, StepWriteCommit(c)
    PROVE  /\ sess[c].pc = "exclusive" /\ sess[c].op \in Writes /\ sess[c].got = {}
           /\ sess'[c] = [sess[c] EXCEPT !.pc = "stepped", !.rc = "done", !.open = FALSE]
           /\ \A d \in Clients \ {c} : sess'[d] = sess[d] /\ sess[d].pc \notin Writing
           /\ \A d \in Clients :
                 /\ seen'[d].must \subseteq seen[d].must /\ seen[d].may \subseteq seen'[d].may
                 /\ sess[d].op \in Reads => /\ seen'[d].must = seen[d].must \cap rows'
                                            /\ seen'[d].may = seen[d].may \cup rows'
                 /\ sess[d].op \notin Reads => seen'[d] = seen[d]
           /\ rows' \subseteq Rowids /\ last' \in 0..MaxRowid
           /\ sess' \in [Clients -> Session] /\ seen' \in [Clients -> Seen]
<1>1. /\ sess \in [Clients -> Session] /\ seen \in [Clients -> Seen]
      /\ rows \subseteq Rowids /\ last \in 0..MaxRowid
  BY DEF AccessInv, TypeOK, Seen
<1>2. \A d \in Clients : Proper(sess[d], seen[d])
  BY DEF AccessInv, SessionsProper
<1>3. sess[c].pc = "exclusive"
  BY DEF StepWriteCommit
<1>4. sess[c].op \in Writes /\ sess[c].got = {}
  BY <1>2, <1>3 DEF Proper, Writing
<1>5. sess' = [sess EXCEPT ![c].pc = "stepped", ![c].rc = "done", ![c].open = FALSE]
  BY DEF StepWriteCommit, Returns
<1>6. sess'[c] = [sess[c] EXCEPT !.pc = "stepped", !.rc = "done", !.open = FALSE]
  BY <1>1, <1>5
<1>7. sess'[c] \in Session
  BY <1>1, <1>6 DEF Session, Pc
<1>8. \A d \in Clients \ {c} : sess'[d] = sess[d] /\ sess[d].pc \notin Writing
  BY <1>1, <1>3, <1>5 DEF AccessInv, WriterAlone, Writing
<1>9. rows' \subseteq Rowids /\ last' \in 0..MaxRowid
  <2>1. CASE sess[c].op = "add"
    <3>1. last < MaxRowid
      BY <1>3, <2>1 DEF AccessInv, RowidLeft
    <3>2. rows' = rows \cup {last + 1} /\ last' = last + 1
      BY <2>1 DEF StepWriteCommit, NewRows
    <3> QED
      BY <1>1, <3>1, <3>2, SqliteAccessAssumption DEF Rowids
  <2>2. CASE sess[c].op # "add"
    BY <1>1, <2>2 DEF StepWriteCommit, NewRows
  <2> QED
    BY <2>1, <2>2
<1>10. NewRows(c) = rows'
  BY DEF StepWriteCommit
<1>11. ASSUME NEW d \in Clients, sess[d].op \in Reads
       PROVE  seen'[d] = [must |-> seen[d].must \cap rows', may |-> seen[d].may \cup rows']
  <2>1. sess[d].pc # "idle"
    BY <1>2, <1>11 DEF Proper, NoSession, Reads
  <2> QED
    BY <1>10, <1>11, <2>1 DEF StepWriteCommit
<1>12. ASSUME NEW d \in Clients, sess[d].op \notin Reads PROVE seen'[d] = seen[d]
  BY <1>12 DEF StepWriteCommit
<1>13. \A d \in Clients : seen'[d] \in Seen
  <2> SUFFICES ASSUME NEW d \in Clients PROVE seen'[d] \in Seen
    OBVIOUS
  <2>1. seen[d] \in Seen
    BY <1>1
  <2>2. CASE sess[d].op \in Reads
    <3>1. seen'[d] = [must |-> seen[d].must \cap rows', may |-> seen[d].may \cup rows']
      BY <1>11, <2>2
    <3>2. seen[d].must \cap rows' \in SUBSET Rowids /\ seen[d].may \cup rows' \in SUBSET Rowids
      BY <1>9, <2>1 DEF Seen
    <3> QED
      BY <3>1, <3>2 DEF Seen
  <2>3. CASE sess[d].op \notin Reads
    BY <1>12, <2>1, <2>3
  <2> QED
    BY <2>2, <2>3
<1>14. sess' \in [Clients -> Session]
  BY <1>1, <1>5, <1>7, <1>8
<1>15. seen' \in [Clients -> Seen]
  BY <1>13 DEF StepWriteCommit
<1>16. \A d \in Clients :
         seen'[d].must \subseteq seen[d].must /\ seen[d].may \subseteq seen'[d].may
  <2> SUFFICES ASSUME NEW d \in Clients
               PROVE  seen'[d].must \subseteq seen[d].must /\ seen[d].may \subseteq seen'[d].may
    OBVIOUS
  <2>1. CASE sess[d].op \in Reads
    <3>1. seen'[d] = [must |-> seen[d].must \cap rows', may |-> seen[d].may \cup rows']
      BY <1>11, <2>1
    <3> QED
      BY <3>1
  <2>2. CASE sess[d].op \notin Reads
    BY <1>12, <2>2
  <2> QED
    BY <2>1, <2>2
<1> QED
  BY <1>3, <1>4, <1>6, <1>8, <1>9, <1>11, <1>12, <1>14, <1>15, <1>16

LEMMA StepWriteCommitKeeps ==
    ASSUME AccessInv, NEW c \in Clients, StepWriteCommit(c)
    PROVE  AccessInv'
<1>1. \A d \in Clients : /\ sess[d] \in Session
                         /\ Proper(sess[d], seen[d]) /\ Brackets(sess[d], seen[d], rows)
  BY DEF AccessInv, TypeOK, SessionsProper
<1>2. answer' = NoAnswer
  BY DEF StepWriteCommit, NoReply
<1>3. TypeOK'
  BY <1>2, CommitEffect DEF TypeOK, Seen
<1>4. /\ sess'[c].pc = "stepped" /\ sess'[c].rc = "done" /\ sess'[c].open = FALSE
      /\ sess'[c].op = sess[c].op /\ sess'[c].got = {}
  <2>1. /\ sess'[c] = [sess[c] EXCEPT !.pc = "stepped", !.rc = "done", !.open = FALSE]
        /\ sess[c].got = {}
    BY CommitEffect
  <2>2. sess[c] \in Session
    BY <1>1
  <2> QED
    BY <2>1, <2>2 DEF Session
<1>5. SessionsProper'
  <2> SUFFICES ASSUME NEW d \in Clients
               PROVE  Proper(sess'[d], seen'[d]) /\ Brackets(sess'[d], seen'[d], rows')
    BY DEF SessionsProper
  <2>1. CASE d = c
    BY <2>1, <1>4, CommitEffect DEF Proper, Brackets, Writes, Reads, Writing
  <2>2. CASE d # c
    <3>1. sess'[d] = sess[d] /\ sess[d].pc \notin Writing
      BY <2>2, CommitEffect
    <3>2. Brackets(sess'[d], seen'[d], rows')
      BY <1>1, <3>1, CommitEffect DEF Brackets
    <3>3. sess[d].pc = "idle" => seen'[d] = seen[d]
      <4>1. sess[d].pc = "idle" => sess[d].op \notin Reads
        BY <1>1 DEF Proper, NoSession, Reads
      <4>2. sess[d].op \notin Reads => seen'[d] = seen[d]
        BY CommitEffect
      <4> QED
        BY <4>1, <4>2
    <3>4. seen'[d].must \subseteq seen[d].must /\ seen[d].may \subseteq seen'[d].may
      BY CommitEffect
    <3>5. Proper(sess'[d], seen'[d])
      BY <1>1, <3>1, <3>3, <3>4 DEF Proper
    <3> QED
      BY <3>2, <3>5
  <2> QED
    BY <2>1, <2>2
<1>6. \A d \in Clients : sess'[d].pc \notin Writing
  BY <1>4, CommitEffect DEF Writing
<1> QED
  BY <1>3, <1>5, <1>6 DEF AccessInv, WriterAlone, NoReaderAtCommit, RowidLeft, Writing

LEMMA CrashKeeps ==
    ASSUME AccessInv, NEW conn, Crash(conn)
    PROVE  AccessInv'
<1>1. \A c \in Clients : \/ sess'[c] = sess[c] /\ seen'[c] = seen[c]
                         \/ sess'[c] = NoSession /\ seen'[c] = Unseen
  BY DEF Crash
<1>2. UNCHANGED <<rows, last>> /\ answer' = NoAnswer
  BY DEF Crash, NoReply
<1>3. NoSession.pc = "idle" /\ NoSession.open = FALSE
  BY DEF NoSession
<1>4. sess' \in [Clients -> Session] /\ seen' \in [Clients -> Seen]
  <2>1. \A c \in Clients : sess'[c] \in Session /\ seen'[c] \in Seen
    BY <1>1, IdleIsProper DEF AccessInv, TypeOK, Seen
  <2>2. sess' = [c \in Clients |-> sess'[c]] /\ seen' = [c \in Clients |-> seen'[c]]
    BY DEF Crash
  <2> QED
    BY <2>1, <2>2
<1>5. TypeOK'
  BY <1>2, <1>4 DEF AccessInv, TypeOK, Seen
<1>6. SessionsProper'
  BY <1>1, <1>2, IdleIsProper DEF AccessInv, SessionsProper
<1>7. WriterAlone'
  BY <1>1, <1>3 DEF AccessInv, WriterAlone, Writing
<1>8. NoReaderAtCommit'
  <2> SUFFICES ASSUME NEW c \in Clients, sess'[c].pc = "exclusive", NEW d \in Others(c)
               PROVE  ~sess'[d].open
    BY DEF NoReaderAtCommit, Others
  <2>1. d \in Clients
    BY DEF Others
  <2> QED
    BY <1>1, <1>3, <2>1 DEF AccessInv, NoReaderAtCommit
<1>9. RowidLeft'
  BY <1>1, <1>2, <1>3 DEF AccessInv, RowidLeft
<1> QED
  BY <1>5, <1>6, <1>7, <1>8, <1>9 DEF AccessInv

LEMMA AccessStep == AccessInv /\ [Next]_accessVars => AccessInv'
<1> SUFFICES ASSUME AccessInv, [Next]_accessVars PROVE AccessInv'
  OBVIOUS
<1>1. ASSUME NEW c \in Clients, Begin(c) PROVE AccessInv'
  BY <1>1, BeginKeeps
<1>2. ASSUME NEW c \in Clients, Malformed(c) PROVE AccessInv'
  BY <1>2, MalformedKeeps
<1>3. ASSUME NEW c \in Clients, StepReadFirst(c) \/ StepReadNext(c) PROVE AccessInv'
  BY <1>3, FetchRowKeeps DEF StepReadFirst, StepReadNext
<1>4. ASSUME NEW c \in Clients, StepReadBusy(c) PROVE AccessInv'
  BY <1>4, StepReadBusyKeeps
<1>5. ASSUME NEW c \in Clients, StepWrite(c) PROVE AccessInv'
  BY <1>5, StepWriteKeeps
<1>6. ASSUME NEW c \in Clients, StepWriteLock(c) PROVE AccessInv'
  BY <1>6, StepWriteLockKeeps
<1>7. ASSUME NEW c \in Clients, StepWriteRollback(c) PROVE AccessInv'
  BY <1>7, StepWriteRollbackKeeps
<1>8. ASSUME NEW c \in Clients, StepWriteCommit(c) PROVE AccessInv'
  BY <1>8, StepWriteCommitKeeps
<1>9. ASSUME NEW c \in Clients, FinalizeAndRespond(c) PROVE AccessInv'
  BY <1>9, FinalizeKeeps
<1>10. ASSUME NEW c \in Clients, Crash(Connection(c)) PROVE AccessInv'
  BY <1>10, CrashKeeps
<1>11. CASE UNCHANGED accessVars
  BY <1>11 DEF accessVars, AccessInv, TypeOK, SessionsProper, WriterAlone, NoReaderAtCommit,
               RowidLeft, Others
<1> QED
  BY <1>1, <1>2, <1>3, <1>4, <1>5, <1>6, <1>7, <1>8, <1>9, <1>10, <1>11 DEF Next, Step

-----------------------------------------------------------------------------
(* Theorems *)

\* What the handlers, their locks and their histories are like in every state:
\* the invariant the other theorems of this module follow from.
THEOREM AccessIsSound == Spec => []AccessInv
  BY InitAccess, AccessStep, PTL DEF Spec

\* Sessions, histories and answers of the handlers of server.cpp and of the menu
\* keep their types.
THEOREM AccessTypeCorrect == Spec => []TypeOK
<1>1. AccessInv => TypeOK
  BY DEF AccessInv
<1> QED
  BY <1>1, AccessIsSound, PTL

\* Every path through a handler finalizes its statement: a thread that waits
\* for a request, or has not stepped its statement yet, holds no lock.
THEOREM LocksAreReleased == Spec => []NoLockLeft
<1>1. AccessInv => NoLockLeft
  <2> SUFFICES ASSUME AccessInv, NEW c \in Clients, sess[c].pc \in {"idle", "called"}
               PROVE  ~sess[c].open
    BY DEF NoLockLeft
  <2>1. Proper(sess[c], seen[c])
    BY DEF AccessInv, SessionsProper
  <2> QED
    BY <2>1 DEF Proper, NoSession
<1> QED
  BY <1>1, AccessIsSound, PTL

\* While a program is in the middle of a scan only requests of its own process
\* change rows: a writer of another connection never commits under it.
THEOREM ScansAreIsolated == Spec => ScanIsolated
<1> DEFINE Isolated ==
      \A c \in Clients :
         sess[c].open /\ sess'[c].open /\ rows' # rows =>
            \E d \in Clients \ {c} : Connection(d) = Connection(c) /\ sess[d].pc = "exclusive"
<1>1. AccessInv /\ Next => Isolated
  <2> SUFFICES ASSUME AccessInv, Next, NEW c \in Clients,
                      sess[c].open, sess'[c].open, rows' # rows
               PROVE  \E d \in Clients \ {c} :
                         Connection(d) = Connection(c) /\ sess[d].pc = "exclusive"
    OBVIOUS
  <2>1. PICK d \in Clients : StepWriteCommit(d)
    BY DEF Next, Step, Begin, Malformed, StepReadFirst, StepReadNext, StepReadBusy, FetchRow,
           StepWrite, StepWriteLock, StepWriteRollback, FinalizeAndRespond, Crash
  <2>2. sess[d].pc = "exclusive"
    BY <2>1 DEF StepWriteCommit
  <2>3. c \notin Others(d)
    BY <2>2 DEF AccessInv, NoReaderAtCommit
  <2>4. c # d
    <3>1. sess[d] \in Session /\ Proper(sess[d], seen[d])
      BY DEF AccessInv, TypeOK, SessionsProper
    <3>2. ~sess[d].open
      BY <2>2, <3>1 DEF Proper, Writing
    <3> QED
      BY <3>2
  <2> QED
    BY <2>2, <2>3, <2>4 DEF Others
<1>2. AccessInv /\ [Next]_accessVars => [Isolated]_accessVars
  BY <1>1
<1>3. Spec => [][Isolated]_accessVars
  BY <1>2, AccessIsSound, PTL DEF Spec
<1> QED
  BY <1>3 DEF ScanIsolated

-----------------------------------------------------------------------------
(* The handlers implement CustomerRegistry *)

\* The call a session stands for.
CallOf(s, w) ==
    [st   |-> CASE s.pc = "idle" -> "idle"
                [] s.op \in Writes /\ s.rc = "done" -> "applied"
                [] OTHER -> "pending",
     op   |-> s.op,
     id   |-> s.id,
     must |-> w.must,
     may  |-> w.may]

LEMMA CallsAre ==
    /\ Calls = [c \in Clients |-> CallOf(sess[c], seen[c])]
    /\ Calls' = [c \in Clients |-> CallOf(sess'[c], seen'[c])]
  BY DEF Calls, CallOf

LEMMA IdleCall ==
    CallOf(NoSession, Unseen) = Registry!NoCall
  BY DEF CallOf, NoSession, Unseen, Registry!NoCall

LEMMA PendingCall ==
    ASSUME NEW s, NEW w, s.pc # "idle", ~(s.op \in Writes /\ s.rc = "done")
    PROVE  CallOf(s, w) =
             [st |-> "pending", op |-> s.op, id |-> s.id, must |-> w.must, may |-> w.may]
  BY DEF CallOf

LEMMA AppliedCall ==
    ASSUME NEW s, NEW w, s.pc # "idle", s.op \in Writes, s.rc = "done"
    PROVE  CallOf(s, w) =
             [st |-> "applied", op |-> s.op, id |-> s.id, must |-> w.must, may |-> w.may]
  BY DEF CallOf

LEMMA OneCallChanges ==
    ASSUME NEW c \in Clients,
           \A d \in Clients \ {c} : sess'[d] = sess[d] /\ seen'[d] = seen[d]
    PROVE  Calls' = [Calls EXCEPT ![c] = CallOf(sess'[c], seen'[c])]
  BY CallsAre

LEMMA InitImplements == Init => Registry!RegInit
<1> SUFFICES ASSUME Init PROVE Registry!RegInit
  OBVIOUS
<1>1. Calls = [c \in Clients |-> Registry!NoCall]
  BY CallsAre, IdleCall DEF Init
<1> QED
  BY <1>1 DEF Init, Registry!RegInit, NoAnswer, Registry!NoAnswer

\* A step that no caller notices, except that nothing is answered in it.
LEMMA UnnoticedStep ==
    ASSUME UNCHANGED <<rows, last>>, NoReply, Calls' = Calls
    PROVE  Registry!RegNext
<1>1. Calls = [c \in Clients |-> IF c \in {} THEN Registry!NoCall ELSE Calls[c]]
  BY CallsAre
<1>2. Registry!Crash({})
  BY <1>1 DEF Registry!Crash, Registry!NoReply, NoReply, NoAnswer, Registry!NoAnswer
<1> QED
  BY <1>2 DEF Registry!RegNext

LEMMA BeginImplements ==
    ASSUME AccessInv, NEW c \in Clients, Begin(c)
    PROVE  Registry!RegNext
<1>1. PICK op \in Writes \cup Reads, id \in 0..MaxRowid :
        /\ sess' = [sess EXCEPT ![c] = [NoSession EXCEPT !.pc = "called", !.op = op, !.id = id]]
        /\ seen' = [seen EXCEPT ![c] = IF op \in Reads THEN [must |-> rows, may |-> rows] ELSE Unseen]
  <2>1. Rowids \subseteq 0..MaxRowid /\ 0 \in 0..MaxRowid
    BY SqliteAccessAssumption DEF Rowids
  <2>2. "list" \in Reads
    BY DEF Reads
  <2> QED
    BY <2>1, <2>2, Zenon DEF Begin
<1> PICK s : s = [NoSession EXCEPT !.pc = "called", !.op = op, !.id = id]
  OBVIOUS
<1> DEFINE w == IF op \in Reads THEN [must |-> rows, may |-> rows] ELSE Unseen
<1>2. sess'[c] = s /\ seen'[c] = w /\ \A d \in Clients \ {c} : sess'[d] = sess[d] /\ seen'[d] = seen[d]
  BY <1>1 DEF AccessInv, TypeOK
<1>3. s.pc = "called" /\ s.op = op /\ s.id = id /\ s.rc = "none"
  BY DEF NoSession
<1>4. CallOf(s, w) = Registry!NewCall(op, id)
  <2>1. CallOf(s, w) = [st |-> "pending", op |-> op, id |-> id, must |-> w.must, may |-> w.may]
    BY <1>3 DEF CallOf
  <2>2. w.must = (IF op \in Reads THEN rows ELSE {}) /\ w.may = (IF op \in Reads THEN rows ELSE {})
    BY DEF Unseen
  <2> QED
    BY <2>1, <2>2 DEF Registry!NewCall, Reads, Registry!Reads
<1>5. Calls' = [Calls EXCEPT ![c] = Registry!NewCall(op, id)]
  BY <1>2, <1>4, OneCallChanges
<1>6. Calls[c].st = "idle"
  <2>1. Calls[c] = CallOf(sess[c], seen[c])
    BY CallsAre
  <2>2. sess[c] = NoSession /\ seen[c] = Unseen
    BY DEF Begin, AccessInv, SessionsProper, Proper
  <2> QED
    BY <2>1, <2>2, IdleCall DEF Registry!NoCall
<1>7. Registry!Invoke(c, op, id)
  BY <1>5, <1>6 DEF Begin, NoReply, NoAnswer, Registry!Invoke, Registry!NoReply, Registry!NoAnswer
<1> QED
  BY <1>7 DEF Registry!RegNext, Registry!Writes, Registry!Reads, Writes, Reads

\* A pending call stays pending while its handler moves on.
LEMMA PendingStays ==
    ASSUME AccessInv, NEW c \in Clients,
           sess[c].pc # "idle", ~(sess[c].op \in Writes /\ sess[c].rc = "done"),
           sess'[c].pc # "idle", ~(sess[c].op \in Writes /\ sess'[c].rc = "done"),
           sess'[c].op = sess[c].op, sess'[c].id = sess[c].id,
           \A d \in Clients \ {c} : sess'[d] = sess[d],
           UNCHANGED <<rows, last, seen>>, NoReply
    PROVE  Registry!RegNext
<1>1. CallOf(sess'[c], seen'[c]) = CallOf(sess[c], seen[c])
  BY DEF CallOf
<1>2. Calls' = Calls
  BY <1>1, CallsAre
<1> QED
  BY <1>2, UnnoticedStep

LEMMA FetchRowImplements ==
    ASSUME AccessInv, NEW c \in Clients, FetchRow(c), sess[c].op \in Reads, sess[c].pc # "idle"
    PROVE  Registry!RegNext
<1>1. sess \in [Clients -> Session] /\ sess[c] \in Session /\ sess[c].op \notin Writes
  BY DEF AccessInv, TypeOK, Reads, Writes
<1>2. /\ sess'[c].pc # "idle" /\ sess'[c].op = sess[c].op /\ sess'[c].id = sess[c].id
      /\ \A d \in Clients \ {c} : sess'[d] = sess[d]
  <2>1. CASE Ahead(c) = {}
    <3>1. Returns(c, "done")
      BY <2>1 DEF FetchRow
    <3> QED
      BY <1>1, <3>1 DEF Returns, Session
  <2>2. CASE Ahead(c) # {}
    <3>1. PICK i \in Ahead(c) :
            sess' = [sess EXCEPT
               ![c].cursor = i, ![c].got = @ \cup {i}, ![c].open = TRUE,
               ![c].pc = IF sess[c].op = "info" THEN "stepped" ELSE "reading",
               ![c].rc = IF sess[c].op = "info" THEN "row" ELSE @]
      BY <2>2 DEF FetchRow
    <3> PICK pc, rc : /\ pc = IF sess[c].op = "info" THEN "stepped" ELSE "reading"
                      /\ rc = IF sess[c].op = "info" THEN "row" ELSE sess[c].rc
      OBVIOUS
    <3>2. sess'[c] = [sess[c] EXCEPT !.cursor = i, !.got = sess[c].got \cup {i}, !.open = TRUE,
                                     !.pc = pc, !.rc = rc]
      BY <1>1, <3>1
    <3>3. \A d \in Clients \ {c} : sess'[d] = sess[d]
      BY <1>1, <3>1
    <3>4. sess'[c].pc = pc /\ sess'[c].op = sess[c].op /\ sess'[c].id = sess[c].id
      BY <1>1, <3>2 DEF Session
    <3> QED
      BY <3>3, <3>4
  <2> QED
    BY <2>1, <2>2
<1> QED
  BY <1>1, <1>2, PendingStays DEF FetchRow

\* A refused or malformed statement changes no table, and its call stays pending.
LEMMA RefusedImplements ==
    ASSUME AccessInv, NEW c \in Clients, NEW rc \in {"malformed", "busy", "full"},
           sess[c].pc \in {"called", "reserved", "rollback"},
           sess' = [sess EXCEPT ![c].pc = "stepped", ![c].rc = rc, ![c].open = FALSE],
           UNCHANGED <<rows, last, seen>>, NoReply
    PROVE  Registry!RegNext
<1>1. sess \in [Clients -> Session] /\ sess[c] \in Session /\ Proper(sess[c], seen[c])
  BY DEF AccessInv, TypeOK, SessionsProper
<1>2. sess[c].rc = "none"
  BY <1>1 DEF Proper, Writing
<1>3. /\ sess'[c].pc = "stepped" /\ sess'[c].rc = rc
      /\ sess'[c].op = sess[c].op /\ sess'[c].id = sess[c].id
      /\ \A d \in Clients \ {c} : sess'[d] = sess[d]
  BY <1>1 DEF Session
<1> QED
  BY <1>2, <1>3, PendingStays

LEMMA WriteMovesImplements ==
    ASSUME AccessInv, NEW c \in Clients, NEW pc \in Writing,
           sess[c].pc \in {"called", "reserved"},
           sess' = [sess EXCEPT ![c].pc = pc],
           UNCHANGED <<rows, last, seen>>, NoReply
    PROVE  Registry!RegNext
<1>1. sess \in [Clients -> Session] /\ sess[c] \in Session /\ Proper(sess[c], seen[c])
  BY DEF AccessInv, TypeOK, SessionsProper
<1>2. sess[c].rc = "none"
  BY <1>1 DEF Proper, Writing
<1>3. /\ sess'[c].pc = pc /\ sess'[c].rc = sess[c].rc
      /\ sess'[c].op = sess[c].op /\ sess'[c].id = sess[c].id
      /\ \A d \in Clients \ {c} : sess'[d] = sess[d]
  BY <1>1 DEF Session
<1>4. pc # "idle"
  BY DEF Writing
<1> QED
  BY <1>2, <1>3, <1>4, PendingStays

\* A write takes effect: by its commit, or because there is nothing to delete.
LEMMA EffectImplements ==
    ASSUME AccessInv, NEW c \in Clients,
           sess[c].pc \in {"reserved", "exclusive"}, sess[c].op \in Writes,
           sess' = [sess EXCEPT ![c].pc = "stepped", ![c].rc = "done", ![c].open = FALSE],
           \A d \in Clients : sess[d].op \in Reads =>
              seen'[d] = [must |-> seen[d].must \cap rows', may |-> seen[d].may \cup rows'],
           \A d \in Clients : sess[d].op \notin Reads => seen'[d] = seen[d],
           NoReply
    PROVE  /\ Calls[c].st = "pending" /\ Calls[c].op = sess[c].op /\ Calls[c].id = sess[c].id
           /\ Registry!Effect(c, rows')
<1>1. /\ sess \in [Clients -> Session] /\ sess[c] \in Session
      /\ \A d \in Clients : Proper(sess[d], seen[d])
  BY DEF AccessInv, TypeOK, SessionsProper
<1>2. sess[c].rc = "none" /\ sess[c].op \notin Reads
  BY <1>1 DEF Proper, Writing, Reads, Writes
<1>3. /\ sess'[c].pc = "stepped" /\ sess'[c].rc = "done"
      /\ sess'[c].op = sess[c].op /\ sess'[c].id = sess[c].id
      /\ \A d \in Clients \ {c} : sess'[d] = sess[d]
  BY <1>1 DEF Session
<1>4. Calls[c] = [st |-> "pending", op |-> sess[c].op, id |-> sess[c].id,
                  must |-> seen[c].must, may |-> seen[c].may]
  BY <1>2, CallsAre, PendingCall
<1>5. Calls'[c] = [st |-> "applied", op |-> sess[c].op, id |-> sess[c].id,
                   must |-> seen[c].must, may |-> seen[c].may]
  <2>1. Calls'[c] = CallOf(sess'[c], seen'[c])
    BY CallsAre
  <2>2. seen'[c] = seen[c]
    BY <1>2
  <2>3. CallOf(sess'[c], seen'[c])
          = [st |-> "applied", op |-> sess'[c].op, id |-> sess'[c].id,
             must |-> seen'[c].must, may |-> seen'[c].may]
    BY <1>3, AppliedCall
  <2> QED
    BY <1>3, <2>1, <2>2, <2>3
<1>6. Calls'[c] = [Calls[c] EXCEPT !.st = "applied"]
  BY <1>4, <1>5
<1>7. ASSUME NEW d \in Clients \ {c}
      PROVE  Calls'[d] = IF Calls[d].st = "pending" /\ Calls[d].op \in Reads
                         THEN Registry!Sees(Calls[d], rows')
                         ELSE Calls[d]
  <2>1. Calls[d] = CallOf(sess[d], seen[d]) /\ Calls'[d] = CallOf(sess[d], seen'[d])
    BY <1>3, CallsAre
  <2>2. CASE sess[d].op \in Reads
    <3>1. sess[d].pc # "idle" /\ sess[d].op \notin Writes
      BY <1>1, <2>2 DEF Proper, NoSession, Reads, Writes
    <3>2. /\ Calls[d] = [st |-> "pending", op |-> sess[d].op, id |-> sess[d].id,
                         must |-> seen[d].must, may |-> seen[d].may]
          /\ Calls'[d] = [st |-> "pending", op |-> sess[d].op, id |-> sess[d].id,
                          must |-> seen'[d].must, may |-> seen'[d].may]
      BY <2>1, <3>1, PendingCall
    <3>3. seen'[d] = [must |-> seen[d].must \cap rows', may |-> seen[d].may \cup rows']
      BY <2>2
    <3>4. Calls'[d] = [st |-> "pending", op |-> sess[d].op, id |-> sess[d].id,
                       must |-> seen[d].must \cap rows', may |-> seen[d].may \cup rows']
      BY <3>2, <3>3
    <3>5. Calls[d].st = "pending" /\ Calls[d].op \in Reads
      BY <2>2, <3>2
    <3>6. Registry!Sees(Calls[d], rows') = Calls'[d]
      BY <3>2, <3>4 DEF Registry!Sees
    <3> QED
      BY <3>5, <3>6
  <2>3. CASE sess[d].op \notin Reads
    <3>1. seen'[d] = seen[d]
      BY <2>3
    <3>2. Calls[d].op = sess[d].op
      BY <2>1 DEF CallOf
    <3> QED
      BY <2>1, <2>3, <3>1, <3>2
  <2> QED
    BY <2>2, <2>3
<1>8. Calls' = [d \in Clients |->
                  IF d = c THEN [Calls[d] EXCEPT !.st = "applied"]
                  ELSE IF Calls[d].st = "pending" /\ Calls[d].op \in Reads
                  THEN Registry!Sees(Calls[d], rows')
                  ELSE Calls[d]]
  <2>1. Calls' = [d \in Clients |-> Calls'[d]]
    BY CallsAre
  <2> QED
    BY <1>6, <1>7, <2>1
<1>9. Registry!Effect(c, rows')
  BY <1>8 DEF Registry!Effect, Registry!Reads, Reads, Registry!NoReply, NoReply, NoAnswer, Registry!NoAnswer
<1> QED
  BY <1>4, <1>9

LEMMA CommitImplements ==
    ASSUME AccessInv, NEW c \in Clients, StepWriteCommit(c)
    PROVE  Registry!RegNext
<1>1. /\ sess \in [Clients -> Session] /\ seen \in [Clients -> Seen]
      /\ \A d \in Clients : Proper(sess[d], seen[d])
  BY DEF AccessInv, TypeOK, SessionsProper, Seen
<1>2. sess[c].pc = "exclusive" /\ sess[c].op \in Writes
  BY CommitEffect
<1>3. sess' = [sess EXCEPT ![c].pc = "stepped", ![c].rc = "done", ![c].open = FALSE] /\ NoReply
  BY DEF StepWriteCommit, Returns
<1>4. \A d \in Clients : sess[d].op \in Reads =>
         seen'[d] = [must |-> seen[d].must \cap rows', may |-> seen[d].may \cup rows']
  <2> SUFFICES ASSUME NEW d \in Clients, sess[d].op \in Reads
               PROVE  seen'[d] = [must |-> seen[d].must \cap rows', may |-> seen[d].may \cup rows']
    OBVIOUS
  <2>1. sess[d].pc # "idle"
    BY <1>1 DEF Proper, NoSession, Reads
  <2>2. NewRows(c) = rows'
    BY DEF StepWriteCommit
  <2> QED
    BY <2>1, <2>2 DEF StepWriteCommit
<1>5. \A d \in Clients : sess[d].op \notin Reads => seen'[d] = seen[d]
  BY DEF StepWriteCommit
<1>6. /\ Calls[c].st = "pending" /\ Calls[c].op = sess[c].op /\ Calls[c].id = sess[c].id
      /\ Registry!Effect(c, rows')
  BY <1>2, <1>3, <1>4, <1>5, EffectImplements
<1>7. CASE sess[c].op = "add"
  <2>1. last < MaxRowid
    BY <1>2, <1>7 DEF AccessInv, RowidLeft
  <2>2. rows' = rows \cup {last + 1} /\ last' = last + 1
    BY <1>7 DEF StepWriteCommit, NewRows
  <2>3. Registry!ApplyAdd(c)
    BY <1>6, <1>7, <2>1, <2>2 DEF Registry!ApplyAdd
  <2> QED
    BY <2>3 DEF Registry!RegNext
<1>8. CASE sess[c].op = "delete"
  <2>1. rows' = rows \ {sess[c].id} /\ last' = last
    BY <1>8 DEF StepWriteCommit, NewRows
  <2>2. Registry!ApplyDelete(c)
    BY <1>6, <1>8, <2>1 DEF Registry!ApplyDelete
  <2> QED
    BY <2>2 DEF Registry!RegNext
<1> QED
  BY <1>2, <1>7, <1>8 DEF Writes

LEMMA WriteLockImplements ==
    ASSUME AccessInv, NEW c \in Clients, StepWriteLock(c)
    PROVE  Registry!RegNext
<1>1. /\ sess[c].pc = "reserved" /\ UNCHANGED <<rows, last, seen>> /\ NoReply
      /\ seen \in [Clients -> Seen]
      /\ Proper(sess[c], seen[c]) /\ \A d \in Clients : Brackets(sess[d], seen[d], rows)
  BY DEF StepWriteLock, AccessInv, TypeOK, SessionsProper, Seen
<1>2. sess[c].op \in Writes
  BY <1>1 DEF Proper, Writing
<1>3. CASE NothingToDelete(c)
  <2>1. sess[c].op = "delete" /\ sess[c].id \notin rows /\ ~Full(c)
    BY <1>3 DEF NothingToDelete, Full
  <2>2. Returns(c, "done")
    BY <1>3, <2>1 DEF StepWriteLock
  <2>3. \A d \in Clients : sess[d].op \in Reads =>
           seen'[d] = [must |-> seen[d].must \cap rows', may |-> seen[d].may \cup rows']
    <3> SUFFICES ASSUME NEW d \in Clients, sess[d].op \in Reads
                 PROVE  seen[d] = [must |-> seen[d].must \cap rows, may |-> seen[d].may \cup rows]
      BY <1>1
    <3>1. seen[d].must \cap rows = seen[d].must /\ seen[d].may \cup rows = seen[d].may
      BY <1>1 DEF Brackets
    <3>2. seen[d] = [must |-> seen[d].must, may |-> seen[d].may]
      BY <1>1 DEF Seen
    <3> QED
      BY <3>1, <3>2
  <2>4. \A d \in Clients : sess[d].op \notin Reads => seen'[d] = seen[d]
    BY <1>1
  <2>5. /\ Calls[c].st = "pending" /\ Calls[c].op = sess[c].op /\ Calls[c].id = sess[c].id
        /\ Registry!Effect(c, rows')
    BY <1>1, <1>2, <2>2, <2>3, <2>4, EffectImplements DEF Returns
  <2>6. rows' = rows \ {sess[c].id}
    BY <1>1, <2>1
  <2>7. Registry!ApplyDelete(c)
    BY <1>1, <2>1, <2>5, <2>6 DEF Registry!ApplyDelete
  <2> QED
    BY <2>7 DEF Registry!RegNext
<1>4. CASE ~NothingToDelete(c) /\ Full(c)
  <2>1. Returns(c, "full")
    BY <1>4 DEF StepWriteLock
  <2> QED
    BY <1>1, <2>1, RefusedImplements DEF Returns
<1>5. CASE ~NothingToDelete(c) /\ ~Full(c)
  <2>1. sess' = [sess EXCEPT ![c].pc = IF FileRead(c) THEN "rollback" ELSE "exclusive"]
    BY <1>5 DEF StepWriteLock
  <2>2. CASE FileRead(c)
    BY <1>1, <2>1, <2>2, WriteMovesImplements DEF Writing
  <2>3. CASE ~FileRead(c)
    BY <1>1, <2>1, <2>3, WriteMovesImplements DEF Writing
  <2> QED
    BY <2>2, <2>3
<1> QED
  BY <1>3, <1>4, <1>5

LEMMA StepWriteImplements ==
    ASSUME AccessInv, NEW c \in Clients, StepWrite(c)
    PROVE  Registry!RegNext
<1>1. sess[c].pc = "called" /\ UNCHANGED <<rows, last, seen>> /\ NoReply
  BY DEF StepWrite
<1>2. CASE FileReserved(c)
  BY <1>1, <1>2, RefusedImplements DEF StepWrite, Returns
<1>3. CASE ~FileReserved(c)
  BY <1>1, <1>3, WriteMovesImplements DEF StepWrite, Writing
<1> QED
  BY <1>2, <1>3

\* What is answered is true of the call: the code of a write tells whether it took
\* effect, and a list is complete or empty.
LEMMA FinalizeImplements ==
    ASSUME AccessInv, NEW c \in Clients, FinalizeAndRespond(c)
    PROVE  Registry!RegNext
<1> DEFINE s == sess[c]
<1>1. /\ s \in Session /\ seen[c] \in Seen /\ s.pc = "stepped"
      /\ Proper(s, seen[c])
  BY DEF AccessInv, TypeOK, SessionsProper, Seen, FinalizeAndRespond
<1>2. /\ sess'[c] = NoSession /\ seen'[c] = Unseen
      /\ \A d \in Clients \ {c} : sess'[d] = sess[d] /\ seen'[d] = seen[d]
      /\ UNCHANGED <<rows, last>>
      /\ answer' = [to |-> c, code |-> AnswerCode(c), ids |-> s.got]
  BY DEF FinalizeAndRespond, AccessInv, TypeOK
<1>3. Calls' = [Calls EXCEPT ![c] = Registry!NoCall]
  BY <1>2, OneCallChanges, IdleCall
<1>4. ASSUME NEW code, NEW ids, AnswerCode(c) = code, s.got = ids
      PROVE  Registry!Answer(c, code, ids)
  BY <1>2, <1>3, <1>4 DEF Registry!Answer
<1>5. Calls[c] = CallOf(s, seen[c])
  BY CallsAre
<1>6. CASE s.op \in Writes /\ s.rc = "done"
  <2>1. AnswerCode(c) = "ok" /\ s.got = {}
    BY <1>1, <1>6 DEF AnswerCode, Proper, Writes
  <2>2. Calls[c].st = "applied"
    BY <1>1, <1>5, <1>6, AppliedCall
  <2>3. Registry!ReplyWritten(c)
    BY <1>4, <2>1, <2>2 DEF Registry!ReplyWritten
  <2> QED
    BY <2>3 DEF Registry!RegNext
<1>7. CASE ~(s.op \in Writes /\ s.rc = "done")
  <2>1. Calls[c] = [st |-> "pending", op |-> s.op, id |-> s.id,
                    must |-> seen[c].must, may |-> seen[c].may]
    BY <1>1, <1>5, <1>7, PendingCall
  <2>2. ASSUME AnswerCode(c) = "error", s.got = {} PROVE Registry!RegNext
    <3>1. Registry!ReplyRefused(c)
      BY <1>4, <2>1, <2>2 DEF Registry!ReplyRefused
    <3> QED
      BY <3>1 DEF Registry!RegNext
  <2>3. CASE s.op \in Writes
    <3>1. AnswerCode(c) = "error" /\ s.got = {}
      BY <1>1, <1>7, <2>3 DEF AnswerCode, Proper, Writes
    <3> QED
      BY <2>2, <3>1
  <2>4. CASE s.op = "list"
    <3>1. CASE c \in Peers /\ s.rc = "busy"
      <4>1. AnswerCode(c) = "error" /\ s.got = {}
        BY <1>1, <2>4, <3>1 DEF AnswerCode, Proper, Writes
      <4> QED
        BY <2>2, <4>1
    <3>2. CASE ~(c \in Peers /\ s.rc = "busy")
      <4>1. AnswerCode(c) = "ok"
        BY <2>4, <3>2 DEF AnswerCode, Writes
      <4>2. s.got = {} \/ (seen[c].must \subseteq s.got /\ s.got \subseteq seen[c].may)
        BY <1>1, <2>4 DEF Proper
      <4>3. s.got \in SUBSET Rowids
        BY <1>1 DEF Session
      <4>4. Registry!Answer(c, "ok", s.got)
        BY <1>4, <4>1
      <4>5. Registry!ReplyList(c)
        BY <2>1, <2>4, <4>2, <4>3, <4>4 DEF Registry!ReplyList, Registry!Rowids, Rowids
      <4> QED
        BY <4>5 DEF Registry!RegNext
    <3> QED
      BY <3>1, <3>2
  <2>5. CASE s.op = "info"
    <3>1. CASE s.rc = "row"
      <4>1. AnswerCode(c) = "ok" /\ s.got = {s.id} /\ s.id \in seen[c].may
        BY <1>1, <2>5, <3>1 DEF AnswerCode, Proper, Writes
      <4>2. Registry!ReplyInfo(c)
        BY <1>4, <2>1, <2>5, <4>1 DEF Registry!ReplyInfo
      <4> QED
        BY <4>2 DEF Registry!RegNext
    <3>2. CASE s.rc = "malformed"
      <4>1. AnswerCode(c) = "error" /\ s.got = {}
        BY <1>1, <2>5, <3>2 DEF AnswerCode, Proper, Writes
      <4> QED
        BY <2>2, <4>1
    <3>3. CASE s.rc \notin {"row", "malformed"}
      <4>1. AnswerCode(c) = "notFound" /\ s.got = {}
        BY <1>1, <2>5, <3>3 DEF AnswerCode, Proper, Writes
      <4>2. Registry!ReplyInfo(c)
        BY <1>4, <2>1, <2>5, <4>1 DEF Registry!ReplyInfo
      <4> QED
        BY <4>2 DEF Registry!RegNext
    <3> QED
      BY <3>1, <3>2, <3>3
  <2> QED
    BY <1>1, <2>3, <2>4, <2>5 DEF Proper, Session, Reads
<1> QED
  BY <1>6, <1>7

LEMMA CrashImplements ==
    ASSUME AccessInv, NEW conn, Crash(conn)
    PROVE  Registry!RegNext
<1> DEFINE gone == {c \in Clients : Connection(c) = conn}
<1>1. \A c \in Clients : /\ c \in gone => sess'[c] = NoSession /\ seen'[c] = Unseen
                         /\ c \notin gone => sess'[c] = sess[c] /\ seen'[c] = seen[c]
  BY DEF Crash
<1>2. Calls' = [c \in Clients |-> IF c \in gone THEN Registry!NoCall ELSE Calls[c]]
  <2>1. \A c \in Clients : Calls'[c] = IF c \in gone THEN Registry!NoCall ELSE Calls[c]
    BY <1>1, CallsAre, IdleCall
  <2>2. Calls' = [c \in Clients |-> Calls'[c]]
    BY CallsAre
  <2> QED
    BY <2>1, <2>2
<1>3. UNCHANGED <<rows, last>> /\ NoReply
  BY DEF Crash
<1>4. Registry!Crash(gone)
  BY <1>2, <1>3 DEF Registry!Crash, Registry!NoReply, NoReply, NoAnswer, Registry!NoAnswer
<1>5. gone \in SUBSET Clients
  OBVIOUS
<1> QED
  BY <1>4, <1>5 DEF Registry!RegNext

LEMMA StepImplements ==
    AccessInv /\ [Next]_accessVars => [Registry!RegNext]_(Registry!regVars)
<1> SUFFICES ASSUME AccessInv, [Next]_accessVars
             PROVE  Registry!RegNext \/ UNCHANGED Registry!regVars
  OBVIOUS
<1>1. \A c \in Clients : Proper(sess[c], seen[c])
  BY DEF AccessInv, SessionsProper
<1>2. ASSUME NEW c \in Clients, Begin(c) PROVE Registry!RegNext
  BY <1>2, BeginImplements
<1>3. ASSUME NEW c \in Clients, Malformed(c) PROVE Registry!RegNext
  <2>1. sess \in [Clients -> Session] /\ sess[c] \in Session /\ sess[c].open = FALSE
    BY <1>1, <1>3 DEF AccessInv, TypeOK, Malformed, Proper, Session
  <2>2. sess' = [sess EXCEPT ![c].pc = "stepped", ![c].rc = "malformed", ![c].open = FALSE]
    BY <1>3, <2>1 DEF Malformed, Session
  <2> QED
    BY <1>3, <2>2, RefusedImplements DEF Malformed
<1>4. ASSUME NEW c \in Clients, StepReadFirst(c) PROVE Registry!RegNext
  BY <1>4, FetchRowImplements DEF StepReadFirst
<1>5. ASSUME NEW c \in Clients, StepReadNext(c) PROVE Registry!RegNext
  BY <1>1, <1>5, FetchRowImplements DEF StepReadNext, Proper, Reads
<1>6. ASSUME NEW c \in Clients, StepReadBusy(c) PROVE Registry!RegNext
  BY <1>6, RefusedImplements DEF StepReadBusy, Returns
<1>7. ASSUME NEW c \in Clients, StepWrite(c) PROVE Registry!RegNext
  BY <1>7, StepWriteImplements
<1>8. ASSUME NEW c \in Clients, StepWriteLock(c) PROVE Registry!RegNext
  BY <1>8, WriteLockImplements
<1>9. ASSUME NEW c \in Clients, StepWriteRollback(c) PROVE Registry!RegNext
  BY <1>9, RefusedImplements DEF StepWriteRollback, Returns
<1>10. ASSUME NEW c \in Clients, StepWriteCommit(c) PROVE Registry!RegNext
  BY <1>10, CommitImplements
<1>11. ASSUME NEW c \in Clients, FinalizeAndRespond(c) PROVE Registry!RegNext
  BY <1>11, FinalizeImplements
<1>12. ASSUME NEW c \in Clients, Crash(Connection(c)) PROVE Registry!RegNext
  BY <1>12, CrashImplements
<1>13. CASE UNCHANGED accessVars
  BY <1>13, CallsAre DEF accessVars, Registry!regVars
<1> QED
  BY <1>2, <1>3, <1>4, <1>5, <1>6, <1>7, <1>8, <1>9, <1>10, <1>11, <1>12, <1>13 DEF Next, Step

\* The handlers keep the promises of CustomerRegistry for any number of threads,
\* programs and rowids: acknowledged writes happened once, refused ones did not,
\* and a list is of the customers who were there.
THEOREM HandlersImplementRegistry == Spec => ImplementsRegistry
  BY InitImplements, StepImplements, AccessIsSound, PTL
  DEF Spec, ImplementsRegistry, Registry!RegSpec

=============================================================================
