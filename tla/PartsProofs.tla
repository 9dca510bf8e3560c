------------------------------ MODULE PartsProofs ------------------------------
(***************************************************************************)
(* The response object, the deadlines of a worker's connections, the tables*)
(* that three programs create, the rows of seed_imports_exports and asio's *)
(* heap of timers, for any number of requests, connections, starts, runs   *)
(* and timers.                                                             *)
(***************************************************************************)
EXTENDS CrowConnection, CrowResponse, AsioTimerQueue, SchemaBootstrap, ImportsExports, SumTheorems,
        WellFoundedInduction

-----------------------------------------------------------------------------
(* The response                                                            *)

\* The response has its fields.
ResponseFields ==
    [failed : BOOLEAN, body : {0, Page, Words}, length : {Undeclared, 0, Page, File},
     completed : BOOLEAN, skip_body : BOOLEAN, manual : BOOLEAN, file : BOOLEAN,
     connection : BOOLEAN]

\* A response in which nothing is left but the mark of a HEAD request and the header
\* connection.
Clean(r) ==
    /\ r \in ResponseFields
    /\ ~r.failed /\ r.body = 0 /\ r.length = Undeclared
    /\ ~r.completed /\ ~r.manual /\ ~r.file

\* One entry of the history of answers.
Entry == [request : Request, declared : {0, Page, File, Words}, sent : {0, Page, File, Words},
          leftover : BOOLEAN]

\* A HEAD request without host was answered among the first n.
HeadWithoutHost(n) ==
    \E k \in 1..n : wire[k].request.method = "HEAD" /\ ~wire[k].request.host

\* While the socket is open nothing is left in the response but the mark of a HEAD
\* request that was answered without end() and the header of the last request; what
\* was sent so far is framed.
ResponseInv ==
    /\ wire \in Seq(Entry)
    /\ socketOpen \in BOOLEAN
    /\ res \in ResponseFields
    /\ socketOpen => /\ Clean(res)
                     /\ res.skip_body => HeadWithoutHost(Len(wire))
                     /\ res.connection => Len(wire) > 0 /\ LeavesHeader(wire[Len(wire)].request)
    /\ GetIsFramed
    /\ HeadDeclaresPage
    /\ LeftoversGoWithFiles

\* A response that was just made.
LEMMA FreshIsClean == Clean(Fresh) /\ ~Fresh.skip_body /\ ~Fresh.connection
  BY DEF Clean, Fresh, ResponseFields

\* operator= leaves the two fields it forgets.
LEMMA AssignedIs ==
    ASSUME NEW r \in ResponseFields, NEW body \in {0, Page}, NEW failed \in BOOLEAN,
           NEW t, t = Assigned(r, body, failed)
    PROVE  /\ t \in ResponseFields
           /\ t.failed <=> failed
           /\ t.body = body /\ t.length = Undeclared /\ ~t.completed /\ ~t.file
           /\ ~t.connection
           /\ t.skip_body <=> r.skip_body
           /\ t.manual <=> r.manual
<1>0. Clean(Fresh) /\ ~Fresh.connection
  BY FreshIsClean
<1>1. PICK a : a = [Fresh EXCEPT !.body = body]
  OBVIOUS
<1>2. /\ a \in ResponseFields
      /\ ~a.completed /\ a.body = body /\ a.length = Undeclared /\ ~a.file /\ ~a.connection
  BY <1>0, <1>1 DEF Clean, ResponseFields
<1>3. PICK b : b = [a EXCEPT !.failed = failed]
  OBVIOUS
<1>4. /\ b \in ResponseFields
      /\ b.failed <=> failed
      /\ ~b.completed /\ b.body = body /\ b.length = Undeclared /\ ~b.file /\ ~b.connection
  BY <1>2, <1>3 DEF ResponseFields
<1>5. PICK c : c = [b EXCEPT !.skip_body = r.skip_body]
  OBVIOUS
<1>6. /\ c \in ResponseFields
      /\ c.failed <=> failed
      /\ c.skip_body <=> r.skip_body
      /\ ~c.completed /\ c.body = body /\ c.length = Undeclared /\ ~c.file /\ ~c.connection
  BY <1>4, <1>5 DEF ResponseFields
<1>7. t = [c EXCEPT !.manual = r.manual]
  BY <1>1, <1>3, <1>5 DEF Assigned
<1> QED
  BY <1>6, <1>7 DEF ResponseFields

\* clear() leaves them too.
LEMMA EmptiedIs ==
    ASSUME NEW r \in ResponseFields, NEW t, t = Emptied(r)
    PROVE  /\ t \in ResponseFields
           /\ ~t.failed /\ t.body = 0 /\ t.length = Undeclared /\ ~t.completed /\ ~t.file
           /\ ~t.connection
           /\ t.skip_body <=> r.skip_body
           /\ t.manual <=> r.manual
<1>0. Clean(Fresh) /\ ~Fresh.connection
  BY FreshIsClean
<1>1. PICK a : a = [Fresh EXCEPT !.skip_body = r.skip_body]
  OBVIOUS
<1>2. /\ a \in ResponseFields
      /\ a.skip_body <=> r.skip_body
      /\ ~a.failed /\ a.body = 0 /\ a.length = Undeclared /\ ~a.completed /\ ~a.file
      /\ ~a.connection
  BY <1>0, <1>1 DEF Clean, ResponseFields
<1>3. t = [a EXCEPT !.manual = r.manual]
  BY <1>1 DEF Emptied
<1> QED
  BY <1>2, <1>3 DEF ResponseFields

\* end() unsets them when the handler is done with the response; then the header is
\* set on it.
LEMMA LeftByIs ==
    ASSUME NEW r \in ResponseFields, NEW q \in Request, NEW t, t = LeftBy(q, Emptied(r))
    PROVE  Clean(t) /\ ~t.skip_body /\ (t.connection <=> q.keep_alive)
<1>1. PICK e : e = Emptied(r)
  OBVIOUS
<1>2. /\ e \in ResponseFields
      /\ ~e.failed /\ e.body = 0 /\ e.length = Undeclared /\ ~e.completed /\ ~e.file
  BY <1>1, EmptiedIs
<1>3. PICK a : a = [e EXCEPT !.manual = FALSE]
  OBVIOUS
<1>4. /\ a \in ResponseFields
      /\ ~a.failed /\ a.body = 0 /\ a.length = Undeclared /\ ~a.completed /\ ~a.file /\ ~a.manual
  BY <1>2, <1>3 DEF ResponseFields
<1>5. PICK b : b = [a EXCEPT !.skip_body = FALSE]
  OBVIOUS
<1>6. Clean(b) /\ ~b.skip_body
  BY <1>4, <1>5 DEF ResponseFields, Clean
<1>7. t = [b EXCEPT !.connection = q.keep_alive]
  BY <1>1, <1>3, <1>5 DEF LeftBy, AfterHandler
<1>8. q.keep_alive \in BOOLEAN
  BY DEF Request
<1> QED
  BY <1>6, <1>7, <1>8 DEF ResponseFields, Clean

\* end() turns the body of a HEAD request into a declared length.
LEMMA EndedIs ==
    ASSUME NEW r \in ResponseFields, r.body \in {0, Page}, NEW t, t = Ended(r)
    PROVE  /\ t \in ResponseFields
           /\ t.failed <=> r.failed
           /\ t.skip_body <=> r.skip_body
           /\ t.file <=> r.file
           /\ t.connection <=> r.connection
           /\ r.skip_body => t.body = 0 /\ t.length = r.body
           /\ ~r.skip_body => t.body = r.body /\ t.length = r.length /\ (t.manual <=> r.manual)
<1>1. PICK a : a = [r EXCEPT !.completed = TRUE]
  OBVIOUS
<1>2. /\ a \in ResponseFields
      /\ a.failed <=> r.failed
      /\ a.skip_body <=> r.skip_body
      /\ a.file <=> r.file
      /\ a.connection <=> r.connection
      /\ a.manual <=> r.manual
      /\ a.body = r.body /\ a.length = r.length
  BY <1>1 DEF ResponseFields
<1>3. CASE ~r.skip_body
  BY <1>1, <1>2, <1>3 DEF Ended
<1>4. CASE r.skip_body
  <2>1. PICK b : b = [a EXCEPT !.length = r.body]
    OBVIOUS
  <2>2. /\ b \in ResponseFields
        /\ b.failed <=> r.failed
        /\ b.skip_body <=> r.skip_body
        /\ b.file <=> r.file
        /\ b.connection <=> r.connection
        /\ b.length = r.body
    BY <1>2, <2>1 DEF ResponseFields
  <2>3. PICK c : c = [b EXCEPT !.body = 0]
    OBVIOUS
  <2>4. /\ c \in ResponseFields
        /\ c.failed <=> r.failed
        /\ c.skip_body <=> r.skip_body
        /\ c.file <=> r.file
        /\ c.connection <=> r.connection
        /\ c.length = r.body /\ c.body = 0
    BY <2>2, <2>3 DEF ResponseFields
  <2>5. t = [r EXCEPT !.completed = TRUE, !.length = r.body, !.body = 0, !.manual = TRUE]
    BY <1>4 DEF Ended
  <2>6. t = [c EXCEPT !.manual = TRUE]
    BY <1>1, <2>1, <2>3, <2>5
  <2> QED
    BY <1>4, <2>4, <2>6 DEF ResponseFields
<1> QED
  BY <1>3, <1>4

\* A file is declared by its length, a missing one is an error.
LEMMA WithFileIs ==
    ASSUME NEW r \in ResponseFields, NEW exists \in BOOLEAN, NEW t, t = WithFile(r, exists)
    PROVE  /\ t \in ResponseFields
           /\ t.skip_body <=> r.skip_body
           /\ t.manual <=> r.manual
           /\ t.connection <=> r.connection
           /\ t.body = r.body
           /\ exists => t.file /\ t.length = File /\ (t.failed <=> r.failed)
           /\ ~exists => t.failed /\ t.length = r.length /\ (t.file <=> r.file)
<1>1. CASE exists
  <2>1. PICK a : a = [r EXCEPT !.file = TRUE]
    OBVIOUS
  <2>2. /\ a \in ResponseFields
        /\ a.skip_body <=> r.skip_body
        /\ a.manual <=> r.manual
        /\ a.connection <=> r.connection
        /\ a.failed <=> r.failed
        /\ a.body = r.body /\ a.file
    BY <2>1 DEF ResponseFields
  <2>3. t = [r EXCEPT !.file = TRUE, !.length = File]
    BY <1>1 DEF WithFile
  <2>4. t = [a EXCEPT !.length = File]
    BY <2>1, <2>3
  <2> QED
    BY <1>1, <2>2, <2>4 DEF ResponseFields
<1>2. CASE ~exists
  <2>1. t = [r EXCEPT !.failed = TRUE]
    BY <1>2 DEF WithFile
  <2> QED
    BY <1>2, <2>1 DEF ResponseFields
<1> QED
  BY <1>1, <1>2

\* The response a handler finds: clean, and marked for a HEAD request.
LEMMA InitialIs ==
    ASSUME Clean(res), NEW q \in Request, NEW t, t = Initial(q)
    PROVE  /\ Clean(t)
           /\ t.skip_body <=> (res.skip_body \/ q.method = "HEAD")
           /\ t.connection <=> res.connection
<1>1. CASE q.method = "HEAD"
  <2>1. t = [res EXCEPT !.skip_body = TRUE]
    BY <1>1 DEF Initial
  <2> QED
    BY <1>1, <2>1 DEF Clean, ResponseFields
<1>2. CASE q.method # "HEAD"
  BY <1>2 DEF Initial
<1> QED
  BY <1>1, <1>2

\* What is written for a response.
LEMMA WriteIs ==
    ASSUME NEW q \in Request, NEW open \in BOOLEAN, NEW r \in ResponseFields, Write(q, r, open)
    PROVE  \E e \in Entry :
              /\ wire' = Append(wire, e) /\ e.request = q
              /\ socketOpen' = open
              /\ e.leftover <=> r.connection
              /\ e.sent = IF r.file THEN File ELSE IF r.failed /\ r.body = 0 THEN Words ELSE r.body
              /\ e.declared = IF r.length # Undeclared THEN r.length
                              ELSE IF r.manual THEN 0
                              ELSE IF r.failed /\ r.body = 0 THEN Words ELSE r.body
<1>1. PICK t : t = Prepared(r)
  OBVIOUS
<1>2. /\ t.body = IF r.failed /\ r.body = 0 THEN Words ELSE r.body
      /\ t.length = r.length
      /\ t.manual <=> r.manual
  BY <1>1 DEF Prepared, ResponseFields
<1>3. PICK d, x : d = Declared(t) /\ x = IF r.file THEN File ELSE t.body
  OBVIOUS
<1>4. d = IF r.length # Undeclared THEN r.length ELSE IF r.manual THEN 0 ELSE t.body
  BY <1>2, <1>3 DEF Declared
<1>5. d \in {0, Page, File, Words} /\ x \in {0, Page, File, Words}
  BY <1>2, <1>3, <1>4 DEF ResponseFields
<1>6. PICK e : e = [request |-> q, declared |-> d, sent |-> x, leftover |-> r.connection]
  OBVIOUS
<1>7. wire' = Append(wire, e) /\ socketOpen' = open
  BY <1>1, <1>3, <1>6 DEF Write
<1>8. /\ e \in Entry /\ e.request = q /\ e.sent = x /\ e.declared = d
      /\ e.leftover <=> r.connection
  BY <1>5, <1>6 DEF Entry, ResponseFields
<1> QED
  BY <1>2, <1>3, <1>4, <1>7, <1>8

\* The lengths are not taken for no length.
LEMMA LengthsDiffer ==
    /\ Page \in Nat /\ File \in Nat /\ Words \in Nat /\ Page # 0 /\ File # 0 /\ Words # 0
    /\ Undeclared \notin {0, Page, File, Words}
  BY CrowResponseAssumption DEF Undeclared

\* One more answer.
LEMMA AnswerStep ==
    ASSUME ResponseInv, socketOpen, NEW q \in Request, NEW e \in Entry, e.request = q,
           wire' = Append(wire, e),
           q.method = "GET" /\ ~res.skip_body =>
              e.declared = e.sent /\ (q.host /\ q.target = "page" => e.sent = Page),
           q.host /\ q.target = "page" => e.declared = Page,
           e.leftover => q.target \in {"file", "missingFile"} /\ res.connection,
           socketOpen' \in BOOLEAN, res' \in ResponseFields,
           socketOpen' =>
              /\ Clean(res')
              /\ res'.skip_body => res.skip_body \/ (q.method = "HEAD" /\ ~q.host)
              /\ res'.connection => LeavesHeader(q)
    PROVE  ResponseInv'
<1>1. /\ wire \in Seq(Entry) /\ wire' \in Seq(Entry) /\ Len(wire') = Len(wire) + 1
      /\ Len(wire) \in Nat
      /\ \A k \in 1..Len(wire) : wire'[k] = wire[k]
      /\ wire'[Len(wire) + 1] = e
  BY DEF ResponseInv
<1>2. \A k \in DOMAIN wire' : k \in 1..Len(wire) \/ k = Len(wire) + 1
  BY <1>1
<1>3. res.skip_body => HeadWithoutHost(Len(wire))
  BY DEF ResponseInv
<1>4. socketOpen' => (res'.skip_body => HeadWithoutHost(Len(wire))')
  <2> SUFFICES ASSUME socketOpen', res'.skip_body PROVE HeadWithoutHost(Len(wire))'
    OBVIOUS
  <2>1. CASE res.skip_body
    BY <1>1, <1>3, <2>1 DEF HeadWithoutHost
  <2>2. CASE q.method = "HEAD" /\ ~q.host
    BY <1>1, <2>2 DEF HeadWithoutHost
  <2> QED
    BY <2>1, <2>2
<1>5. HeadDeclaresPage'
  BY <1>1, <1>2 DEF ResponseInv, HeadDeclaresPage
<1>6. GetIsFramed'
  <2> SUFFICES ASSUME NEW k \in DOMAIN wire', wire'[k].request.method = "GET",
                      \A j \in 1..(k - 1) : wire'[j].request.method = "HEAD" => wire'[j].request.host
               PROVE  /\ wire'[k].declared = wire'[k].sent
                      /\ wire'[k].request.host /\ wire'[k].request.target = "page" =>
                            wire'[k].sent = Page
    BY DEF GetIsFramed
  <2>1. CASE k \in 1..Len(wire)
    <3>1. k \in DOMAIN wire /\ wire'[k] = wire[k] /\ \A j \in 1..(k - 1) : wire'[j] = wire[j]
      BY <1>1, <2>1
    <3> QED
      BY <3>1 DEF ResponseInv, GetIsFramed
  <2>2. CASE k = Len(wire) + 1
    <3>1. \A j \in 1..Len(wire) : wire[j].request.method = "HEAD" => wire[j].request.host
      BY <1>1, <2>2
    <3>2. ~res.skip_body
      BY <1>3, <3>1 DEF HeadWithoutHost
    <3> QED
      BY <1>1, <2>2, <3>2
  <2> QED
    BY <1>2, <2>1, <2>2
<1>7. LeftoversGoWithFiles'
  <2> SUFFICES ASSUME NEW k \in DOMAIN wire', wire'[k].leftover
               PROVE  /\ wire'[k].request.target \in {"file", "missingFile"}
                      /\ k > 1 /\ LeavesHeader(wire'[k - 1].request)
    BY DEF LeftoversGoWithFiles, LeavesHeader
  <2>1. CASE k \in 1..Len(wire)
    <3>1. k \in DOMAIN wire /\ wire'[k] = wire[k]
      BY <1>1, <2>1
    <3>2. /\ wire[k].request.target \in {"file", "missingFile"}
          /\ k > 1 /\ LeavesHeader(wire[k - 1].request)
      BY <3>1 DEF ResponseInv, LeftoversGoWithFiles
    <3>3. wire'[k - 1] = wire[k - 1]
      BY <1>1, <2>1, <3>2
    <3> QED
      BY <3>1, <3>2, <3>3
  <2>2. CASE k = Len(wire) + 1
    <3>1. wire'[k] = e /\ res.connection
      BY <1>1, <2>2
    <3>2. Len(wire) > 0 /\ LeavesHeader(wire[Len(wire)].request)
      BY <3>1 DEF ResponseInv
    <3>3. k > 1 /\ wire'[k - 1] = wire[Len(wire)]
      BY <1>1, <2>2, <3>2
    <3>4. q.target \in {"file", "missingFile"} /\ e.request = q
      BY <2>2, <1>1
    <3>5. wire'[k].request.target \in {"file", "missingFile"}
      BY <3>1, <3>4
    <3>6. LeavesHeader(wire'[k - 1].request)
      BY <3>2, <3>3
    <3> QED
      BY <3>3, <3>5, <3>6
  <2> QED
    BY <1>2, <2>1, <2>2
<1>8. socketOpen' => (res'.connection => Len(wire') > 0 /\ LeavesHeader(wire'[Len(wire')].request))
  BY <1>1
<1> QED
  BY <1>1, <1>4, <1>5, <1>6, <1>7, <1>8 DEF ResponseInv, LeavesHeader

\* Each kind of answer.
LEMMA UnknownStep ==
    ASSUME ResponseInv, socketOpen, NEW q \in Request, AnswerUnknown(q)
    PROVE  ResponseInv'
<1>0. Clean(res)
  BY DEF ResponseInv
<1>args. PICK body, failed : body = 0 /\ failed = TRUE
  OBVIOUS
<1>made. PICK a, r : a = Assigned(res, body, failed) /\ r = Ended(a)
  OBVIOUS
<1>range. body \in {0, Page} /\ failed \in BOOLEAN /\ failed
  BY <1>args
<1>1. a = Assigned(res, 0, TRUE) /\ r = Ended(a)
  BY <1>args, <1>made, Zenon
<1>2. /\ a \in ResponseFields
      /\ a.failed /\ a.body = 0 /\ a.length = Undeclared /\ ~a.file
      /\ a.skip_body <=> res.skip_body
      /\ ~a.manual /\ ~a.connection
  <2>1. res \in ResponseFields /\ ~res.manual
    BY <1>0 DEF Clean
  <2>2. /\ a \in ResponseFields
        /\ a.failed <=> failed
        /\ a.body = body /\ a.length = Undeclared /\ ~a.file /\ ~a.connection
        /\ a.skip_body <=> res.skip_body
        /\ a.manual <=> res.manual
    BY <1>made, <1>range, <2>1, AssignedIs, ZenonT(30)
  <2> QED
    BY <1>args, <1>range, <2>1, <2>2
<1>3. /\ r \in ResponseFields
      /\ r.failed /\ ~r.file /\ ~r.connection
      /\ ~res.skip_body => r.body = 0 /\ r.length = Undeclared /\ ~r.manual
  BY <1>1, <1>2, EndedIs
<1>4. Write(q, r, FALSE) /\ res' = Emptied(r) /\ q.target = "unknown"
  BY <1>1 DEF AnswerUnknown
<1>5. PICK e \in Entry :
        /\ wire' = Append(wire, e) /\ e.request = q /\ socketOpen' = FALSE /\ ~e.leftover
        /\ ~res.skip_body => e.sent = Words /\ e.declared = Words
  BY <1>3, <1>4, WriteIs
<1>6. res' \in ResponseFields
  BY <1>3, <1>4, EmptiedIs
<1> QED
  BY <1>4, <1>5, <1>6, AnswerStep

LEMMA BadRequestStep ==
    ASSUME ResponseInv, socketOpen, NEW q \in Request, AnswerBadRequest(q)
    PROVE  ResponseInv'
<1>0. Clean(res)
  BY DEF ResponseInv
<1>args. PICK body, failed : body = 0 /\ failed = TRUE
  OBVIOUS
<1>made. PICK h, r : h = Initial(q) /\ r = Assigned(h, body, failed)
  OBVIOUS
<1>range. body \in {0, Page} /\ failed \in BOOLEAN /\ failed
  BY <1>args
<1>1. h = Initial(q) /\ r = Assigned(h, 0, TRUE)
  BY <1>args, <1>made, Zenon
<1>2. Clean(h) /\ (h.skip_body <=> (res.skip_body \/ q.method = "HEAD"))
  BY <1>0, <1>1, InitialIs
<1>3. /\ r \in ResponseFields
      /\ r.failed /\ r.body = 0 /\ r.length = Undeclared /\ ~r.file /\ ~r.manual
      /\ r.skip_body <=> h.skip_body
      /\ ~r.connection
  <2>1. h \in ResponseFields /\ ~h.manual
    BY <1>2 DEF Clean
  <2>2. /\ r \in ResponseFields
        /\ r.failed <=> failed
        /\ r.body = body /\ r.length = Undeclared /\ ~r.file /\ ~r.connection
        /\ r.skip_body <=> h.skip_body
        /\ r.manual <=> h.manual
    BY ZenonT(60), <1>made, <1>range, <2>1, AssignedIs
  <2> QED
    BY <1>args, <1>range, <2>1, <2>2
<1>4. Write(q, r, TRUE) /\ res' = Emptied(r) /\ ~q.host
  BY <1>1 DEF AnswerBadRequest
<1>5. PICK e \in Entry :
        /\ wire' = Append(wire, e) /\ e.request = q /\ socketOpen' = TRUE /\ ~e.leftover
        /\ e.sent = Words /\ e.declared = Words
  BY <1>3, <1>4, WriteIs
<1>6. Clean(res') /\ (res'.skip_body <=> h.skip_body) /\ ~res'.connection
  BY <1>3, <1>4, EmptiedIs DEF Clean
<1>7. res' \in ResponseFields
  BY <1>6 DEF Clean
<1> QED
  BY <1>2, <1>4, <1>5, <1>6, <1>7, AnswerStep

LEMMA PageStep ==
    ASSUME ResponseInv, socketOpen, NEW q \in Request, AnswerPage(q)
    PROVE  ResponseInv'
<1>0. Clean(res)
  BY DEF ResponseInv
<1>1. PICK body, failed : /\ body = IF q.target = "page" THEN Page ELSE 0
                          /\ failed = (q.target = "error")
  OBVIOUS
<1>2. PICK h, a, r : h = Initial(q) /\ a = Assigned(h, body, failed) /\ r = Ended(a)
  OBVIOUS
<1>3. body \in {0, Page} /\ failed \in BOOLEAN /\ (failed <=> q.target = "error")
  BY <1>1
<1>4. Clean(h) /\ (h.skip_body <=> (res.skip_body \/ q.method = "HEAD"))
  BY <1>0, <1>2, InitialIs
<1>5. /\ a \in ResponseFields
      /\ a.failed <=> failed
      /\ a.body = body /\ a.length = Undeclared /\ ~a.file /\ ~a.manual /\ ~a.connection
      /\ a.skip_body <=> h.skip_body
  BY <1>2, <1>3, <1>4, AssignedIs DEF Clean
<1>6. /\ r \in ResponseFields /\ ~r.file /\ ~r.connection
      /\ r.failed <=> failed
      /\ h.skip_body => r.body = 0 /\ r.length = body
      /\ ~h.skip_body => r.body = body /\ r.length = Undeclared /\ ~r.manual
  BY <1>2, <1>3, <1>5, EndedIs
<1>7. /\ Write(q, r, TRUE) /\ res' = LeftBy(q, Emptied(r))
      /\ q.target \in {"page", "error"} /\ q.host
  BY <1>1, <1>2, Zenon DEF AnswerPage
<1>8. PICK e \in Entry :
        /\ wire' = Append(wire, e) /\ e.request = q /\ socketOpen' = TRUE /\ ~e.leftover
        /\ e.sent = IF r.failed /\ r.body = 0 THEN Words ELSE r.body
        /\ e.declared = IF r.length # Undeclared THEN r.length
                        ELSE IF r.manual THEN 0
                        ELSE IF r.failed /\ r.body = 0 THEN Words ELSE r.body
  BY <1>6, <1>7, WriteIs
<1>9. Clean(res') /\ ~res'.skip_body /\ (res'.connection => LeavesHeader(q))
  BY <1>6, <1>7, LeftByIs DEF LeavesHeader
<1>10. res' \in ResponseFields
  BY <1>9 DEF Clean
<1>11. q.target = "page" => e.declared = Page
  BY <1>1, <1>3, <1>6, <1>7, <1>8, LengthsDiffer
<1>12. q.method = "GET" /\ ~res.skip_body => e.declared = e.sent
  BY <1>3, <1>4, <1>6, <1>7, <1>8, LengthsDiffer
<1> QED
  BY <1>8, <1>9, <1>10, <1>11, <1>12, AnswerStep

LEMMA FileStep ==
    ASSUME ResponseInv, socketOpen, NEW q \in Request, AnswerFile(q)
    PROVE  ResponseInv'
<1>0. Clean(res)
  BY DEF ResponseInv
<1>1. PICK exists : exists = (q.target = "file")
  OBVIOUS
<1>2. PICK h, a, r : h = Initial(q) /\ a = WithFile(h, exists) /\ r = Ended(a)
  OBVIOUS
<1>3. exists \in BOOLEAN /\ (exists <=> q.target = "file")
  BY <1>1
<1>4. /\ Clean(h)
      /\ h.skip_body <=> (res.skip_body \/ q.method = "HEAD")
      /\ h.connection <=> res.connection
  BY <1>0, <1>2, InitialIs
<1>5. /\ a \in ResponseFields
      /\ a.body = 0 /\ ~a.manual
      /\ a.skip_body <=> h.skip_body
      /\ a.connection <=> res.connection
      /\ exists => a.file /\ a.length = File
      /\ ~exists => ~a.file /\ a.failed /\ a.length = Undeclared
  BY <1>2, <1>3, <1>4, WithFileIs DEF Clean
<1>6. /\ r \in ResponseFields
      /\ r.file <=> exists
      /\ r.connection <=> res.connection
      /\ ~h.skip_body => /\ r.body = 0 /\ r.length = a.length /\ ~r.manual
                         /\ r.failed <=> a.failed
  BY <1>2, <1>3, <1>5, EndedIs
<1>7. /\ \E close \in BOOLEAN : Write(q, r, ~(r.file /\ close))
      /\ res' = LeftBy(q, Emptied(IF r.file THEN Ended(Emptied(r)) ELSE r))
      /\ q.target \in {"file", "missingFile"} /\ q.host
  BY <1>1, <1>2, Zenon DEF AnswerFile
<1>w. PICK open \in BOOLEAN : Write(q, r, open)
  BY <1>7
<1>8. PICK e \in Entry :
        /\ wire' = Append(wire, e) /\ e.request = q /\ socketOpen' = open
        /\ e.leftover <=> r.connection
        /\ e.sent = IF r.file THEN File ELSE IF r.failed /\ r.body = 0 THEN Words ELSE r.body
        /\ e.declared = IF r.length # Undeclared THEN r.length
                        ELSE IF r.manual THEN 0
                        ELSE IF r.failed /\ r.body = 0 THEN Words ELSE r.body
  BY <1>6, <1>w, WriteIs
<1>9. Clean(res') /\ ~res'.skip_body /\ (res'.connection => LeavesHeader(q))
  <2>1. CASE r.file
    <3>1. PICK c, d : c = Emptied(r) /\ d = Ended(c)
      OBVIOUS
    <3>2. c \in ResponseFields /\ c.body = 0
      BY <1>6, <3>1, EmptiedIs
    <3>3. d \in ResponseFields
      BY <3>1, <3>2, EndedIs
    <3>4. res' = LeftBy(q, Emptied(d))
      BY <1>7, <2>1, <3>1
    <3> QED
      BY <1>7, <3>3, <3>4, LeftByIs DEF LeavesHeader
  <2>2. CASE ~r.file
    <3>1. res' = LeftBy(q, Emptied(r))
      BY <1>7, <2>2
    <3> QED
      BY <1>6, <1>7, <3>1, LeftByIs DEF LeavesHeader
  <2> QED
    BY <2>1, <2>2
<1>10. res' \in ResponseFields
  BY <1>9 DEF Clean
<1>11. q.method = "GET" /\ ~res.skip_body => e.declared = e.sent
  BY <1>3, <1>4, <1>5, <1>6, <1>7, <1>8, LengthsDiffer
<1> QED
  BY <1>6, <1>7, <1>8, <1>9, <1>10, <1>11, AnswerStep

LEMMA ResponseInvHolds == ResponseSpec => []ResponseInv
<1>1. ResponseInit => ResponseInv
  <2> SUFFICES ASSUME ResponseInit PROVE ResponseInv
    OBVIOUS
  <2>1. Clean(res) /\ ~res.skip_body /\ ~res.connection /\ wire = <<>> /\ socketOpen
    BY FreshIsClean DEF ResponseInit
  <2>2. DOMAIN wire = {} /\ wire \in Seq(Entry)
    BY <2>1
  <2>3. res \in ResponseFields /\ socketOpen \in BOOLEAN
    BY <2>1 DEF Clean, ResponseInit
  <2> QED
    BY <2>1, <2>2, <2>3 DEF ResponseInv, GetIsFramed, HeadDeclaresPage, LeftoversGoWithFiles
<1>2. ResponseInv /\ [ResponseNext]_responseVars => ResponseInv'
  <2> SUFFICES ASSUME ResponseInv, [ResponseNext]_responseVars PROVE ResponseInv'
    OBVIOUS
  <2>1. CASE ResponseNext
    BY <2>1, UnknownStep, BadRequestStep, PageStep, FileStep DEF ResponseNext, AnswerRequest
  <2>2. CASE UNCHANGED responseVars
    BY <2>2 DEF responseVars, ResponseInv, HeadWithoutHost, GetIsFramed, HeadDeclaresPage,
               LeftoversGoWithFiles, LeavesHeader, Clean
  <2> QED
    BY <2>1, <2>2
<1> QED
  BY <1>1, <1>2, PTL DEF ResponseSpec

\* Every state of the response has its type, whatever is asked.
THEOREM ResponseTypeCorrect == ResponseSpec => []ResponseTypeOK
<1>1. ASSUME ResponseInv PROVE ResponseTypeOK
  <2>1. \A k \in DOMAIN wire : wire[k] \in Entry
    BY <1>1 DEF ResponseInv
  <2> QED
    BY <1>1, <2>1 DEF ResponseInv, ResponseTypeOK, ResponseFields, Entry
<1> QED
  BY <1>1, ResponseInvHolds, PTL

\* response: after any requests on the connection, what is declared to a GET is what
\* is sent; of what is left of an answer only the header connection gets into
\* another, into the next one and if that is a file's; for any lengths.
THEOREM ResponsesAreFramed == ResponseSpec => []ResponseIsFramed
<1>1. ASSUME ResponseInv, socketOpen
      PROVE  StartsClean
  <2>1. /\ Clean(res)
        /\ res.skip_body => HeadWithoutHost(Len(wire))
        /\ res.connection => Len(wire) > 0 /\ LeavesHeader(wire[Len(wire)].request)
    BY <1>1 DEF ResponseInv
  <2>2. PICK r : r = [res EXCEPT !.skip_body = FALSE, !.connection = FALSE]
    OBVIOUS
  <2>3. Clean(r) /\ ~r.skip_body /\ ~r.connection
    BY <2>1, <2>2 DEF Clean, ResponseFields
  <2>4. r = Fresh
    BY <2>3 DEF Clean, ResponseFields, Fresh
  <2>5. wire \in Seq(Entry)
    BY <1>1 DEF ResponseInv
  <2> QED
    BY <2>1, <2>2, <2>4, <2>5 DEF StartsClean, HeadWithoutHost
<1>2. ResponseInv => ResponseIsFramed
  BY <1>1 DEF ResponseInv, ResponseIsFramed, StartsClean
<1> QED
  BY <1>2, ResponseInvHolds, PTL

-----------------------------------------------------------------------------
(* The deadlines of connections                                            *)

\* A handler holds a connection in the phase it was queued for, and no two
\* handlers hold the same one.
QueueOK ==
    /\ \A k \in DOMAIN ready :
          /\ ready[k].run = "start" => phase[ready[k].conn] = "posted"
          /\ ready[k].run = "read" => phase[ready[k].conn] = "reading"
    /\ \A j, k \in DOMAIN ready :
          ready[j].run # "tick" /\ ready[k].run # "tick" /\ ready[j].conn = ready[k].conn => j = k

\* The numbers given since the last reset are at most the last one given.
NumbersBelow ==
    \A c \in Conns :
        era.of[c] <= era.now /\ (era.of[c] = era.now => task_id[c] <= highest_id)

ConnInv ==
    /\ TypeOK /\ QueueOK /\ DeadlineIsOwn
    /\ NumbersBelow /\ NumbersUniqueBetweenResets
    /\ OnlyReuseLosesDeadlines

LEMMA HandlerFields ==
    \A h \in Handler :
        /\ h.run \in {"start", "read", "tick"}
        /\ h.run # "tick" => h.conn \in Conns
  BY DEF Handler

LEMMA TailOf ==
    ASSUME ready \in Seq(Handler), ready # <<>>
    PROVE  /\ Tail(ready) \in Seq(Handler)
           /\ 1 \in DOMAIN ready /\ Head(ready) = ready[1] /\ Head(ready) \in Handler
           /\ \A k \in DOMAIN Tail(ready) :
                 k + 1 \in DOMAIN ready /\ k + 1 # 1 /\ Tail(ready)[k] = ready[k + 1]
           /\ \A k \in DOMAIN ready : k # 1 =>
                 k - 1 \in DOMAIN Tail(ready) /\ Tail(ready)[k - 1] = ready[k]
  OBVIOUS

\* The head of the queue is taken, and only the connection it holds changes its
\* phase.
LEMMA RunKeepsQueue ==
    ASSUME ready \in Seq(Handler), QueueOK, ready # <<>>, ready' = Tail(ready),
           \A d \in Conns : ~(Head(ready).run # "tick" /\ Head(ready).conn = d)
                               => phase'[d] = phase[d]
    PROVE  /\ QueueOK'
           /\ \A d \in Conns : ~(Head(ready).run = "read" /\ Head(ready).conn = d)
                                  => (ReadQueued(d) => ReadQueued(d)')
<1>0. \A k \in DOMAIN ready : ready[k] \in Handler
  OBVIOUS
<1>1. \A k \in DOMAIN ready' : k + 1 \in DOMAIN ready /\ k + 1 # 1 /\ ready'[k] = ready[k + 1]
  BY TailOf
<1>2. ASSUME NEW k \in DOMAIN ready', ready'[k].run # "tick"
      PROVE  phase'[ready'[k].conn] = phase[ready'[k].conn]
  <2>1. ready'[k] = ready[k + 1] /\ k + 1 \in DOMAIN ready /\ k + 1 # 1
    BY <1>1
  <2>2. ready[k + 1].conn \in Conns
    BY <1>0, <1>2, <2>1, HandlerFields
  <2>3. ~(Head(ready).run # "tick" /\ Head(ready).conn = ready[k + 1].conn)
    BY <1>2, <2>1, TailOf DEF QueueOK
  <2> QED
    BY <2>1, <2>2, <2>3
<1>3. \A k \in DOMAIN ready' :
        /\ ready'[k].run = "start" => phase'[ready'[k].conn] = "posted"
        /\ ready'[k].run = "read" => phase'[ready'[k].conn] = "reading"
  BY <1>1, <1>2 DEF QueueOK
<1>4. \A j, k \in DOMAIN ready' :
        ready'[j].run # "tick" /\ ready'[k].run # "tick" /\ ready'[j].conn = ready'[k].conn
          => j = k
  <2> SUFFICES ASSUME NEW j \in DOMAIN ready', NEW k \in DOMAIN ready',
                      ready'[j].run # "tick", ready'[k].run # "tick",
                      ready'[j].conn = ready'[k].conn
               PROVE  j = k
    OBVIOUS
  <2>1. j + 1 = k + 1
    BY <1>1 DEF QueueOK
  <2>2. j \in Nat /\ k \in Nat
    BY TailOf
  <2> QED
    BY <2>1, <2>2
<1>5. ASSUME NEW d \in Conns, ~(Head(ready).run = "read" /\ Head(ready).conn = d), ReadQueued(d)
      PROVE  ReadQueued(d)'
  <2>1. PICK k \in DOMAIN ready : ready[k].run = "read" /\ ready[k].conn = d
    BY <1>5 DEF ReadQueued
  <2>2. k # 1
    BY <1>5, <2>1, TailOf
  <2>3. k - 1 \in DOMAIN ready' /\ ready'[k - 1] = ready[k]
    BY <2>2, TailOf
  <2> QED
    BY <2>1, <2>3 DEF ReadQueued
<1> QED
  BY <1>3, <1>4, <1>5 DEF QueueOK

\* A handler is put at the end of the queue.
LEMMA AppendKeepsQueue ==
    ASSUME ready \in Seq(Handler), QueueOK, NEW h \in Handler, ready' = Append(ready, h),
           h.run = "start" => phase'[h.conn] = "posted",
           h.run = "read" => phase'[h.conn] = "reading",
           h.run # "tick" => \A k \in DOMAIN ready :
                                ready[k].run # "tick" => ready[k].conn # h.conn,
           \A d \in Conns : ~(h.run # "tick" /\ h.conn = d) => phase'[d] = phase[d]
    PROVE  /\ QueueOK'
           /\ ready' \in Seq(Handler)
           /\ \A d \in Conns : ReadQueued(d) => ReadQueued(d)'
<1> DEFINE n == Len(ready) + 1
<1>1. /\ ready' \in Seq(Handler)
      /\ DOMAIN ready' = DOMAIN ready \cup {n} /\ n \notin DOMAIN ready
      /\ ready'[n] = h
      /\ \A k \in DOMAIN ready : ready'[k] = ready[k] /\ ready[k] \in Handler
  OBVIOUS
<1> HIDE DEF n
<1>2. ASSUME NEW k \in DOMAIN ready, ready[k].run # "tick"
      PROVE  phase'[ready[k].conn] = phase[ready[k].conn]
  <2>1. ready[k].conn \in Conns
    BY <1>1, <1>2, HandlerFields
  <2> QED
    BY <1>2, <2>1
<1>3. \A k \in DOMAIN ready' :
        /\ ready'[k].run = "start" => phase'[ready'[k].conn] = "posted"
        /\ ready'[k].run = "read" => phase'[ready'[k].conn] = "reading"
  BY <1>1, <1>2 DEF QueueOK
<1>4. \A j, k \in DOMAIN ready' :
        ready'[j].run # "tick" /\ ready'[k].run # "tick" /\ ready'[j].conn = ready'[k].conn
          => j = k
  BY <1>1 DEF QueueOK
<1>5. \A d \in Conns : ReadQueued(d) => ReadQueued(d)'
  BY <1>1 DEF ReadQueued
<1> QED
  BY <1>1, <1>3, <1>4, <1>5 DEF QueueOK

LEMMA RobbedAreConns ==
    ASSUME TypeOK, NEW c
    PROVE  Robbed(c) \subseteq Conns
<1>1. \A i \in DOMAIN tasks : tasks[i].conn \in Conns
  BY DEF TypeOK
<1> QED
  BY <1>1 DEF Robbed

\* A deadline of its own for c, which reads from now on.
LEMMA StartKeepsDeadlines ==
    ASSUME TypeOK, DeadlineIsOwn, NumbersBelow, NumbersUniqueBetweenResets,
           NEW c \in Conns, StartDeadline(c),
           phase'[c] = "reading", \A d \in Conns \ {c} : phase'[d] = phase[d]
    PROVE  /\ DeadlineIsOwn' /\ NumbersBelow' /\ NumbersUniqueBetweenResets'
           /\ HasDeadline(c)'
           /\ \A d \in Conns \ {c} : HasDeadline(d) => HasDeadline(d)' \/ d \in robbed'
           /\ \A d \in Conns \ {c} : d \in robbed => d \in robbed'
           /\ task_id' \in [Conns -> Nat] /\ highest_id' \in Nat
           /\ DOMAIN tasks' \subseteq 1..highest_id'
           /\ \A i \in DOMAIN tasks' : tasks'[i] \in [conn : Conns, due : BOOLEAN]
           /\ era' \in [now : Nat, of : [Conns -> Nat]]
           /\ robbed' \subseteq Conns
<1> DEFINE n == highest_id + 1
<1>0. /\ highest_id \in Nat /\ n \in Nat /\ DOMAIN tasks \subseteq 1..highest_id
      /\ n \notin DOMAIN tasks /\ n # 0
      /\ \A i \in DOMAIN tasks : tasks[i] \in [conn : Conns, due : BOOLEAN]
      /\ task_id \in [Conns -> Nat]
      /\ era \in [now : Nat, of : [Conns -> Nat]] /\ robbed \subseteq Conns
  BY DEF TypeOK
<1>1. /\ highest_id' = n
      /\ DOMAIN tasks' = (DOMAIN tasks \ {task_id[c]}) \cup {n}
      /\ tasks'[n] = [conn |-> c, due |-> FALSE]
      /\ \A i \in DOMAIN tasks \ {task_id[c]} : tasks'[i] = tasks[i]
  BY <1>0 DEF StartDeadline
<1>2. /\ task_id'[c] = n /\ \A d \in Conns \ {c} : task_id'[d] = task_id[d]
      /\ task_id' \in [Conns -> Nat]
  BY <1>0 DEF StartDeadline
<1>3. /\ era' = [era EXCEPT !.of = [era.of EXCEPT ![c] = era.now]]
      /\ robbed' = (robbed \cup Robbed(c)) \ {c}
  BY DEF StartDeadline
<1>4. /\ era'.now = era.now /\ era'.of[c] = era.now
      /\ \A d \in Conns \ {c} : era'.of[d] = era.of[d]
      /\ era' \in [now : Nat, of : [Conns -> Nat]]
  BY <1>0, <1>3
<1>5. \A i \in DOMAIN tasks \ {task_id[c]} : tasks[i].conn # c
  BY DEF DeadlineIsOwn
<1>6. DeadlineIsOwn'
  <2> SUFFICES ASSUME NEW i \in DOMAIN tasks'
               PROVE  phase'[tasks'[i].conn] = "reading" /\ task_id'[tasks'[i].conn] = i
    BY DEF DeadlineIsOwn
  <2>1. CASE i = n
    BY <1>1, <1>2, <2>1
  <2>2. CASE i \in DOMAIN tasks \ {task_id[c]}
    <3>1. tasks'[i] = tasks[i] /\ tasks[i].conn \in Conns \ {c}
      BY <1>0, <1>1, <1>5, <2>2
    <3>2. phase[tasks[i].conn] = "reading" /\ task_id[tasks[i].conn] = i
      BY <2>2 DEF DeadlineIsOwn
    <3> QED
      BY <1>2, <3>1, <3>2
  <2> QED
    BY <1>1, <2>1, <2>2
<1>7. NumbersBelow'
  <2> SUFFICES ASSUME NEW d \in Conns
               PROVE  era'.of[d] <= era'.now /\ (era'.of[d] = era'.now => task_id'[d] <= n)
    BY <1>1 DEF NumbersBelow
  <2>1. era.now \in Nat /\ task_id[d] \in Nat
    BY <1>0
  <2>2. CASE d = c
    BY <1>0, <1>2, <1>4, <2>1, <2>2
  <2>3. CASE d # c
    <3>1. era.of[d] <= era.now /\ (era.of[d] = era.now => task_id[d] <= highest_id)
      BY DEF NumbersBelow
    <3> QED
      BY <1>0, <1>2, <1>4, <2>1, <2>3, <3>1
  <2> QED
    BY <2>2, <2>3
<1>8. \A d \in Conns \ {c} : task_id[d] = n => era.of[d] # era.now
  <2>1. \A d \in Conns : era.of[d] = era.now => task_id[d] <= highest_id
    BY DEF NumbersBelow
  <2> QED
    BY <1>0, <2>1
<1>9. NumbersUniqueBetweenResets'
  <2> HIDE DEF n
  <2> SUFFICES ASSUME NEW a \in Conns, NEW b \in Conns, a # b, task_id'[a] # 0,
                      task_id'[a] = task_id'[b]
               PROVE  era'.of[a] # era'.of[b]
    BY DEF NumbersUniqueBetweenResets
  <2>1. CASE a = c
    BY <1>2, <1>4, <1>8, <2>1
  <2>2. CASE b = c
    BY <1>2, <1>4, <1>8, <2>2
  <2>3. CASE a # c /\ b # c
    BY <1>2, <1>4, <2>3 DEF NumbersUniqueBetweenResets
  <2> QED
    BY <2>1, <2>2, <2>3
<1>10. HasDeadline(c)'
  BY <1>1 DEF HasDeadline
<1>11. ASSUME NEW d \in Conns \ {c}, HasDeadline(d)
       PROVE  HasDeadline(d)' \/ d \in robbed'
  <2>1. PICK i \in DOMAIN tasks : tasks[i].conn = d
    BY <1>11 DEF HasDeadline
  <2>2. CASE i = task_id[c]
    BY <1>3, <2>1, <2>2 DEF Robbed
  <2>3. CASE i # task_id[c]
    BY <1>1, <2>1, <2>3 DEF HasDeadline
  <2> QED
    BY <2>2, <2>3
<1>12. DOMAIN tasks' \subseteq 1..highest_id'
  BY <1>0, <1>1
<1>13. ASSUME NEW i \in DOMAIN tasks' PROVE tasks'[i] \in [conn : Conns, due : BOOLEAN]
  <2> HIDE DEF n
  <2>1. [conn |-> c, due |-> FALSE] \in [conn : Conns, due : BOOLEAN]
    OBVIOUS
  <2> QED
    BY <1>0, <1>1, <2>1
<1>14. Robbed(c) \subseteq Conns
  BY RobbedAreConns
<1>15. robbed' \subseteq Conns /\ \A d \in Conns \ {c} : d \in robbed => d \in robbed'
  BY <1>0, <1>3, <1>14
<1> QED
  BY <1>0, <1>1, <1>2, <1>4, <1>6, <1>7, <1>9, <1>10, <1>11, <1>12, <1>13, <1>15

\* Deadlines are only taken away, and none of a connection that changes its phase.
LEMMA FewerDeadlines ==
    ASSUME TypeOK, DeadlineIsOwn, DOMAIN tasks' \subseteq DOMAIN tasks,
           \A i \in DOMAIN tasks' : tasks'[i].conn = tasks[i].conn,
           \A i \in DOMAIN tasks' : phase'[tasks[i].conn] = phase[tasks[i].conn],
           task_id' = task_id
    PROVE  DeadlineIsOwn'
  BY DEF DeadlineIsOwn

\* A deadline is missing only where it is excused before and after.
LEMMA WaitersKeepDeadlines ==
    ASSUME OnlyReuseLosesDeadlines,
           \A d \in Conns : Waiting(d)' =>
              \/ Waiting(d) /\ (HasDeadline(d) => HasDeadline(d)' \/ d \in robbed')
                            /\ (d \in robbed => d \in robbed')
              \/ HasDeadline(d)'
    PROVE  OnlyReuseLosesDeadlines'
  BY DEF OnlyReuseLosesDeadlines

LEMMA FallDueStep ==
    ASSUME ConnInv, FallDue
    PROVE  ConnInv'
<1>0. TypeOK /\ QueueOK /\ DeadlineIsOwn
  BY DEF ConnInv
<1>1. UNCHANGED <<ready, phase, isOpen, task_id, highest_id, arrivals, era, robbed>>
  BY DEF FallDue
<1>2. PICK i \in DOMAIN tasks : tasks' = [tasks EXCEPT ![i].due = TRUE]
  BY DEF FallDue
<1>3. /\ DOMAIN tasks' = DOMAIN tasks
      /\ \A j \in DOMAIN tasks : /\ tasks'[j].conn = tasks[j].conn
                                 /\ tasks'[j] \in [conn : Conns, due : BOOLEAN]
  BY <1>0, <1>2 DEF TypeOK
<1>4. TypeOK'
  BY <1>0, <1>1, <1>3 DEF TypeOK
<1>5. QueueOK'
  BY <1>0, <1>1 DEF QueueOK
<1>6. DeadlineIsOwn'
  BY <1>0, <1>1, <1>3 DEF DeadlineIsOwn
<1>7. NumbersBelow' /\ NumbersUniqueBetweenResets'
  BY <1>1 DEF ConnInv, NumbersBelow, NumbersUniqueBetweenResets
<1>8. OnlyReuseLosesDeadlines'
  BY <1>1, <1>3 DEF ConnInv, OnlyReuseLosesDeadlines, Waiting, HasDeadline, ReadQueued
<1> QED
  BY <1>4, <1>5, <1>6, <1>7, <1>8 DEF ConnInv

LEMMA TickExpiresStep ==
    ASSUME ConnInv, TickExpires
    PROVE  ConnInv'
<1>0. TypeOK /\ QueueOK /\ DeadlineIsOwn /\ OnlyReuseLosesDeadlines /\ ready \in Seq(Handler)
  BY DEF ConnInv, TypeOK
<1>1. /\ ready' = Append(ready, [run |-> "tick"])
      /\ UNCHANGED <<phase, isOpen, task_id, tasks, highest_id, arrivals, era, robbed>>
  BY DEF TickExpires
<1>2. [run |-> "tick"] \in Handler /\ [run |-> "tick"].run = "tick"
  BY DEF Handler
<1>3. /\ QueueOK' /\ ready' \in Seq(Handler)
      /\ \A d \in Conns : ReadQueued(d) => ReadQueued(d)'
  BY <1>0, <1>1, <1>2, AppendKeepsQueue
<1>4. TypeOK'
  BY <1>0, <1>1, <1>3 DEF TypeOK
<1>5. DeadlineIsOwn' /\ NumbersBelow' /\ NumbersUniqueBetweenResets'
  BY <1>1 DEF ConnInv, DeadlineIsOwn, NumbersBelow, NumbersUniqueBetweenResets
<1>6. OnlyReuseLosesDeadlines'
  BY <1>0, <1>1, <1>3 DEF OnlyReuseLosesDeadlines, Waiting, HasDeadline
<1> QED
  BY <1>3, <1>4, <1>5, <1>6 DEF ConnInv

\* What is posted for a new connection is its first handler.
LEMMA PostStep ==
    ASSUME ConnInv, NEW c \in Conns, Post(c)
    PROVE  ConnInv'
<1>0. TypeOK /\ QueueOK /\ DeadlineIsOwn /\ OnlyReuseLosesDeadlines /\ ready \in Seq(Handler)
      /\ phase \in [Conns -> {"new", "posted", "reading", "gone"}] /\ isOpen \in [Conns -> BOOLEAN]
  BY DEF ConnInv, TypeOK
<1>1. /\ phase[c] = "new" /\ phase' = [phase EXCEPT ![c] = "posted"]
      /\ isOpen' = [isOpen EXCEPT ![c] = TRUE]
      /\ UNCHANGED <<task_id, tasks, highest_id, arrivals, era, robbed>>
  BY DEF Post
<1>2. PICK h : h = [run |-> "start", conn |-> c]
  OBVIOUS
<1>3. h \in Handler /\ h.run = "start" /\ h.conn = c /\ ready' = Append(ready, h)
  BY <1>2 DEF Handler, Post
<1>4. phase'[c] = "posted" /\ \A d \in Conns \ {c} : phase'[d] = phase[d]
  BY <1>0, <1>1
<1>5. \A k \in DOMAIN ready : ready[k].run # "tick" => ready[k].conn # c
  <2>1. \A k \in DOMAIN ready : ready[k] \in Handler
    BY <1>0
  <2> QED
    BY <1>0, <1>1, <2>1, HandlerFields DEF QueueOK
<1>6. /\ QueueOK' /\ ready' \in Seq(Handler)
      /\ \A d \in Conns : ReadQueued(d) => ReadQueued(d)'
  BY <1>0, <1>3, <1>4, <1>5, AppendKeepsQueue
<1>7. TypeOK'
  BY <1>0, <1>1, <1>6 DEF TypeOK
<1>8. DeadlineIsOwn'
  BY <1>0, <1>1 DEF DeadlineIsOwn, TypeOK
<1>9. NumbersBelow' /\ NumbersUniqueBetweenResets'
  BY <1>1 DEF ConnInv, NumbersBelow, NumbersUniqueBetweenResets
<1>10. OnlyReuseLosesDeadlines'
  <2>1. \A d \in Conns : Waiting(d)' => Waiting(d)
    BY <1>0, <1>1, <1>4, <1>6 DEF Waiting
  <2> QED
    BY <1>0, <1>1, <2>1 DEF OnlyReuseLosesDeadlines, HasDeadline
<1> QED
  BY <1>6, <1>7, <1>8, <1>9, <1>10 DEF ConnInv

LEMMA ArriveStep ==
    ASSUME ConnInv, NEW c \in Conns, NEW got \in Brings, Arrive(c, got)
    PROVE  ConnInv'
<1>0. TypeOK /\ QueueOK /\ DeadlineIsOwn /\ OnlyReuseLosesDeadlines /\ ready \in Seq(Handler)
  BY DEF ConnInv, TypeOK
<1>1. /\ phase[c] = "reading" /\ ~ReadQueued(c)
      /\ arrivals < MaxArrivals /\ arrivals' = arrivals + 1
      /\ UNCHANGED <<phase, isOpen, task_id, tasks, highest_id, era, robbed>>
  BY DEF Arrive
<1>2. PICK h : h = [run |-> "read", conn |-> c, got |-> got]
  OBVIOUS
<1>3. h \in Handler /\ h.run = "read" /\ h.conn = c /\ ready' = Append(ready, h)
  BY <1>2 DEF Handler, Arrive
<1>4. \A k \in DOMAIN ready : ready[k].run # "tick" => ready[k].conn # c
  <2>1. \A k \in DOMAIN ready : ready[k].run \in {"start", "read", "tick"}
    BY <1>0, HandlerFields
  <2> QED
    BY <1>0, <1>1, <2>1 DEF QueueOK, ReadQueued
<1>5. /\ QueueOK' /\ ready' \in Seq(Handler)
      /\ \A d \in Conns : ReadQueued(d) => ReadQueued(d)'
  BY <1>0, <1>1, <1>3, <1>4, AppendKeepsQueue
<1>6. arrivals' \in 0..MaxArrivals
  BY <1>0, <1>1, CrowConnectionAssumption DEF TypeOK
<1>7. TypeOK'
  BY <1>0, <1>1, <1>5, <1>6 DEF TypeOK
<1>8. DeadlineIsOwn' /\ NumbersBelow' /\ NumbersUniqueBetweenResets'
  BY <1>1 DEF ConnInv, DeadlineIsOwn, NumbersBelow, NumbersUniqueBetweenResets
<1>9. OnlyReuseLosesDeadlines'
  BY <1>0, <1>1, <1>5 DEF OnlyReuseLosesDeadlines, Waiting, HasDeadline
<1> QED
  BY <1>5, <1>7, <1>8, <1>9 DEF ConnInv

\* The first handler of a connection, or a read after which it goes on reading.
LEMMA ReadsFromNow ==
    ASSUME ConnInv, ready # <<>>, NEW c \in Conns,
           Head(ready).run # "tick", Head(ready).conn = c,
           StartDeadline(c), ready' = Tail(ready),
           phase' \in [Conns -> {"new", "posted", "reading", "gone"}],
           phase'[c] = "reading", \A d \in Conns \ {c} : phase'[d] = phase[d],
           UNCHANGED <<isOpen, arrivals>>
    PROVE  ConnInv'
<1>0. /\ TypeOK /\ QueueOK /\ DeadlineIsOwn /\ NumbersBelow /\ NumbersUniqueBetweenResets
      /\ OnlyReuseLosesDeadlines /\ ready \in Seq(Handler)
  BY DEF ConnInv, TypeOK
<1>1. /\ QueueOK'
      /\ \A d \in Conns \ {c} : ReadQueued(d) => ReadQueued(d)'
  BY <1>0, RunKeepsQueue
<1>2. /\ DeadlineIsOwn' /\ NumbersBelow' /\ NumbersUniqueBetweenResets'
      /\ HasDeadline(c)'
      /\ \A d \in Conns \ {c} : HasDeadline(d) => HasDeadline(d)' \/ d \in robbed'
      /\ \A d \in Conns \ {c} : d \in robbed => d \in robbed'
      /\ task_id' \in [Conns -> Nat] /\ highest_id' \in Nat
      /\ DOMAIN tasks' \subseteq 1..highest_id'
      /\ \A i \in DOMAIN tasks' : tasks'[i] \in [conn : Conns, due : BOOLEAN]
      /\ era' \in [now : Nat, of : [Conns -> Nat]]
      /\ robbed' \subseteq Conns
  BY <1>0, StartKeepsDeadlines
<1>3. ready' \in Seq(Handler)
  BY <1>0, TailOf
<1>4. TypeOK'
  BY <1>0, <1>2, <1>3 DEF TypeOK
<1>5. \A d \in Conns \ {c} : Waiting(d)' => Waiting(d)
  BY <1>1 DEF Waiting
<1>6. OnlyReuseLosesDeadlines'
  BY <1>0, <1>2, <1>5 DEF OnlyReuseLosesDeadlines
<1> QED
  BY <1>1, <1>2, <1>4, <1>6 DEF ConnInv

LEMMA LeaveStep ==
    ASSUME ConnInv, ready # <<>>, NEW c \in Conns,
           Head(ready).run = "read", Head(ready).conn = c, Leave(c)
    PROVE  ConnInv'
<1>0. /\ TypeOK /\ QueueOK /\ DeadlineIsOwn /\ NumbersBelow /\ NumbersUniqueBetweenResets
      /\ OnlyReuseLosesDeadlines /\ ready \in Seq(Handler)
      /\ phase \in [Conns -> {"new", "posted", "reading", "gone"}] /\ isOpen \in [Conns -> BOOLEAN]
  BY DEF ConnInv, TypeOK
<1>1. /\ phase' = [phase EXCEPT ![c] = "gone"] /\ isOpen' = [isOpen EXCEPT ![c] = FALSE]
      /\ ready' = Tail(ready) /\ robbed' = (robbed \cup Robbed(c)) \ {c}
      /\ UNCHANGED <<task_id, highest_id, arrivals, era>>
  BY DEF Leave
<1>2. /\ phase'[c] = "gone" /\ \A d \in Conns \ {c} : phase'[d] = phase[d] /\ isOpen'[d] = isOpen[d]
      /\ isOpen'[c] = FALSE
  BY <1>0, <1>1
<1>3. /\ DOMAIN tasks' = DOMAIN tasks \ {task_id[c]}
      /\ \A i \in DOMAIN tasks' : tasks'[i] = tasks[i]
  BY DEF Leave, Cancelled, Without
<1>4. /\ QueueOK'
      /\ \A d \in Conns \ {c} : ReadQueued(d) => ReadQueued(d)'
  BY <1>0, <1>1, <1>2, RunKeepsQueue
<1>5. ready' \in Seq(Handler)
  BY <1>0, <1>1, TailOf
<1>6. robbed' \subseteq Conns /\ \A d \in Conns \ {c} : d \in robbed => d \in robbed'
  BY <1>0, <1>1, RobbedAreConns DEF TypeOK
<1>7. TypeOK'
  BY <1>0, <1>1, <1>3, <1>5, <1>6 DEF TypeOK
<1>8. DeadlineIsOwn'
  <2>1. \A i \in DOMAIN tasks' : tasks[i].conn \in Conns \ {c}
    BY <1>0, <1>3 DEF DeadlineIsOwn, TypeOK
  <2> QED
    BY <1>0, <1>1, <1>2, <1>3, <2>1 DEF DeadlineIsOwn
<1>9. NumbersBelow' /\ NumbersUniqueBetweenResets'
  BY <1>0, <1>1 DEF NumbersBelow, NumbersUniqueBetweenResets
<1>10. ASSUME NEW d \in Conns, Waiting(d)'
       PROVE  HasDeadline(d)' \/ d \in robbed'
  <2>1. d # c /\ Waiting(d)
    BY <1>2, <1>4, <1>10 DEF Waiting
  <2>2. CASE d \in robbed
    BY <1>6, <2>1, <2>2
  <2>3. CASE HasDeadline(d)
    <3>1. PICK i \in DOMAIN tasks : tasks[i].conn = d
      BY <2>3 DEF HasDeadline
    <3>2. CASE i = task_id[c]
      BY <1>1, <2>1, <3>1, <3>2 DEF Robbed
    <3>3. CASE i # task_id[c]
      BY <1>3, <3>1, <3>3 DEF HasDeadline
    <3> QED
      BY <3>2, <3>3
  <2> QED
    BY <1>0, <2>1, <2>2, <2>3 DEF OnlyReuseLosesDeadlines
<1>11. OnlyReuseLosesDeadlines'
  BY <1>10 DEF OnlyReuseLosesDeadlines
<1> QED
  BY <1>4, <1>7, <1>8, <1>9, <1>11 DEF ConnInv

\* The aborted reads hold connections that read and that no handler holds.
LEMMA AbortsAreNew ==
    ASSUME ConnInv, NEW order \in InOrder(CutShort)
    PROVE  /\ Cardinality(CutShort) \in Nat
           /\ DOMAIN order = 1..Cardinality(CutShort)
           /\ \A k \in DOMAIN order :
                /\ order[k] \in DOMAIN tasks
                /\ tasks[order[k]].conn \in Conns
                /\ phase[tasks[order[k]].conn] = "reading"
                /\ ~ReadQueued(tasks[order[k]].conn)
           /\ \A j, k \in DOMAIN order :
                tasks[order[j]].conn = tasks[order[k]].conn => j = k
<1>0. TypeOK /\ DeadlineIsOwn
  BY DEF ConnInv
<1>1. CutShort \subseteq DOMAIN tasks /\ \A i \in CutShort : ~ReadQueued(tasks[i].conn)
  BY DEF CutShort, DueIds
<1>2. IsFiniteSet(CutShort)
  <2>1. highest_id \in Nat /\ CutShort \subseteq 1..highest_id
    BY <1>0, <1>1 DEF TypeOK
  <2>2. IsFiniteSet(1..highest_id)
    BY <2>1, FS_Interval
  <2> QED
    BY <2>1, <2>2, FS_Subset
<1>3. Cardinality(CutShort) \in Nat
  BY <1>2, FS_CardinalityType
<1>4. PICK n \in Nat : n = Cardinality(CutShort)
  BY <1>3
<1>5. order \in [1..n -> CutShort] /\ \A j, k \in 1..n : j < k => order[j] < order[k]
  BY <1>4 DEF InOrder
<1>6. \A k \in 1..n :
        /\ order[k] \in DOMAIN tasks
        /\ tasks[order[k]].conn \in Conns
        /\ phase[tasks[order[k]].conn] = "reading"
        /\ task_id[tasks[order[k]].conn] = order[k]
        /\ ~ReadQueued(tasks[order[k]].conn)
  <2>1. \A i \in DOMAIN tasks : tasks[i].conn \in Conns
    BY <1>0 DEF TypeOK
  <2> QED
    BY <1>0, <1>1, <1>5, <2>1 DEF DeadlineIsOwn
<1>7. ASSUME NEW j \in 1..n, NEW k \in 1..n, tasks[order[j]].conn = tasks[order[k]].conn
      PROVE  j = k
  <2>1. order[j] = order[k] /\ order[j] \in Nat
    BY <1>0, <1>6, <1>7 DEF TypeOK
  <2>2. ~(j < k) /\ ~(k < j)
    BY <1>5, <2>1
  <2> QED
    BY <2>2
<1> QED
  BY <1>4, <1>5, <1>6, <1>7

LEMMA AbortsField ==
    ASSUME NEW order, NEW k \in DOMAIN order
    PROVE  /\ Aborts(order)[k].run = "read"
           /\ Aborts(order)[k].conn = tasks[order[k]].conn
           /\ Aborts(order)[k].got = "aborted"
  BY DEF Aborts

\* The queue after a tick: what was behind it, then the aborted reads.
LEMMA TickKeepsQueue ==
    ASSUME ConnInv, ready # <<>>, Head(ready).run = "tick", NEW order \in InOrder(CutShort),
           ready' = Tail(ready) \o Aborts(order), phase' = phase
    PROVE  /\ QueueOK'
           /\ ready' \in Seq(Handler)
           /\ \A d \in Conns : ReadQueued(d) => ReadQueued(d)'
<1>0. QueueOK /\ ready \in Seq(Handler)
  BY DEF ConnInv, TypeOK
<1>1. PICK n \in Nat : n = Cardinality(CutShort)
  BY AbortsAreNew
<1>2. PICK t \in Seq(Handler) : t = Tail(ready)
  BY <1>0, TailOf
<1>3. PICK a : a = Aborts(order)
  OBVIOUS
<1>4. /\ DOMAIN order = 1..n
      /\ \A k \in 1..n :
           /\ a[k].run = "read" /\ a[k].conn \in Conns /\ phase[a[k].conn] = "reading"
           /\ ~ReadQueued(a[k].conn)
      /\ \A j, k \in 1..n : a[j].conn = a[k].conn => j = k
  <2>1. /\ DOMAIN order = 1..n
        /\ \A k \in 1..n :
             /\ tasks[order[k]].conn \in Conns /\ phase[tasks[order[k]].conn] = "reading"
             /\ ~ReadQueued(tasks[order[k]].conn)
        /\ \A j, k \in 1..n : tasks[order[j]].conn = tasks[order[k]].conn => j = k
    BY <1>1, AbortsAreNew
  <2>2. \A k \in 1..n : a[k].run = "read" /\ a[k].conn = tasks[order[k]].conn
    <3>1. TAKE k \in 1..n
    <3>2. k \in DOMAIN order
      BY <2>1
    <3>3. Aborts(order)[k].run = "read" /\ Aborts(order)[k].conn = tasks[order[k]].conn
      BY <3>2, AbortsField
    <3> QED
      BY <1>3, <3>3
  <2> QED
    BY <2>1, <2>2
<1>5. a \in Seq(Handler) /\ Len(a) = n
  <2>1. \A k \in 1..n : [run |-> "read", conn |-> tasks[order[k]].conn, got |-> "aborted"] \in Handler
    <3>1. \A k \in 1..n : tasks[order[k]].conn \in Conns
      BY <1>1, <1>4, AbortsAreNew
    <3> QED
      BY <3>1 DEF Handler
  <2>2. a \in [1..n -> Handler]
    BY <1>3, <1>4, <2>1 DEF Aborts
  <2>3. PICK m \in Nat : m = n
    BY <1>1
  <2>4. PICK b : b = a
    OBVIOUS
  <2>5. b \in [1..m -> Handler]
    BY <2>2, <2>3, <2>4
  <2>6. b \in Seq(Handler) /\ Len(b) = m
    BY <2>3, <2>5
  <2> QED
    BY <2>3, <2>4, <2>6
<1>6. ready' = t \o a /\ ready' \in Seq(Handler)
  BY <1>2, <1>3, <1>5
<1>7. /\ \A k \in DOMAIN ready' :
           \/ k \in DOMAIN t /\ ready'[k] = t[k]
           \/ k - Len(t) \in 1..n /\ ready'[k] = a[k - Len(t)]
      /\ \A k \in DOMAIN t : k \in DOMAIN ready' /\ ready'[k] = t[k]
      /\ DOMAIN ready' \subseteq Nat /\ Len(t) \in Nat
  BY <1>1, <1>2, <1>5, <1>6
<1>8. /\ \A k \in DOMAIN t : k + 1 \in DOMAIN ready /\ t[k] = ready[k + 1]
      /\ \A k \in DOMAIN ready : k # 1 => k - 1 \in DOMAIN t /\ t[k - 1] = ready[k]
      /\ Head(ready) = ready[1]
  BY <1>0, <1>2, TailOf
<1>9. \A k \in DOMAIN t :
        /\ t[k].run = "start" => phase[t[k].conn] = "posted"
        /\ t[k].run = "read" => phase[t[k].conn] = "reading" /\ ReadQueued(t[k].conn)
        /\ t[k].run \in {"start", "read", "tick"}
  <2>1. \A k \in DOMAIN ready : ready[k] \in Handler
    BY <1>0
  <2> QED
    BY <1>0, <1>8, <2>1, HandlerFields DEF QueueOK, ReadQueued
<1>10. \A k \in DOMAIN ready' :
        /\ ready'[k].run = "start" => phase[ready'[k].conn] = "posted"
        /\ ready'[k].run = "read" => phase[ready'[k].conn] = "reading"
  <2>1. TAKE k \in DOMAIN ready'
  <2>2. CASE k \in DOMAIN t /\ ready'[k] = t[k]
    BY <1>9, <2>2
  <2>3. CASE k - Len(t) \in 1..n /\ ready'[k] = a[k - Len(t)]
    <3>1. PICK x \in 1..n : ready'[k] = a[x]
      BY <2>3
    <3>2. a[x].run = "read" /\ phase[a[x].conn] = "reading"
      BY <1>4
    <3> QED
      BY <3>1, <3>2
  <2> QED
    BY <1>7, <2>2, <2>3
<1>11. ASSUME NEW j \in DOMAIN ready', NEW k \in DOMAIN ready',
              ready'[j].run # "tick", ready'[k].run # "tick", ready'[j].conn = ready'[k].conn
       PROVE  j = k
  <2>1. \A x \in DOMAIN t, y \in 1..n : t[x].run # "tick" => t[x].conn # a[y].conn
    BY <1>4, <1>9
  <2>2. CASE j \in DOMAIN t /\ ready'[j] = t[j]
    <3>1. k \in DOMAIN t /\ ready'[k] = t[k]
      BY <1>7, <1>11, <2>1, <2>2
    <3>2. j + 1 = k + 1
      BY <1>0, <1>8, <1>11, <2>2, <3>1 DEF QueueOK
    <3> QED
      BY <1>7, <3>2
  <2>3. CASE j - Len(t) \in 1..n /\ ready'[j] = a[j - Len(t)]
    <3>1. k - Len(t) \in 1..n /\ ready'[k] = a[k - Len(t)]
      BY <1>7, <1>11, <2>1, <2>3
    <3>2. j - Len(t) = k - Len(t)
      BY <1>4, <1>11, <2>3, <3>1
    <3> QED
      BY <1>7, <3>2
  <2> QED
    BY <1>7, <2>2, <2>3
<1>12. QueueOK'
  BY <1>10, <1>11 DEF QueueOK
<1>13. ASSUME NEW d \in Conns, ReadQueued(d) PROVE ReadQueued(d)'
  <2>1. PICK k \in DOMAIN ready : ready[k].run = "read" /\ ready[k].conn = d
    BY <1>13 DEF ReadQueued
  <2>2. k # 1
    BY <1>8, <2>1
  <2>3. k - 1 \in DOMAIN ready' /\ ready'[k - 1] = ready[k]
    BY <1>7, <1>8, <2>2
  <2> QED
    BY <2>1, <2>3 DEF ReadQueued
<1> QED
  BY <1>6, <1>12, <1>13

LEMMA TickStep ==
    ASSUME ConnInv, ready # <<>>, Head(ready).run = "tick", RunTick
    PROVE  ConnInv'
<1>0. /\ TypeOK /\ QueueOK /\ DeadlineIsOwn /\ NumbersBelow /\ NumbersUniqueBetweenResets
      /\ OnlyReuseLosesDeadlines
      /\ task_id \in [Conns -> Nat] /\ highest_id \in Nat /\ DOMAIN tasks \subseteq 1..highest_id
      /\ era \in [now : Nat, of : [Conns -> Nat]]
  BY DEF ConnInv, TypeOK
<1>1. /\ isOpen' = [c \in Conns |-> isOpen[c] /\ \A i \in DueIds : tasks[i].conn # c]
      /\ highest_id' = (IF DOMAIN tasks' = {} THEN 0 ELSE highest_id)
      /\ era' = (IF DOMAIN tasks' = {} /\ highest_id > 0 THEN [era EXCEPT !.now = era.now + 1] ELSE era)
      /\ UNCHANGED <<phase, task_id, arrivals, robbed>>
  BY DEF RunTick
<1>2. /\ DOMAIN tasks' = DOMAIN tasks \ DueIds
      /\ \A i \in DOMAIN tasks' : tasks'[i] = tasks[i]
  BY DEF RunTick, Without
<1>3. /\ QueueOK' /\ ready' \in Seq(Handler)
      /\ \A d \in Conns : ReadQueued(d) => ReadQueued(d)'
  BY <1>1, TickKeepsQueue DEF RunTick
<1>4. /\ era' \in [now : Nat, of : [Conns -> Nat]] /\ era'.of = era.of
      /\ era'.now = era.now \/ (era'.now = era.now + 1)
      /\ era'.now = era.now => highest_id' = highest_id
  BY <1>0, <1>1, SMTT(30)
<1>5. highest_id' \in Nat /\ DOMAIN tasks' \subseteq 1..highest_id'
  BY <1>0, <1>1, <1>2
<1>6. TypeOK'
  <2>1. isOpen' \in [Conns -> BOOLEAN]
    BY <1>1
  <2>2. \A i \in DOMAIN tasks' : tasks'[i] \in [conn : Conns, due : BOOLEAN]
    BY <1>0, <1>2 DEF TypeOK
  <2> QED
    BY <1>0, <1>1, <1>3, <1>4, <1>5, <2>1, <2>2 DEF TypeOK
<1>7. DeadlineIsOwn'
  BY <1>0, <1>1, <1>2 DEF DeadlineIsOwn
<1>8. NumbersBelow'
  <2> SUFFICES ASSUME NEW c \in Conns
               PROVE  era.of[c] <= era'.now /\ (era.of[c] = era'.now => task_id[c] <= highest_id')
    BY <1>1, <1>4 DEF NumbersBelow
  <2>1. era.of[c] <= era.now /\ (era.of[c] = era.now => task_id[c] <= highest_id)
    BY <1>0 DEF NumbersBelow
  <2>2. era.of[c] \in Nat /\ era.now \in Nat
    BY <1>0
  <2> QED
    BY <1>4, <2>1, <2>2
<1>9. NumbersUniqueBetweenResets'
  BY <1>0, <1>1, <1>4 DEF NumbersUniqueBetweenResets
<1>10. ASSUME NEW d \in Conns, Waiting(d)'
       PROVE  HasDeadline(d)' \/ d \in robbed'
  <2>1. Waiting(d) /\ \A i \in DueIds : tasks[i].conn # d
    BY <1>1, <1>3, <1>10 DEF Waiting
  <2>2. HasDeadline(d) => HasDeadline(d)'
    BY <1>2, <2>1 DEF HasDeadline
  <2> QED
    BY <1>0, <1>1, <2>1, <2>2 DEF OnlyReuseLosesDeadlines
<1>11. OnlyReuseLosesDeadlines'
  BY <1>10 DEF OnlyReuseLosesDeadlines
<1> QED
  BY <1>3, <1>6, <1>7, <1>8, <1>9, <1>11 DEF ConnInv

LEMMA RunStep ==
    ASSUME ConnInv, Run
    PROVE  ConnInv'
<1>0. /\ TypeOK /\ QueueOK /\ ready \in Seq(Handler) /\ ready # <<>>
      /\ phase \in [Conns -> {"new", "posted", "reading", "gone"}]
  BY DEF ConnInv, TypeOK, Run
<1>1. Head(ready) \in Handler /\ Head(ready) = ready[1] /\ 1 \in DOMAIN ready
  BY <1>0, TailOf
<1>2. CASE Head(ready).run = "tick"
  BY <1>0, <1>2, TickStep DEF Run
<1>3. CASE Head(ready).run # "tick"
  <2>1. PICK c \in Conns : c = Head(ready).conn
    BY <1>1, <1>3, HandlerFields
  <2>2. CASE Head(ready).run = "start"
    <3>1. RunStart(c)
      BY <2>1, <2>2 DEF Run
    <3>2. /\ phase' = [phase EXCEPT ![c] = "reading"] /\ StartDeadline(c)
          /\ ready' = Tail(ready) /\ UNCHANGED <<isOpen, arrivals>>
      BY <3>1 DEF RunStart
    <3>3. /\ phase' \in [Conns -> {"new", "posted", "reading", "gone"}]
          /\ phase'[c] = "reading" /\ \A d \in Conns \ {c} : phase'[d] = phase[d]
      BY <1>0, <3>2
    <3> QED
      BY <1>0, <1>3, <2>1, <3>2, <3>3, ReadsFromNow
  <2>3. CASE Head(ready).run = "read"
    <3>1. PICK got : RunRead(c, got)
      BY <2>1, <2>3 DEF Run
    <3>2. phase[c] = "reading"
      BY <1>0, <1>1, <2>1, <2>3 DEF QueueOK
    <3>3. CASE GoOn(c)
      <4>1. StartDeadline(c) /\ ready' = Tail(ready) /\ UNCHANGED <<phase, isOpen, arrivals>>
        BY <3>3 DEF GoOn
      <4> QED
        BY <1>0, <1>3, <2>1, <3>2, <4>1, ReadsFromNow
    <3>4. CASE Leave(c)
      BY <1>0, <2>1, <2>3, <3>4, LeaveStep
    <3> QED
      BY <3>1, <3>3, <3>4 DEF RunRead
  <2> QED
    BY <1>1, <1>3, <2>2, <2>3, HandlerFields
<1> QED
  BY <1>2, <1>3

LEMMA InitConnInv == Init => ConnInv
<1> SUFFICES ASSUME Init PROVE ConnInv
  OBVIOUS
<1>1. ready = <<>> /\ DOMAIN tasks = {} /\ DOMAIN ready = {} /\ ready \in Seq(Handler)
  BY DEF Init
<1>2. TypeOK
  BY <1>1, CrowConnectionAssumption DEF Init, TypeOK
<1>3. QueueOK /\ DeadlineIsOwn
  BY <1>1 DEF QueueOK, DeadlineIsOwn
<1>4. NumbersBelow /\ NumbersUniqueBetweenResets
  BY DEF Init, NumbersBelow, NumbersUniqueBetweenResets
<1>5. OnlyReuseLosesDeadlines
  BY DEF Init, OnlyReuseLosesDeadlines, Waiting
<1> QED
  BY <1>2, <1>3, <1>4, <1>5 DEF ConnInv

LEMMA ConnStep == ConnInv /\ [Next]_connVars => ConnInv'
<1> SUFFICES ASSUME ConnInv, [Next]_connVars PROVE ConnInv'
  OBVIOUS
<1>1. CASE UNCHANGED connVars
  BY <1>1 DEF connVars, ConnInv, TypeOK, QueueOK, DeadlineIsOwn, NumbersBelow,
              NumbersUniqueBetweenResets, OnlyReuseLosesDeadlines, Waiting, HasDeadline, ReadQueued
<1> QED
  BY <1>1, FallDueStep, TickExpiresStep, PostStep, ArriveStep, RunStep DEF Next

LEMMA ConnInvHolds == Spec => []ConnInv
  BY InitConnInv, ConnStep, PTL DEF Spec

\* Queue, sockets, phases and the timer's map of a worker keep their types.
THEOREM ConnectionTypeCorrect == Spec => []TypeOK
<1>1. ConnInv => TypeOK
  BY DEF ConnInv
<1> QED
  BY <1>1, ConnInvHolds, PTL

\* task_timer never closes a connection by a deadline of another, or by one the
\* connection set before its last; only the reset of its numbers lets two
\* connections hold the same one; and a connection waits without a deadline
\* only if another one, holding the same number, called it off: nothing else in
\* start, read, error or tick loses it.
THEOREM DeadlinesStayWithTheirOwners == Spec => []DeadlinesAreOwn
<1>1. ConnInv => DeadlinesAreOwn
  BY DEF ConnInv, DeadlinesAreOwn
<1> QED
  BY <1>1, ConnInvHolds, PTL

-----------------------------------------------------------------------------
(* The tables                                                              *)

\* The tables in front of the n-th statement of p are there.
Has(s, p, n) ==
    \A i \in DOMAIN TablesOf(p) : i < n => s[TablesOf(p)[i]] # "absent"

Complete(s) == \A t \in Tables : s[t] # "absent"

\* A server or menu that came as far as its n-th statement has executed the ones
\* before it, and init_db too if it is clean: at its end, all of them.
SchemaInv ==
    /\ SchemaTypeOK
    /\ at \in [Creators -> Nat]
    /\ \A p \in {"server", "menu"} : Has(schema, p, at[p])
    /\ clean => Has(schema, "init_db", at["init_db"])
    /\ clean /\ at["init_db"] = 0 => Complete(schema)
    /\ ServerHasItsTables
    /\ InitCompletesSchema

\* The statements of the three programs.
LEMMA StatementsAre ==
    /\ \A p \in Creators : /\ Len(TablesOf(p)) \in Nat \ {0}
                           /\ DOMAIN TablesOf(p) = 1..Len(TablesOf(p))
                           /\ \A i \in DOMAIN TablesOf(p) : TablesOf(p)[i] \in Tables
                           /\ UpAt(p) = Len(TablesOf(p)) + 1
    /\ \A t \in Tables : \E i \in DOMAIN TablesOf("init_db") : TablesOf("init_db")[i] = t
    /\ {"Regions", "Customers"} \subseteq Tables
    /\ \A t \in {"Regions", "Customers"} :
          \E i \in DOMAIN TablesOf("server") : TablesOf("server")[i] = t
<1>1. /\ TablesOf("init_db") = AllTables
      /\ TablesOf("server") = <<"Regions", "Customers">>
      /\ TablesOf("menu") = <<"Customers">>
  BY DEF TablesOf
<1>2. Len(AllTables) = 9 /\ DOMAIN AllTables = 1..9
  BY DEF AllTables
<1>3. /\ DOMAIN <<"Regions", "Customers">> = 1..2 /\ Len(<<"Regions", "Customers">>) = 2
      /\ DOMAIN <<"Customers">> = 1..1 /\ Len(<<"Customers">>) = 1
  OBVIOUS
<1>4. AllTables[1] = "Regions" /\ AllTables[2] = "Customers"
  BY DEF AllTables
<1>5. "Regions" \in Tables /\ "Customers" \in Tables
  BY <1>2, <1>4 DEF Tables
<1>6. /\ <<"Regions", "Customers">>[1] = "Regions" /\ <<"Regions", "Customers">>[2] = "Customers"
      /\ <<"Customers">>[1] = "Customers"
  OBVIOUS
<1>7. ASSUME NEW p \in Creators
      PROVE  /\ Len(TablesOf(p)) \in Nat \ {0}
             /\ DOMAIN TablesOf(p) = 1..Len(TablesOf(p))
             /\ \A i \in DOMAIN TablesOf(p) : TablesOf(p)[i] \in Tables
             /\ UpAt(p) = Len(TablesOf(p)) + 1
  <2>1. CASE p = "init_db"
    <3>1. TablesOf(p) = AllTables
      BY <1>1, <2>1
    <3>2. UpAt(p) = Len(TablesOf(p)) + 1
      BY DEF UpAt
    <3>3. \A i \in DOMAIN AllTables : AllTables[i] \in Tables
      BY DEF Tables
    <3>4. Len(TablesOf(p)) = 9
      BY <1>2, <3>1, Zenon
    <3>5. DOMAIN TablesOf(p) = 1..Len(TablesOf(p))
      BY <1>2, <3>1, Zenon
    <3>6. \A i \in DOMAIN TablesOf(p) : TablesOf(p)[i] \in Tables
      BY <3>1, <3>3, Zenon
    <3>7. Len(TablesOf(p)) \in Nat \ {0}
      BY <3>4
    <3> QED
      BY <3>2, <3>5, <3>6, <3>7
  <2>2. CASE p = "server"
    BY <1>1, <1>3, <1>5, <1>6, <2>2 DEF UpAt
  <2>3. CASE p = "menu"
    BY <1>1, <1>3, <1>5, <1>6, <2>3 DEF UpAt
  <2> QED
    BY <2>1, <2>2, <2>3 DEF Creators
<1>8. \A t \in Tables : \E i \in DOMAIN TablesOf("init_db") : TablesOf("init_db")[i] = t
  BY <1>1 DEF Tables
<1>9. \A t \in {"Regions", "Customers"} :
         \E i \in DOMAIN TablesOf("server") : TablesOf("server")[i] = t
  BY <1>1, <1>3, <1>6
<1> QED
  BY <1>5, <1>7, <1>8, <1>9

\* CREATE TABLE IF NOT EXISTS makes its table and leaves what is there.
LEMMA CreatedIs ==
    ASSUME NEW p \in Creators, NEW t \in Tables, schema \in [Tables -> Definitions],
           NEW s, s = Created(p, t)
    PROVE  /\ s \in [Tables -> Definitions]
           /\ s[t] # "absent"
           /\ \A u \in Tables : schema[u] # "absent" => s[u] = schema[u]
<1>1. DefinitionBy(p) \in Definitions \ {"absent"}
  BY DEF DefinitionBy, Definitions
<1> QED
  BY <1>1 DEF Created, Definitions

\* Who has run all its statements has all its tables.
LEMMA HasAll ==
    ASSUME NEW s
    PROVE  /\ Has(s, "init_db", UpAt("init_db")) => Complete(s)
           /\ Has(s, "server", UpAt("server")) => s["Regions"] # "absent" /\ s["Customers"] # "absent"
<1>1. "init_db" \in Creators /\ "server" \in Creators
  BY DEF Creators
<1>2. ASSUME NEW p \in Creators, NEW i \in DOMAIN TablesOf(p) PROVE i < UpAt(p)
  <2>1. Len(TablesOf(p)) \in Nat /\ i \in 1..Len(TablesOf(p)) /\ UpAt(p) = Len(TablesOf(p)) + 1
    BY StatementsAre
  <2> QED
    BY <2>1
<1>3. ASSUME Has(s, "init_db", UpAt("init_db")) PROVE Complete(s)
  BY <1>1, <1>2, <1>3, StatementsAre DEF Has, Complete
<1>4. ASSUME Has(s, "server", UpAt("server"))
      PROVE  s["Regions"] # "absent" /\ s["Customers"] # "absent"
  BY <1>1, <1>2, <1>4, StatementsAre DEF Has
<1> QED
  BY <1>3, <1>4

\* s lets every table of r be what it is.
Keeps(r, s) == \A u \in Tables : r[u] # "absent" => s[u] = r[u]

\* What a program has done stays done.
LEMMA HasStays ==
    ASSUME NEW r, NEW s, Keeps(r, s)
    PROVE  /\ \A p \in Creators : \A n : Has(r, p, n) => Has(s, p, n)
           /\ Complete(r) => Complete(s)
<1>1. ASSUME NEW p \in Creators, NEW n, Has(r, p, n)
      PROVE  Has(s, p, n)
  <2> SUFFICES ASSUME NEW i \in DOMAIN TablesOf(p), i < n
               PROVE  s[TablesOf(p)[i]] # "absent"
    BY DEF Has
  <2>1. r[TablesOf(p)[i]] # "absent" /\ TablesOf(p)[i] \in Tables
    BY <1>1, StatementsAre DEF Has
  <2> QED
    BY <2>1 DEF Keeps
<1>2. ASSUME Complete(r) PROVE Complete(s)
  BY <1>2 DEF Complete, Keeps
<1> QED
  BY <1>1, <1>2

\* A step that is no answer keeps the invariant when every program has the
\* tables of its statements behind it.
LEMMA QuietStep ==
    ASSUME SchemaInv, NoReply, schema' \in [Tables -> Definitions],
           at' \in [Creators -> Nat], \A p \in Creators : at'[p] \in 0..UpAt(p),
           starts' \in [Creators -> 0..MaxStarts], busy' \in 0..MaxBusy, clean' \in BOOLEAN,
           \A p \in {"server", "menu"} : Has(schema', p, at'[p]),
           clean' => Has(schema', "init_db", at'["init_db"]),
           clean' /\ at'["init_db"] = 0 => Complete(schema')
    PROVE  SchemaInv'
<1>1. ServerHasItsTables' /\ answer' = NoAnswer /\ answer'.code \in {"none", "data"}
  BY DEF NoReply, NoAnswer, ServerHasItsTables
<1>2. SchemaTypeOK'
  BY <1>1 DEF SchemaTypeOK
<1>3. clean' /\ at'["init_db"] \in {0, UpAt("init_db")} => Complete(schema')
  BY HasAll
<1>4. InitCompletesSchema'
  BY <1>1, <1>3 DEF InitCompletesSchema, Complete
<1> QED
  BY <1>1, <1>2, <1>4 DEF SchemaInv

LEMMA StartStep ==
    ASSUME SchemaInv, NEW p \in Creators, StartCreator(p)
    PROVE  SchemaInv'
<1>1. /\ at \in [Creators -> Nat] /\ starts \in [Creators -> 0..MaxStarts]
      /\ schema \in [Tables -> Definitions] /\ busy \in 0..MaxBusy /\ clean \in BOOLEAN
      /\ \A c \in Creators : at[c] \in 0..UpAt(c)
      /\ MaxStarts \in Nat
  BY SchemaBootstrapAssumption DEF SchemaInv, SchemaTypeOK
<1>2. /\ NoReply /\ schema' = schema /\ busy' = busy /\ clean' = (clean \/ p = "init_db")
      /\ starts[p] < MaxStarts
      /\ starts' = [starts EXCEPT ![p] = starts[p] + 1] /\ at' = [at EXCEPT ![p] = 1]
  BY DEF StartCreator
<1>3. starts' \in [Creators -> 0..MaxStarts]
  BY <1>1, <1>2
<1>4. /\ at' \in [Creators -> Nat] /\ at'[p] = 1
      /\ \A c \in Creators \ {p} : at'[c] = at[c]
  BY <1>1, <1>2
<1>5. \A c \in Creators : at'[c] \in 0..UpAt(c)
  <2>1. Len(TablesOf(p)) \in Nat /\ UpAt(p) = Len(TablesOf(p)) + 1
    BY StatementsAre
  <2>2. at'[p] \in 0..UpAt(p)
    BY <1>4, <2>1
  <2> QED
    BY <1>1, <1>4, <2>2
<1>6. \A c \in Creators : Has(schema, c, 1)
  BY StatementsAre DEF Has
<1>7. \A c \in {"server", "menu"} : Has(schema', c, at'[c])
  BY <1>2, <1>4, <1>6 DEF SchemaInv, Creators
<1>8. clean' => Has(schema', "init_db", at'["init_db"])
  BY <1>2, <1>4, <1>6 DEF SchemaInv, Creators
<1>9. clean' /\ at'["init_db"] = 0 => Complete(schema')
  <2>1. CASE p = "init_db"
    BY <1>4, <2>1
  <2>2. CASE p # "init_db"
    BY <1>2, <1>4, <2>2 DEF SchemaInv, Creators
  <2> QED
    BY <2>1, <2>2
<1> QED
  BY <1>1, <1>2, <1>3, <1>4, <1>5, <1>7, <1>8, <1>9, QuietStep

\* A program at its next statement.
LEMMA NextIs ==
    ASSUME SchemaInv, NEW p \in Creators, at[p] \in DOMAIN TablesOf(p), at' = [at EXCEPT ![p] = at[p] + 1]
    PROVE  /\ at' \in [Creators -> Nat] /\ \A c \in Creators : at'[c] \in 0..UpAt(c)
           /\ at'[p] = at[p] + 1 /\ at'[p] # 0
           /\ \A c \in Creators \ {p} : at'[c] = at[c]
<1>1. at \in [Creators -> Nat] /\ \A c \in Creators : at[c] \in 0..UpAt(c)
  BY DEF SchemaInv, SchemaTypeOK
<1>2. Len(TablesOf(p)) \in Nat /\ at[p] \in 1..Len(TablesOf(p)) /\ UpAt(p) = Len(TablesOf(p)) + 1
  BY StatementsAre
<1> QED
  BY <1>1, <1>2

LEMMA CreateStep ==
    ASSUME SchemaInv, NEW p \in Creators, Create(p)
    PROVE  SchemaInv' /\ Keeps(schema, schema')
<1>1. /\ at \in [Creators -> Nat] /\ starts \in [Creators -> 0..MaxStarts]
      /\ schema \in [Tables -> Definitions] /\ busy \in 0..MaxBusy /\ clean \in BOOLEAN
  BY DEF SchemaInv, SchemaTypeOK
<1>2. /\ NoReply /\ starts' = starts /\ busy' = busy /\ clean' = clean
      /\ at[p] \in DOMAIN TablesOf(p) /\ at' = [at EXCEPT ![p] = at[p] + 1]
      /\ schema' = Created(p, TablesOf(p)[at[p]])
  BY DEF Create
<1>3. /\ at' \in [Creators -> Nat] /\ \A c \in Creators : at'[c] \in 0..UpAt(c)
      /\ at'[p] = at[p] + 1 /\ at'[p] # 0
      /\ \A c \in Creators \ {p} : at'[c] = at[c]
  BY <1>2, NextIs
<1>4. TablesOf(p)[at[p]] \in Tables
  BY <1>2, StatementsAre
<1>5. /\ schema' \in [Tables -> Definitions]
      /\ schema'[TablesOf(p)[at[p]]] # "absent"
      /\ Keeps(schema, schema')
  BY <1>1, <1>2, <1>4, CreatedIs DEF Keeps
<1>6. Has(schema, p, at[p]) => Has(schema', p, at'[p])
  <2> SUFFICES ASSUME Has(schema, p, at[p]), NEW i \in DOMAIN TablesOf(p), i < at[p] + 1
               PROVE  schema'[TablesOf(p)[i]] # "absent"
    BY <1>3 DEF Has
  <2>1. i \in Nat /\ at[p] \in Nat
    BY <1>1, StatementsAre
  <2>2. CASE i = at[p]
    BY <1>5, <2>2
  <2>3. CASE i < at[p]
    <3>1. Has(schema', p, at[p])
      BY <1>5, HasStays
    <3> QED
      BY <2>3, <3>1 DEF Has
  <2> QED
    BY <2>1, <2>2, <2>3
<1>7. \A c \in Creators \ {p} : Has(schema, c, at[c]) => Has(schema', c, at'[c])
  BY <1>3, <1>5, HasStays
<1>8. \A c \in Creators : Has(schema, c, at[c]) => Has(schema', c, at'[c])
  BY <1>6, <1>7
<1>9. \A c \in {"server", "menu"} : Has(schema', c, at'[c])
  BY <1>8 DEF SchemaInv, Creators
<1>10. clean' => Has(schema', "init_db", at'["init_db"])
  BY <1>2, <1>8 DEF SchemaInv, Creators
<1>11. clean' /\ at'["init_db"] = 0 => Complete(schema')
  <2>1. clean /\ at["init_db"] = 0 => Complete(schema')
    BY <1>5, HasStays DEF SchemaInv
  <2> QED
    BY <1>2, <1>3, <2>1 DEF Creators
<1> QED
  BY <1>1, <1>2, <1>3, <1>5, <1>9, <1>10, <1>11, QuietStep

LEMMA RefusedStep ==
    ASSUME SchemaInv, NEW p \in Creators, CreateRefused(p)
    PROVE  SchemaInv'
<1>1. /\ at \in [Creators -> Nat] /\ starts \in [Creators -> 0..MaxStarts]
      /\ schema \in [Tables -> Definitions] /\ busy \in 0..MaxBusy /\ clean \in BOOLEAN
      /\ \A c \in Creators : at[c] \in 0..UpAt(c)
      /\ MaxBusy \in Nat
  BY SchemaBootstrapAssumption DEF SchemaInv, SchemaTypeOK
<1>2. /\ NoReply /\ schema' = schema /\ starts' = starts /\ clean' = (clean /\ p # "init_db")
      /\ busy < MaxBusy /\ busy' = busy + 1
      /\ at[p] \in DOMAIN TablesOf(p) /\ at' = [at EXCEPT ![p] = AfterRefusal(p)]
  BY DEF CreateRefused
<1>3. busy' \in 0..MaxBusy
  BY <1>1, <1>2
<1>4. /\ at' \in [Creators -> Nat] /\ \A c \in Creators : at'[c] \in 0..UpAt(c)
      /\ p # "init_db" => at'[p] = 0
      /\ \A c \in Creators \ {p} : at'[c] = at[c]
  <2>1. CASE p = "init_db"
    <3>1. at' = [at EXCEPT ![p] = at[p] + 1]
      BY <1>2, <2>1 DEF AfterRefusal
    <3> QED
      BY <1>2, <2>1, <3>1, NextIs
  <2>2. CASE p # "init_db"
    <3>1. at' = [at EXCEPT ![p] = 0]
      BY <1>2, <2>2 DEF AfterRefusal
    <3>2. \A c \in Creators : 0 \in 0..UpAt(c)
      BY StatementsAre
    <3> QED
      BY <1>1, <3>1, <3>2
  <2> QED
    BY <2>1, <2>2
<1>5. \A c \in Creators : Has(schema, c, 0)
  BY StatementsAre DEF Has
<1>6. \A c \in {"server", "menu"} : Has(schema', c, at'[c])
  BY <1>2, <1>4, <1>5 DEF SchemaInv, Creators
<1>7. clean' => Has(schema', "init_db", at'["init_db"])
  BY <1>2, <1>4 DEF SchemaInv, Creators
<1>8. clean' /\ at'["init_db"] = 0 => Complete(schema')
  BY <1>2, <1>4 DEF SchemaInv, Creators
<1> QED
  BY <1>1, <1>2, <1>3, <1>4, <1>6, <1>7, <1>8, QuietStep

LEMMA StopStep ==
    ASSUME SchemaInv, NEW p \in Creators, StopCreator(p)
    PROVE  SchemaInv'
<1>1. /\ at \in [Creators -> Nat] /\ starts \in [Creators -> 0..MaxStarts]
      /\ schema \in [Tables -> Definitions] /\ busy \in 0..MaxBusy /\ clean \in BOOLEAN
      /\ \A c \in Creators : at[c] \in 0..UpAt(c)
  BY DEF SchemaInv, SchemaTypeOK
<1>2. /\ NoReply /\ schema' = schema /\ starts' = starts /\ busy' = busy
      /\ clean' = (clean /\ (p = "init_db" => Up(p)))
      /\ at' = [at EXCEPT ![p] = 0]
  BY DEF StopCreator
<1>3. \A c \in Creators : 0 \in 0..UpAt(c)
  BY StatementsAre
<1>4. /\ at' \in [Creators -> Nat] /\ \A c \in Creators : at'[c] \in 0..UpAt(c)
      /\ at'[p] = 0
      /\ \A c \in Creators \ {p} : at'[c] = at[c]
  BY <1>1, <1>2, <1>3
<1>5. \A c \in Creators : Has(schema, c, 0)
  BY StatementsAre DEF Has
<1>6. \A c \in {"server", "menu"} : Has(schema', c, at'[c])
  BY <1>2, <1>4, <1>5 DEF SchemaInv, Creators
<1>7. clean' => Has(schema', "init_db", at'["init_db"])
  BY <1>2, <1>4, <1>5 DEF SchemaInv, Creators
<1>8. clean' /\ at'["init_db"] = 0 => Complete(schema')
  <2>1. CASE p = "init_db"
    BY <1>2, <2>1, HasAll DEF SchemaInv, Up
  <2>2. CASE p # "init_db"
    BY <1>2, <1>4, <2>2 DEF SchemaInv, Creators
  <2> QED
    BY <2>1, <2>2
<1> QED
  BY <1>1, <1>2, <1>4, <1>6, <1>7, <1>8, QuietStep

LEMMA AskStep ==
    ASSUME SchemaInv, Ask
    PROVE  SchemaInv'
<1>1. PICK route \in ApiRoutes : answer' = [route |-> route, code |-> CodeOf(route)]
  BY DEF Ask
<1>2. /\ schema' = schema /\ at' = at /\ starts' = starts /\ busy' = busy /\ clean' = clean
      /\ at["server"] = UpAt("server")
  BY DEF Ask, Up
<1>3. PICK code : code = CodeOf(route)
  OBVIOUS
<1>4. code \in {"data", "empty", "error"}
  <2>1. CASE \A t \in Needs(route) : schema[t] # "absent"
    BY <1>3, <2>1 DEF CodeOf
  <2>2. CASE ~ \A t \in Needs(route) : schema[t] # "absent"
    <3>1. CASE route \in Refusing
      BY <1>3, <2>2, <3>1 DEF CodeOf
    <3>2. CASE route \notin Refusing
      BY <1>3, <2>2, <3>2 DEF CodeOf
    <3> QED
      BY <3>1, <3>2
  <2> QED
    BY <2>1, <2>2
<1>5. answer' \in [route : ApiRoutes, code : {"data", "empty", "error"}]
  BY <1>1, <1>3, <1>4
<1>6. answer'.route = route /\ answer'.code = code
  BY <1>1, <1>3
<1>7. (\A t \in Needs(route) : schema[t] # "absent") => code = "data"
  BY <1>3 DEF CodeOf
<1>8. schema["Regions"] # "absent" /\ schema["Customers"] # "absent"
  BY <1>2, HasAll DEF SchemaInv
<1>9. route \in {"customers", "regions", "addCustomer", "deleteCustomer"} =>
         Needs(route) \subseteq {"Regions", "Customers"}
  <2>1. /\ Needs("customers") = {"Customers"} /\ Needs("regions") = {"Regions"}
        /\ Needs("addCustomer") = {"Customers"} /\ Needs("deleteCustomer") = {"Customers"}
    BY DEF Needs
  <2> QED
    BY <2>1
<1>10. ServerHasItsTables'
  BY <1>6, <1>7, <1>8, <1>9 DEF ServerHasItsTables
<1>11. Needs(route) \subseteq Tables
  <2>1. {"Regions", "Customers", "Bills", "Energy_Usage", "Energy_Types", "Imports_Exports"} \subseteq Tables
    <3>1. /\ DOMAIN AllTables = 1..9
          /\ AllTables[1] = "Regions" /\ AllTables[2] = "Customers" /\ AllTables[3] = "Energy_Types"
          /\ AllTables[4] = "Energy_Usage" /\ AllTables[5] = "Bills" /\ AllTables[6] = "Imports_Exports"
      BY DEF AllTables
    <3> QED
      BY <3>1 DEF Tables
  <2>2. Needs(route) \subseteq
           {"Regions", "Customers", "Bills", "Energy_Usage", "Energy_Types", "Imports_Exports"}
    BY DEF Needs, ApiRoutes, Refusing
  <2> QED
    BY <2>1, <2>2
<1>12. InitCompletesSchema'
  BY <1>2, <1>6, <1>7, <1>11 DEF SchemaInv, InitCompletesSchema
<1>13. SchemaTypeOK'
  BY <1>2, <1>5 DEF SchemaInv, SchemaTypeOK
<1> QED
  BY <1>2, <1>10, <1>12, <1>13 DEF SchemaInv

LEMMA SchemaStep ==
    ASSUME SchemaInv, [SchemaNext]_schemaVars
    PROVE  SchemaInv' /\ Keeps(schema, schema')
<1>1. CASE SchemaNext
  <2>1. ASSUME NEW p \in Creators, StartCreator(p) \/ CreateRefused(p) \/ StopCreator(p)
        PROVE  schema' = schema
    BY <2>1 DEF StartCreator, CreateRefused, StopCreator
  <2>2. Ask => schema' = schema
    BY DEF Ask
  <2> QED
    BY <1>1, <2>1, <2>2, StartStep, CreateStep, RefusedStep, StopStep, AskStep DEF SchemaNext, Keeps
<1>2. CASE UNCHANGED schemaVars
  BY <1>2 DEF schemaVars, SchemaInv, SchemaTypeOK, ServerHasItsTables, InitCompletesSchema, Keeps
<1> QED
  BY <1>1, <1>2

LEMMA SchemaInvHolds == SchemaSpec => []SchemaInv
<1>1. SchemaInit => SchemaInv
  <2> SUFFICES ASSUME SchemaInit PROVE SchemaInv
    OBVIOUS
  <2>1. at \in [Creators -> Nat] /\ \A p \in Creators : at[p] = 0
    BY DEF SchemaInit
  <2>2. answer = NoAnswer /\ answer.route = "none" /\ clean = FALSE
    BY DEF SchemaInit, NoAnswer
  <2>3. SchemaTypeOK
    <3>1. schema \in [Tables -> Definitions]
      BY DEF SchemaInit, Definitions
    <3>2. \A p \in Creators : at[p] \in 0..UpAt(p)
      <4>1. \A p \in Creators : 0 \in 0..UpAt(p)
        BY StatementsAre
      <4> QED
        BY <2>1, <4>1
    <3>zero. 0 \in 0..MaxStarts /\ 0 \in 0..MaxBusy
      BY SchemaBootstrapAssumption
    <3>none. starts \in [Creators -> 0..MaxStarts]
      BY <3>zero DEF SchemaInit
    <3>3. starts \in [Creators -> 0..MaxStarts] /\ busy \in 0..MaxBusy /\ clean \in BOOLEAN
      BY <2>2, <3>zero, <3>none DEF SchemaInit
    <3> QED
      BY <2>2, <3>1, <3>2, <3>3 DEF SchemaTypeOK
  <2>4. \A p \in Creators : Has(schema, p, 0)
    BY StatementsAre DEF Has
  <2> QED
    BY <2>1, <2>2, <2>3, <2>4 DEF SchemaInv, ServerHasItsTables, InitCompletesSchema, Creators
<1>2. SchemaInv /\ [SchemaNext]_schemaVars => SchemaInv'
  BY SchemaStep
<1> QED
  BY <1>1, <1>2, PTL DEF SchemaSpec

\* Every state of the bootstrap has its type, however the programs are started,
\* refused and stopped.
THEOREM SchemaTypeCorrect == SchemaSpec => []SchemaTypeOK
<1>1. SchemaInv => SchemaTypeOK
  BY DEF SchemaInv
<1> QED
  BY <1>1, SchemaInvHolds, PTL

\* CREATE TABLE IF NOT EXISTS, run by three programs in any order and as often as
\* they like: a server that answers has its tables, a clean run of init_db leaves
\* all of them, and the first CREATE TABLE of a table decides for good.
THEOREM TablesAreDecided == SchemaSpec => SchemaIsDecided
<1>1. SchemaInv => ServerHasItsTables /\ InitCompletesSchema
  BY DEF SchemaInv
<1>2. SchemaInv /\ [SchemaNext]_schemaVars =>
        [\A t \in Tables : schema[t] # "absent" => schema'[t] = schema[t]]_schemaVars
  BY SchemaStep DEF Keeps
<1> QED
  BY <1>1, <1>2, SchemaInvHolds, PTL DEF SchemaSpec, SchemaIsDecided, FirstCreatorDecides

-----------------------------------------------------------------------------
(* The rows of seed_imports_exports                                        *)

\* The rows of a type and a month.
RowsFor(t, mo) == {r \in flows : r.type = t /\ r.month = mo}

\* The two loops of the run under way have passed a type and month.
Passed(t, mo) == t < ie.type \/ (t = ie.type /\ mo < ie.month)

\* How many rows of a type and month there are after runs in which nothing was
\* refused and nobody was killed.
Expected(t, mo) == IF ie.pc = "rows" /\ ~Passed(t, mo) THEN ie.runs - 1 ELSE ie.runs

ImportsInv ==
    /\ ImportsTypeOK
    /\ ie.pc = "rows" => ie.runs > 0
    /\ IsFiniteSet(flows)
    /\ \A r \in flows : r.id <= Cardinality(flows)
    /\ ~ie.spoilt => \A t \in 1..NumTypes, mo \in 1..NumMonths :
                        Cardinality(RowsFor(t, mo)) = Expected(t, mo)

Progress ==
    [pc : {"idle", "rows", "done"}, type : 1..NumTypes, month : 1..NumMonths,
     runs : 0..MaxRuns, fails : 0..MaxFails, spoilt : BOOLEAN]

LEMMA OneIsThere == 1 \in 1..NumTypes /\ 1 \in 1..NumMonths
  BY ImportsExportsAssumption

\* The program at its next row.
LEMMA NextRowIs ==
    ASSUME NEW s \in Progress, s.pc = "rows", NEW n, n = NextRow(s)
    PROVE  /\ n \in Progress
           /\ n.runs = s.runs /\ n.fails = s.fails /\ (n.spoilt <=> s.spoilt)
           /\ n.pc \in {"rows", "done"}
           /\ n.pc = "rows" =>
                 \A t \in 1..NumTypes, mo \in 1..NumMonths :
                    (t < n.type \/ (t = n.type /\ mo < n.month)) <=>
                    (\/ t < s.type \/ (t = s.type /\ mo < s.month)
                     \/ t = s.type /\ mo = s.month)
           /\ n.pc = "done" =>
                 \A t \in 1..NumTypes, mo \in 1..NumMonths :
                    \/ t < s.type \/ (t = s.type /\ mo < s.month)
                    \/ t = s.type /\ mo = s.month
<1>0. /\ NumTypes \in Nat /\ NumMonths \in Nat
      /\ s.type \in 1..NumTypes /\ s.month \in 1..NumMonths
  BY ImportsExportsAssumption DEF Progress
<1>1. CASE s.month < NumMonths
  <2>1. n = [s EXCEPT !.month = s.month + 1] /\ s.month + 1 \in 1..NumMonths
    BY <1>0, <1>1 DEF NextRow
  <2>2. /\ n \in Progress /\ n.month = s.month + 1 /\ n.type = s.type /\ n.pc = "rows"
        /\ n.runs = s.runs /\ n.fails = s.fails /\ (n.spoilt <=> s.spoilt)
    BY <2>1 DEF Progress
  <2> QED
    BY <1>0, <2>2
<1>2. CASE ~(s.month < NumMonths) /\ s.type < NumTypes
  <2>1. n = [s EXCEPT !.type = s.type + 1, !.month = 1] /\ s.type + 1 \in 1..NumTypes
    BY <1>0, <1>2 DEF NextRow
  <2>2. PICK a : a = [s EXCEPT !.type = s.type + 1]
    OBVIOUS
  <2>3. /\ a \in Progress /\ a.type = s.type + 1 /\ a.pc = "rows"
        /\ a.runs = s.runs /\ a.fails = s.fails /\ (a.spoilt <=> s.spoilt)
    BY <2>1, <2>2 DEF Progress
  <2>4. n = [a EXCEPT !.month = 1]
    BY <2>1, <2>2
  <2>5. /\ n \in Progress /\ n.type = s.type + 1 /\ n.month = 1 /\ n.pc = "rows"
        /\ n.runs = s.runs /\ n.fails = s.fails /\ (n.spoilt <=> s.spoilt)
    BY <2>3, <2>4, OneIsThere DEF Progress
  <2>6. s.month = NumMonths
    BY <1>0, <1>2
  <2> QED
    BY <1>0, <2>5, <2>6
<1>3. CASE ~(s.month < NumMonths) /\ ~(s.type < NumTypes)
  <2>1. n = [s EXCEPT !.pc = "done", !.type = 1, !.month = 1]
    BY <1>3 DEF NextRow
  <2>2. PICK a : a = [s EXCEPT !.pc = "done"]
    OBVIOUS
  <2>3. /\ a \in Progress /\ a.pc = "done"
        /\ a.runs = s.runs /\ a.fails = s.fails /\ (a.spoilt <=> s.spoilt)
    BY <2>2 DEF Progress
  <2>4. PICK b : b = [a EXCEPT !.type = 1]
    OBVIOUS
  <2>5. /\ b \in Progress /\ b.pc = "done"
        /\ b.runs = s.runs /\ b.fails = s.fails /\ (b.spoilt <=> s.spoilt)
    BY <2>3, <2>4, OneIsThere DEF Progress
  <2>6. n = [b EXCEPT !.month = 1]
    BY <2>1, <2>2, <2>4
  <2>7. /\ n \in Progress /\ n.pc = "done"
        /\ n.runs = s.runs /\ n.fails = s.fails /\ (n.spoilt <=> s.spoilt)
    BY <2>5, <2>6, OneIsThere DEF Progress
  <2>8. s.month = NumMonths /\ s.type = NumTypes
    BY <1>0, <1>3
  <2> QED
    BY <1>0, <2>7, <2>8
<1> QED
  BY <1>1, <1>2, <1>3

LEMMA StartImportsStep ==
    ASSUME ImportsInv, StartImports
    PROVE  ImportsInv'
<1>1. ie \in Progress /\ ie.pc # "rows" /\ ie.runs < MaxRuns
  BY DEF ImportsInv, ImportsTypeOK, Progress, StartImports
<1>2. knownTypes' = knownTypes /\ flows' = flows
  BY DEF StartImports
<1>3. ie' = [ie EXCEPT !.pc = "rows", !.type = 1, !.month = 1, !.runs = ie.runs + 1, !.fails = 0]
  BY DEF StartImports
<1>4. ie.runs \in Nat /\ ie.runs + 1 \in 0..MaxRuns /\ 0 \in 0..MaxFails
  BY <1>1, ImportsExportsAssumption DEF Progress
<1>5. PICK a : a = [ie EXCEPT !.pc = "rows"]
  OBVIOUS
<1>6. a \in Progress /\ a.pc = "rows" /\ a.runs = ie.runs /\ (a.spoilt <=> ie.spoilt)
  BY <1>1, <1>5 DEF Progress
<1>7. PICK b : b = [a EXCEPT !.type = 1]
  OBVIOUS
<1>8. b \in Progress /\ b.pc = "rows" /\ b.type = 1 /\ b.runs = ie.runs /\ (b.spoilt <=> ie.spoilt)
  BY <1>6, <1>7, OneIsThere DEF Progress
<1>9. PICK c : c = [b EXCEPT !.month = 1]
  OBVIOUS
<1>10. /\ c \in Progress /\ c.pc = "rows" /\ c.type = 1 /\ c.month = 1
       /\ c.runs = ie.runs /\ (c.spoilt <=> ie.spoilt)
  BY <1>8, <1>9, OneIsThere DEF Progress
<1>11. PICK d : d = [c EXCEPT !.runs = ie.runs + 1]
  OBVIOUS
<1>12. /\ d \in Progress /\ d.pc = "rows" /\ d.type = 1 /\ d.month = 1
       /\ d.runs = ie.runs + 1 /\ (d.spoilt <=> ie.spoilt)
  BY <1>4, <1>10, <1>11 DEF Progress
<1>13. ie' = [d EXCEPT !.fails = 0]
  BY <1>3, <1>5, <1>7, <1>9, <1>11
<1>14. /\ ie' \in Progress /\ ie'.pc = "rows" /\ ie'.type = 1 /\ ie'.month = 1
       /\ ie'.runs = ie.runs + 1 /\ (ie'.spoilt <=> ie.spoilt)
  BY <1>4, <1>12, <1>13 DEF Progress
<1>15. \A t \in 1..NumTypes, mo \in 1..NumMonths :
          Expected(t, mo) = ie.runs /\ Expected(t, mo)' = ie.runs
  BY <1>1, <1>4, <1>14 DEF Expected, Passed
<1>16. \A t \in 1..NumTypes, mo \in 1..NumMonths : RowsFor(t, mo)' = RowsFor(t, mo)
  BY <1>2 DEF RowsFor
<1>17. ImportsTypeOK'
  BY <1>2, <1>14 DEF ImportsInv, ImportsTypeOK, Progress
<1> QED
  BY <1>2, <1>4, <1>14, <1>15, <1>16, <1>17 DEF ImportsInv

LEMMA InsertRowStep ==
    ASSUME ImportsInv, InsertRow
    PROVE  ImportsInv'
<1>1. ie \in Progress /\ ie.pc = "rows" /\ ie.runs > 0
  BY DEF ImportsInv, ImportsTypeOK, Progress, InsertRow
<1>2. PICK cost \in Costs :
        flows' = flows \cup {[id |-> Cardinality(flows) + 1, type |-> ie.type,
                              month |-> ie.month, cost |-> cost]}
  BY DEF InsertRow
<1>3. knownTypes' = knownTypes /\ ie' = NextRow(ie)
  BY DEF InsertRow
<1>4. IsFiniteSet(flows) /\ Cardinality(flows) \in Nat
  BY FS_CardinalityType DEF ImportsInv
<1>5. PICK row : row = [id |-> Cardinality(flows) + 1, type |-> ie.type,
                        month |-> ie.month, cost |-> cost]
  OBVIOUS
<1>6. /\ row \in FlowRow /\ row.id = Cardinality(flows) + 1
      /\ row.type = ie.type /\ row.month = ie.month
      /\ flows' = flows \cup {row}
  BY <1>1, <1>2, <1>4, <1>5 DEF FlowRow, Progress
<1>7. row \notin flows
  BY <1>4, <1>6 DEF ImportsInv
<1>8. IsFiniteSet(flows') /\ Cardinality(flows') = Cardinality(flows) + 1
  BY <1>4, <1>6, <1>7, FS_AddElement
<1>9. \A r \in flows' : r.id <= Cardinality(flows')
  <2>1. \A r \in flows : r.id \in Nat /\ r.id <= Cardinality(flows)
    BY DEF ImportsInv, ImportsTypeOK, FlowRow
  <2> QED
    BY <1>4, <1>6, <1>8, <2>1
<1>10. /\ ie' \in Progress /\ ie'.runs = ie.runs /\ (ie'.spoilt <=> ie.spoilt)
       /\ ie'.pc \in {"rows", "done"}
       /\ ie'.pc = "rows" =>
             \A t \in 1..NumTypes, mo \in 1..NumMonths :
                (t < ie'.type \/ (t = ie'.type /\ mo < ie'.month)) <=>
                (\/ t < ie.type \/ (t = ie.type /\ mo < ie.month)
                 \/ t = ie.type /\ mo = ie.month)
       /\ ie'.pc = "done" =>
             \A t \in 1..NumTypes, mo \in 1..NumMonths :
                \/ t < ie.type \/ (t = ie.type /\ mo < ie.month)
                \/ t = ie.type /\ mo = ie.month
  BY <1>1, <1>3, NextRowIs
<1>11. ImportsTypeOK'
  BY <1>3, <1>6, <1>10 DEF ImportsInv, ImportsTypeOK, Progress
<1>12. ASSUME ~ie'.spoilt, NEW t \in 1..NumTypes, NEW mo \in 1..NumMonths
       PROVE  Cardinality(RowsFor(t, mo)') = Expected(t, mo)'
  <2>1. Cardinality(RowsFor(t, mo)) = Expected(t, mo)
    BY <1>10, <1>12 DEF ImportsInv
  <2>2. ie.runs \in Nat /\ ie.type \in Nat /\ ie.month \in Nat /\ t \in Nat /\ mo \in Nat
    BY <1>1 DEF Progress
  <2>3. CASE t = ie.type /\ mo = ie.month
    <3>1. RowsFor(t, mo)' = RowsFor(t, mo) \cup {row} /\ row \notin RowsFor(t, mo)
      BY <1>6, <1>7, <2>3 DEF RowsFor
    <3>2. IsFiniteSet(RowsFor(t, mo))
      BY <1>4, FS_Subset DEF RowsFor
    <3>3. Cardinality(RowsFor(t, mo)') = Cardinality(RowsFor(t, mo)) + 1
      BY <3>1, <3>2, FS_AddElement
    <3>4. Expected(t, mo) = ie.runs - 1
      BY <1>1, <2>2, <2>3 DEF Expected, Passed
    <3>5. Expected(t, mo)' = ie.runs
      BY <1>10, <2>3 DEF Expected, Passed
    <3> QED
      BY <2>1, <2>2, <3>3, <3>4, <3>5
  <2>4. CASE ~(t = ie.type /\ mo = ie.month)
    <3>1. RowsFor(t, mo)' = RowsFor(t, mo)
      BY <1>6, <2>4 DEF RowsFor
    <3>2. Expected(t, mo)' = Expected(t, mo)
      <4>1. CASE ie'.pc = "rows"
        <5>1. Passed(t, mo)' <=> Passed(t, mo)
          BY <1>10, <2>4, <4>1 DEF Passed
        <5> QED
          BY <1>1, <1>10, <4>1, <5>1 DEF Expected
      <4>2. CASE ie'.pc = "done"
        <5>1. Passed(t, mo)
          BY <1>10, <2>4, <4>2 DEF Passed
        <5> QED
          BY <1>1, <1>10, <4>2, <5>1 DEF Expected
      <4> QED
        BY <1>10, <4>1, <4>2
    <3> QED
      BY <2>1, <3>1, <3>2
  <2> QED
    BY <2>3, <2>4
<1> QED
  BY <1>1, <1>8, <1>9, <1>10, <1>11, <1>12 DEF ImportsInv

\* A run that was spoilt says nothing about the number of rows.
LEMMA SpoiltStep ==
    ASSUME ImportsInv, knownTypes' = knownTypes, flows' = flows,
           ie' \in Progress, ie'.spoilt, ie'.pc = "rows" => ie'.runs > 0
    PROVE  ImportsInv'
  BY DEF ImportsInv, ImportsTypeOK, Progress

LEMMA InsertRefusedStep ==
    ASSUME ImportsInv, InsertRefused
    PROVE  ImportsInv'
<1>1. ie \in Progress /\ ie.pc = "rows" /\ ie.runs > 0 /\ ie.fails < MaxFails
  BY DEF ImportsInv, ImportsTypeOK, Progress, InsertRefused
<1>2. PICK n : n = NextRow(ie)
  OBVIOUS
<1>3. n \in Progress /\ n.runs = ie.runs /\ n.fails = ie.fails
  BY <1>1, <1>2, NextRowIs
<1>4. ie' = [n EXCEPT !.fails = n.fails + 1, !.spoilt = TRUE]
  BY <1>2 DEF InsertRefused
<1>5. n.fails + 1 \in 0..MaxFails
  BY <1>1, <1>3, ImportsExportsAssumption DEF Progress
<1>6. PICK a : a = [n EXCEPT !.fails = n.fails + 1]
  OBVIOUS
<1>7. a \in Progress /\ a.runs = ie.runs
  BY <1>3, <1>5, <1>6 DEF Progress
<1>8. ie' = [a EXCEPT !.spoilt = TRUE]
  BY <1>4, <1>6
<1>9. ie' \in Progress /\ ie'.spoilt /\ ie'.runs = ie.runs
  BY <1>7, <1>8 DEF Progress
<1>10. knownTypes' = knownTypes /\ flows' = flows
  BY DEF InsertRefused
<1> QED
  BY <1>1, <1>9, <1>10, SpoiltStep

LEMMA KilledStep ==
    ASSUME ImportsInv, ImportsKilled
    PROVE  ImportsInv'
<1>1. ie \in Progress
  BY DEF ImportsInv, ImportsTypeOK, Progress
<1>2. ie' = [ie EXCEPT !.pc = "idle", !.type = 1, !.month = 1, !.spoilt = TRUE]
  BY DEF ImportsKilled
<1>3. PICK a : a = [ie EXCEPT !.pc = "idle"]
  OBVIOUS
<1>4. a \in Progress /\ a.pc = "idle"
  BY <1>1, <1>3 DEF Progress
<1>5. PICK b : b = [a EXCEPT !.type = 1]
  OBVIOUS
<1>6. b \in Progress /\ b.pc = "idle"
  BY <1>4, <1>5, OneIsThere DEF Progress
<1>7. PICK c : c = [b EXCEPT !.month = 1]
  OBVIOUS
<1>8. c \in Progress /\ c.pc = "idle"
  BY <1>6, <1>7, OneIsThere DEF Progress
<1>9. ie' = [c EXCEPT !.spoilt = TRUE]
  BY <1>2, <1>3, <1>5, <1>7
<1>10. ie' \in Progress /\ ie'.spoilt /\ ie'.pc = "idle"
  BY <1>8, <1>9 DEF Progress
<1>11. knownTypes' = knownTypes /\ flows' = flows
  BY DEF ImportsKilled
<1> QED
  BY <1>10, <1>11, SpoiltStep

LEMMA TypeSeededStep ==
    ASSUME ImportsInv, TypeSeeded
    PROVE  ImportsInv'
<1>1. knownTypes' \subseteq 1..NumTypes /\ flows' = flows /\ ie' = ie
  BY DEF ImportsInv, ImportsTypeOK, TypeSeeded
<1> QED
  BY <1>1 DEF ImportsInv, ImportsTypeOK, RowsFor, Expected, Passed

LEMMA ImportsInvHolds == ImportsSpec => []ImportsInv
<1>1. ImportsInit => ImportsInv
  <2> SUFFICES ASSUME ImportsInit PROVE ImportsInv
    OBVIOUS
  <2>1. flows = {} /\ knownTypes = {}
    BY DEF ImportsInit
  <2>2. IsFiniteSet(flows) /\ Cardinality(flows) = 0
    BY <2>1, FS_EmptySet
  <2>3. 0 \in 0..MaxRuns /\ 0 \in 0..MaxFails
    BY ImportsExportsAssumption
  <2>4. ie = [pc |-> "idle", type |-> 1, month |-> 1, runs |-> 0, fails |-> 0, spoilt |-> FALSE]
    BY DEF ImportsInit
  <2>5. ie \in Progress /\ ie.pc = "idle" /\ ie.runs = 0
    BY <2>3, <2>4, OneIsThere DEF Progress
  <2>6. \A t \in 1..NumTypes, mo \in 1..NumMonths :
           RowsFor(t, mo) = {} /\ Expected(t, mo) = 0
    BY <2>1, <2>5 DEF RowsFor, Expected
  <2>7. ImportsTypeOK
    BY <2>1, <2>5 DEF ImportsTypeOK, Progress
  <2> QED
    BY <2>1, <2>2, <2>5, <2>6, <2>7 DEF ImportsInv
<1>2. ImportsInv /\ [ImportsNext]_ieVars => ImportsInv'
  <2> SUFFICES ASSUME ImportsInv, [ImportsNext]_ieVars PROVE ImportsInv'
    OBVIOUS
  <2>1. CASE ImportsNext
    BY <2>1, StartImportsStep, InsertRowStep, InsertRefusedStep, KilledStep, TypeSeededStep
    DEF ImportsNext
  <2>2. CASE UNCHANGED ieVars
    BY <2>2 DEF ieVars, ImportsInv, ImportsTypeOK, RowsFor, Expected, Passed
  <2> QED
    BY <2>1, <2>2
<1> QED
  BY <1>1, <1>2, PTL DEF ImportsSpec

\* Every state of seed_imports_exports has its type, however it is killed, refused
\* and run again.
THEOREM ImportsTypeCorrect == ImportsSpec => []ImportsTypeOK
<1>1. ImportsInv => ImportsTypeOK
  BY DEF ImportsInv
<1> QED
  BY <1>1, ImportsInvHolds, PTL

\* The costs of some rows are a sum over the rows there are.
LEMMA CostIsSum ==
    ASSUME ImportsInv, NEW cost, cost = [r \in flows |-> r.cost], NEW rows \in SUBSET flows
    PROVE  /\ IsFiniteSet(rows)
           /\ CostOf(rows) = SumFunctionOnSet(cost, rows)
           /\ \A r \in rows : cost[r] \in Nat
<1>1. IsFiniteSet(rows)
  BY FS_Subset DEF ImportsInv
<1>2. \A r \in rows : r.cost \in Costs
  BY DEF ImportsInv, ImportsTypeOK, FlowRow
<1>3. \A r \in rows : cost[r] = r.cost /\ cost[r] \in Nat
  BY <1>2, ImportsExportsAssumption
<1>4. PICK own : own = [r \in rows |-> r.cost]
  OBVIOUS
<1>5. DOMAIN own = rows /\ \A r \in rows : own[r] = cost[r]
  BY <1>3, <1>4
<1>6. CostOf(rows) = SumFunctionOnSet(own, rows)
  BY <1>4, <1>5 DEF CostOf, SumFunction
<1> QED
  BY <1>1, <1>3, <1>5, <1>6, SumsAgree

\* The rows of the known types, by type.
LEMMA ExpensesAdd ==
    ASSUME ImportsInv
    PROVE  ExpenseTotal = CostOf({r \in flows : r.type \in knownTypes})
<1>1. PICK cost : cost = [r \in flows |-> r.cost]
  OBVIOUS
<1>2. PICK known : known = {r \in flows : r.type \in knownTypes}
  OBVIOUS
<1>3. PICK T : T = 1..NumTypes
  OBVIOUS
<1>4. PICK group : group = [t \in T |-> RowsOf(t)]
  OBVIOUS
<1>5. PICK row : row = [t \in T |-> [type |-> t, total |-> CostOf(RowsOf(t))]]
  OBVIOUS
<1>6. PICK report : report = ExpensesByCommodity
  OBVIOUS
<1>7. PICK total : total = [x \in report |-> x.total]
  OBVIOUS
<1>8. NumTypes \in Nat /\ IsFiniteSet(T)
  BY <1>3, ImportsExportsAssumption, FS_Interval
<1>9. \A t \in T : RowsOf(t) \in SUBSET flows
  BY DEF RowsOf
<1>10. Splits(known, group, T)
  <2>1. \A t \in T : IsFiniteSet(group[t])
    BY <1>1, <1>4, <1>9, CostIsSum
  <2>2. \A s, t \in T : s # t => group[s] \cap group[t] = {}
    BY <1>4 DEF RowsOf
  <2>3. \A r \in flows : r.type \in T
    BY <1>3 DEF ImportsInv, ImportsTypeOK, FlowRow
  <2>4. \A r : r \in known <=> \E t \in T : r \in group[t]
    BY <1>2, <1>4, <2>3 DEF RowsOf
  <2>5. known = UNION {group[t] : t \in T}
    BY <2>4
  <2> QED
    BY <2>1, <2>2, <2>5 DEF Splits
<1>11. Lists(report, row, {t \in T : group[t] # {}})
  <2>1. \A x, y \in T : row[x] = row[y] => x = y
    BY <1>5
  <2>2. report = {row[t] : t \in {u \in T : group[u] # {}}}
    BY <1>3, <1>4, <1>5, <1>6 DEF ExpensesByCommodity
  <2> QED
    BY <2>1, <2>2 DEF Lists
<1>12. \A t \in T : group[t] # {} => total[row[t]] = SumFunctionOnSet(cost, group[t])
  <2> SUFFICES ASSUME NEW t \in T, group[t] # {}
               PROVE  total[row[t]] = SumFunctionOnSet(cost, group[t])
    OBVIOUS
  <2>1. row[t] \in report /\ row[t].total = CostOf(RowsOf(t))
    BY <1>5, <1>11 DEF Lists
  <2>2. CostOf(RowsOf(t)) = SumFunctionOnSet(cost, group[t])
    BY <1>1, <1>4, <1>9, CostIsSum
  <2> QED
    BY <1>7, <2>1, <2>2
<1>13. /\ CostOf(known) = SumFunctionOnSet(cost, known)
       /\ \A r \in known : cost[r] \in Nat
  BY <1>1, <1>2, CostIsSum
<1>14. SumFunctionOnSet(total, report) = SumFunctionOnSet(cost, known)
  BY <1>8, <1>10, <1>11, <1>12, <1>13, SumOfReport
<1>15. ExpenseTotal = SumFunctionOnSet(total, report)
  BY <1>6, <1>7 DEF ExpenseTotal, SumFunction
<1> QED
  BY <1>2, <1>13, <1>14, <1>15

\* What the chart misses are the rows of the other types.
LEMMA ExpensesMiss ==
    ASSUME ImportsInv
    PROVE  ExpensesMissUnknownTypes
<1>1. PICK cost : cost = [r \in flows |-> r.cost]
  OBVIOUS
<1>2. PICK known, other : /\ known = {r \in flows : r.type \in knownTypes}
                          /\ other = {r \in flows : r.type \notin knownTypes}
  OBVIOUS
<1>3. known \in SUBSET flows /\ other \in SUBSET flows /\ known \cap other = {} /\ known \cup other = flows
  BY <1>2
<1>4. /\ IsFiniteSet(known) /\ IsFiniteSet(other)
      /\ CostOf(known) = SumFunctionOnSet(cost, known)
      /\ CostOf(other) = SumFunctionOnSet(cost, other)
  BY <1>1, <1>3, CostIsSum
<1>5. CostOf(flows) = SumFunctionOnSet(cost, flows) /\ \A r \in flows : cost[r] \in Nat
  BY <1>1, CostIsSum
<1>6. CostOf(flows) = CostOf(known) + CostOf(other)
  BY <1>3, <1>4, <1>5, SumOfUnion
<1>7. ExpenseTotal = CostOf(known)
  BY <1>2, ExpensesAdd
<1> QED
  BY <1>2, <1>6, <1>7 DEF ExpensesMissUnknownTypes

\* seed_imports_exports has no check for a data set that is there: n runs in which
\* nothing went wrong leave n rows of each type and month, for any number of types,
\* months and runs; and whatever was killed, refused and repeated, the expenses
\* chart misses the rows of types without a name and no other.
THEOREM ImportsAlwaysAddUp == ImportsSpec => []ImportsAddUp
<1>1. ImportsInv => EveryRunAddsAll
  BY DEF ImportsInv, EveryRunAddsAll, RowsFor, Expected
<1>2. ImportsInv => ImportsAddUp
  BY <1>1, ExpensesMiss DEF ImportsAddUp
<1> QED
  BY <1>2, ImportsInvHolds, PTL

-----------------------------------------------------------------------------
(* The heap of timers *)

Under(i, j) == heap[i].time <= heap[j].time

\* No entry is later than the two below it, but where a loop has come to: up_heap
\* has not yet compared its entry with the one above it, and down_heap with those
\* below.
HeapOrder ==
    /\ sift # "none" => index \in DOMAIN heap
    /\ \A i \in 2..Len(heap) :
          /\ \/ sift = "up" /\ i = index
             \/ sift = "down" /\ Parent(i) = index
             \/ Under(Parent(i), i)
          /\ sift # "none" /\ index > 1 /\ Parent(i) = index => Under(Parent(index), i)

\* What get_ready_timers has still to take is all that was due and is not yet fired,
\* and nothing of it is earlier.
Firing ==
    popping =>
        /\ expected = {fired[i] : i \in DOMAIN fired}
                      \cup {EntryOf(t) : t \in {u \in active : due[u] <= now}}
        /\ \A i \in DOMAIN fired :
              fired[i].timer \notin active /\ \A t \in active : fired[i].time <= due[t]

TimerInv ==
    /\ TimerTypeOK
    /\ TimersKnowTheirPlaces
    /\ HeapOrder
    /\ Firing
    /\ DueFireInOrder

LEMMA HeapIs ==
    ASSUME TimerTypeOK
    PROVE  /\ Len(heap) \in Nat /\ DOMAIN heap = 1..Len(heap) /\ heap \in [1..Len(heap) -> Entries]
           /\ \A i \in 1..Len(heap) : heap[i] \in Entries /\ heap[i].time \in Nat /\ heap[i].timer \in Timers
<1>1. heap \in Seq(Entries)
  BY DEF TimerTypeOK
<1>2. PICK n \in Nat : n = Len(heap) /\ DOMAIN heap = 1..n /\ heap \in [1..n -> Entries]
  BY <1>1
<1>3. \A i \in 1..n : heap[i] \in Entries
  BY <1>2
<1>4. \A e \in Entries : e.time \in Nat /\ e.timer \in Timers
  BY AsioTimerQueueAssumption DEF Entries
<1> QED
  BY <1>2, <1>3, <1>4

\* A swap of two entries.
LEMMA ExchangedIs ==
    ASSUME TimerTypeOK, NEW i \in DOMAIN heap, NEW j \in DOMAIN heap,
           NEW h, h = Exchanged(i, j)
    PROVE  /\ h \in Seq(Entries) /\ Len(h) = Len(heap) /\ DOMAIN h = 1..Len(heap)
           /\ h[i] = heap[j] /\ h[j] = heap[i]
           /\ \A k \in 1..Len(heap) : k # i /\ k # j => h[k] = heap[k]
<1>1. PICK n \in Nat : n = Len(heap) /\ DOMAIN heap = 1..n /\ heap \in [1..n -> Entries]
  BY HeapIs
<1>2. h \in [1..n -> Entries]
  BY <1>1 DEF Exchanged
<1>3. h \in Seq(Entries) /\ Len(h) = n /\ DOMAIN h = 1..n
  BY <1>1, <1>2
<1>4. h[i] = heap[j] /\ h[j] = heap[i] /\ \A k \in 1..n : k # i /\ k # j => h[k] = heap[k]
  BY <1>1 DEF Exchanged
<1> QED
  BY <1>1, <1>3, <1>4

\* Each timer has one place.
LEMMA OwnPlace ==
    ASSUME TimerTypeOK, TimersKnowTheirPlaces,
           NEW i \in DOMAIN heap, NEW j \in DOMAIN heap
    PROVE  (heap[i].timer = heap[j].timer) => i = j
  BY DEF TimersKnowTheirPlaces

LEMMA PlacesExchangedIs ==
    ASSUME TimerTypeOK, TimersKnowTheirPlaces,
           NEW i \in DOMAIN heap, NEW j \in DOMAIN heap,
           NEW p, p = PlacesExchanged(i, j)
    PROVE  /\ p \in [Timers -> Nat]
           /\ p[heap[i].timer] = j /\ p[heap[j].timer] = i
           /\ \A t \in Timers : t # heap[i].timer /\ t # heap[j].timer => p[t] = place[t]
<1>1. /\ heap[i].timer \in Timers /\ heap[j].timer \in Timers /\ i \in Nat /\ j \in Nat
      /\ place \in [Timers -> Nat]
  <2>1. place \in [Timers -> Nat]
    BY DEF TimerTypeOK
  <2>2. i \in 1..Len(heap) /\ j \in 1..Len(heap) /\ Len(heap) \in Nat
    BY HeapIs
  <2> QED
    BY <2>1, <2>2, HeapIs
<1>2. p \in [Timers -> Nat]
  BY <1>1 DEF PlacesExchanged
<1>3. p[heap[i].timer] = j
  BY <1>1 DEF PlacesExchanged
<1>4. p[heap[j].timer] = i
  BY <1>1, OwnPlace DEF PlacesExchanged
<1>5. \A t \in Timers : t # heap[i].timer /\ t # heap[j].timer => p[t] = place[t]
  BY <1>1 DEF PlacesExchanged
<1> QED
  BY <1>2, <1>3, <1>4, <1>5

LEMMA SwapKeepsPlaces ==
    ASSUME TimerTypeOK, TimersKnowTheirPlaces,
           NEW i \in DOMAIN heap, NEW j \in DOMAIN heap, SwapHeap(i, j),
           UNCHANGED <<active, waits, now, popping, fired, expected, due>>,
           sift' \in {"none", "up", "down"}, index' \in Nat
    PROVE  TimerTypeOK' /\ TimersKnowTheirPlaces'
<1>1. heap' = Exchanged(i, j) /\ place' = PlacesExchanged(i, j)
  BY DEF SwapHeap
<1>2. /\ active' = active /\ waits' = waits /\ now' = now /\ popping' = popping
      /\ fired' = fired /\ expected' = expected /\ due' = due
  OBVIOUS
<1>3. PICK n \in Nat : n = Len(heap) /\ DOMAIN heap = 1..n
  BY HeapIs
<1>4. /\ heap' \in Seq(Entries) /\ DOMAIN heap' = 1..n
      /\ heap'[i] = heap[j] /\ heap'[j] = heap[i]
      /\ \A k \in 1..n : k # i /\ k # j => heap'[k] = heap[k]
  BY <1>1, <1>3, ExchangedIs
<1>5. /\ place' \in [Timers -> Nat]
      /\ place'[heap[i].timer] = j /\ place'[heap[j].timer] = i
      /\ \A t \in Timers : t # heap[i].timer /\ t # heap[j].timer => place'[t] = place[t]
  BY <1>1, PlacesExchangedIs
<1>6. TimerTypeOK'
  BY <1>2, <1>4, <1>5 DEF TimerTypeOK
<1>7. ASSUME NEW t \in active
      PROVE  place'[t] \in DOMAIN heap' /\ heap'[place'[t]] = EntryOf(t)' /\ waits'[t] > 0
  <2>1. /\ t \in Timers /\ place[t] \in DOMAIN heap /\ heap[place[t]] = EntryOf(t) /\ waits[t] > 0
        /\ EntryOf(t)' = EntryOf(t) /\ EntryOf(t).timer = t
    BY <1>2 DEF TimersKnowTheirPlaces, TimerTypeOK, EntryOf
  <2>2. CASE t = heap[i].timer
    <3>1. place[t] = i
      BY <2>2 DEF TimersKnowTheirPlaces
    <3> QED
      BY <1>2, <1>3, <1>4, <1>5, <2>1, <2>2, <3>1
  <2>3. CASE t = heap[j].timer
    <3>1. place[t] = j
      BY <2>3 DEF TimersKnowTheirPlaces
    <3> QED
      BY <1>2, <1>3, <1>4, <1>5, <2>1, <2>3, <3>1
  <2>4. CASE t # heap[i].timer /\ t # heap[j].timer
    <3>1. place'[t] = place[t] /\ place[t] # i /\ place[t] # j
      BY <1>5, <2>1, <2>4
    <3> QED
      BY <1>2, <1>3, <1>4, <2>1, <3>1
  <2> QED
    BY <2>2, <2>3, <2>4
<1>8. ASSUME NEW k \in DOMAIN heap'
      PROVE  heap'[k].timer \in active' /\ place'[heap'[k].timer] = k
  <2>1. k \in DOMAIN heap /\ heap[k].timer \in active /\ place[heap[k].timer] = k
        /\ heap[i].timer \in active /\ heap[j].timer \in active
    BY <1>3, <1>4 DEF TimersKnowTheirPlaces
  <2>2. CASE k = i
    BY <1>2, <1>4, <1>5, <2>1, <2>2
  <2>3. CASE k = j
    BY <1>2, <1>4, <1>5, <2>1, <2>3
  <2>4. CASE k # i /\ k # j
    <3>1. heap'[k] = heap[k] /\ heap[k].timer # heap[i].timer /\ heap[k].timer # heap[j].timer
      BY <1>3, <1>4, <2>1, <2>4, OwnPlace
    <3>2. heap[k].timer \in Timers
      BY <2>1 DEF TimerTypeOK
    <3> QED
      BY <1>2, <1>5, <2>1, <3>1, <3>2
  <2> QED
    BY <2>2, <2>3, <2>4
<1> QED
  BY <1>2, <1>6, <1>7, <1>8 DEF TimersKnowTheirPlaces

\* The places above and below a place.
LEMMA ParentIs ==
    ASSUME NEW n \in Nat, NEW i \in 2..n, NEW p, p = Parent(i)
    PROVE  p \in Nat /\ p \in 1..n /\ p < i /\ p # i /\ i \in 1..n /\ i \in Nat
  BY DEF Parent

LEMMA ChildIs ==
    ASSUME NEW n \in Nat, NEW i \in 2..n, NEW k \in 1..n, Parent(i) = k
    PROVE  (i = 2 * k \/ i = 2 * k + 1) /\ 2 * k <= n
<1>1. i \div 2 = k /\ i \in Nat /\ k \in Nat
  BY DEF Parent
<1> QED
  BY <1>1

LEMMA ParentOfChild ==
    ASSUME NEW k \in Nat
    PROVE  Parent(2 * k) = k /\ Parent(2 * k + 1) = k
  BY DEF Parent

LEMMA IndexIs ==
    ASSUME TimerTypeOK, HeapOrder, sift # "none"
    PROVE  index \in Nat /\ Len(heap) \in Nat /\ index \in 1..Len(heap) /\ DOMAIN heap = 1..Len(heap)
  BY HeapIs DEF HeapOrder, TimerTypeOK

\* The times of the entries, before and after a swap.
LEMMA TimesExchanged ==
    ASSUME TimerTypeOK, NEW i \in DOMAIN heap, NEW j \in DOMAIN heap, SwapHeap(i, j)
    PROVE  /\ Len(heap') = Len(heap) /\ DOMAIN heap' = DOMAIN heap
           /\ heap'[i].time = heap[j].time /\ heap'[j].time = heap[i].time
           /\ \A k \in DOMAIN heap : k # i /\ k # j => heap'[k].time = heap[k].time
<1>1. heap' = Exchanged(i, j) /\ DOMAIN heap = 1..Len(heap)
  BY HeapIs DEF SwapHeap
<1> QED
  BY <1>1, ExchangedIs

LEMMA UpKeepsOrder ==
    ASSUME TimerTypeOK, HeapOrder, sift = "up", sift' = "up",
           index > 1, Earlier(index, Parent(index)),
           SwapHeap(index, Parent(index)), index' = Parent(index)
    PROVE  HeapOrder' /\ index' \in DOMAIN heap
<1>1. PICK n \in Nat, x \in Nat : n = Len(heap) /\ x = index /\ x \in 1..n /\ x > 1 /\ DOMAIN heap = 1..n
  BY IndexIs
<1>2. PICK p \in Nat : p = Parent(x) /\ p \in 1..n /\ p < x /\ p # x /\ x \in 2..n
  <2>1. x \in 2..n
    BY <1>1
  <2> QED
    BY <2>1, ParentIs
<1>3. /\ \A k \in 1..n : heap[k].time \in Nat
      /\ heap[x].time < heap[p].time
  BY <1>1, <1>2, HeapIs DEF Earlier
<1>4. /\ Len(heap') = n /\ DOMAIN heap' = 1..n
      /\ heap'[x].time = heap[p].time /\ heap'[p].time = heap[x].time
      /\ \A k \in 1..n : k # x /\ k # p => heap'[k].time = heap[k].time
  BY <1>1, <1>2, TimesExchanged
<1>5. \A i \in 2..n : /\ i = x \/ heap[Parent(i)].time <= heap[i].time
                      /\ Parent(i) = x => heap[p].time <= heap[i].time
  BY <1>1, <1>2 DEF HeapOrder, Under
<1>6. ASSUME NEW i \in 2..n
      PROVE  /\ i = p \/ heap'[Parent(i)].time <= heap'[i].time
             /\ p > 1 /\ Parent(i) = p => heap'[Parent(p)].time <= heap'[i].time
  <2>1. PICK q \in Nat : q = Parent(i) /\ q \in 1..n /\ q < i /\ i \in 1..n /\ i \in Nat
    BY <1>1, ParentIs
  <2>2. CASE i = x
    <3>1. heap'[q].time <= heap'[i].time
      BY <1>2, <1>3, <1>4, <2>1, <2>2
    <3>2. ASSUME p > 1 PROVE heap'[Parent(p)].time <= heap'[i].time
      <4>1. PICK g \in Nat : g = Parent(p) /\ g \in 1..n /\ g < p /\ p \in 2..n
        BY <1>2, <3>2, ParentIs
      <4>2. heap[g].time <= heap[p].time
        BY <1>2, <1>5, <4>1
      <4>3. heap'[g].time = heap[g].time
        BY <1>2, <1>4, <4>1
      <4> QED
        BY <1>4, <2>2, <4>1, <4>2, <4>3
    <3> QED
      BY <2>1, <3>1, <3>2
  <2>3. CASE i = p
    <3>1. q # p
      BY <2>1, <2>3
    <3> QED
      BY <2>1, <2>3, <3>1
  <2>4. CASE i # x /\ i # p
    <3>1. heap'[i].time = heap[i].time /\ heap[q].time <= heap[i].time /\ heap[i].time \in Nat
      BY <1>3, <1>4, <1>5, <2>1, <2>4
    <3>2. CASE q = x
      <4>1. heap[p].time <= heap[i].time /\ q # p
        BY <1>2, <1>5, <2>1, <3>2
      <4> QED
        BY <1>4, <2>1, <3>1, <3>2, <4>1
    <3>3. CASE q = p
      <4>1. heap'[q].time <= heap'[i].time
        BY <1>1, <1>3, <1>4, <2>1, <3>1, <3>3
      <4>2. ASSUME p > 1 PROVE heap'[Parent(p)].time <= heap'[i].time
        <5>1. PICK g \in Nat : g = Parent(p) /\ g \in 1..n /\ g < p /\ p \in 2..n
          BY <1>2, <4>2, ParentIs
        <5>2. heap[g].time <= heap[p].time
          BY <1>2, <1>5, <5>1
        <5>3. heap'[g].time = heap[g].time
          BY <1>2, <1>4, <5>1
        <5>4. heap[g].time \in Nat /\ heap[p].time \in Nat
          BY <1>2, <1>3, <5>1
        <5> QED
          BY <3>1, <3>3, <5>1, <5>2, <5>3, <5>4
      <4> QED
        BY <2>1, <4>1, <4>2
    <3>4. CASE q # x /\ q # p
      BY <1>4, <2>1, <3>1, <3>4
    <3> QED
      BY <3>2, <3>3, <3>4
  <2> QED
    BY <2>2, <2>3, <2>4
<1>7. index' = p /\ p \in 1..n
  BY <1>1, <1>2
<1> QED
  BY <1>1, <1>4, <1>6, <1>7 DEF HeapOrder, Under

LEMMA UpEnds ==
    ASSUME TimerTypeOK, HeapOrder, sift = "up", ~(index > 1 /\ Earlier(index, Parent(index)))
    PROVE  \A i \in 2..Len(heap) : Under(Parent(i), i)
<1>1. PICK n \in Nat, x \in Nat : n = Len(heap) /\ x = index /\ x \in 1..n /\ DOMAIN heap = 1..n
  BY IndexIs
<1>2. ASSUME NEW i \in 2..n PROVE Under(Parent(i), i)
  <2>1. CASE i # x
    BY <1>1, <2>1 DEF HeapOrder
  <2>2. CASE i = x
    <3>1. Parent(i) \in 1..n /\ i \in 1..n /\ i > 1
      BY <1>1, ParentIs
    <3>2. heap[i].time \in Nat /\ heap[Parent(i)].time \in Nat
      BY <1>1, <3>1, HeapIs
    <3>3. ~(heap[i].time < heap[Parent(i)].time)
      BY <1>1, <2>2, <3>1 DEF Earlier
    <3> QED
      BY <3>2, <3>3 DEF Under
  <2> QED
    BY <2>1, <2>2
<1> QED
  BY <1>1, <1>2

\* The earlier of the entries below the i-th.
LEMMA MinChildIs ==
    ASSUME TimerTypeOK, NEW i \in DOMAIN heap, 2 * i <= Len(heap)
    PROVE  /\ MinChild(i) \in 2..Len(heap) /\ Parent(MinChild(i)) = i
           /\ \A k \in 2..Len(heap) : Parent(k) = i => heap[MinChild(i)].time <= heap[k].time
<1>1. PICK n \in Nat, x \in Nat : n = Len(heap) /\ x = i /\ x \in 1..n /\ DOMAIN heap = 1..n
  <2>1. Len(heap) \in Nat /\ DOMAIN heap = 1..Len(heap)
    BY HeapIs
  <2>2. i \in 1..Len(heap)
    BY <2>1
  <2>3. i \in Nat
    BY <2>1, <2>2
  <2> QED
    BY <2>1, <2>2, <2>3, Zenon
<1>2. \A k \in 1..n : heap[k].time \in Nat
  BY <1>1, HeapIs
<1>3. \A k \in 2..n : Parent(k) = x => k = 2 * x \/ k = 2 * x + 1
  BY <1>1, ChildIs
<1>4. CASE 2 * x = n
  <2>1. MinChild(i) = 2 * x
    BY <1>1, <1>4 DEF MinChild
  <2>2. 2 * x \in 2..n /\ ~(2 * x + 1 \in 2..n) /\ 2 * x \in 1..n
    BY <1>1, <1>4
  <2>3. Parent(2 * x) = x
    BY <1>1, ParentOfChild
  <2>4. \A k \in 2..n : Parent(k) = x => k = 2 * x
    BY <1>3, <2>2
  <2> QED
    BY <1>1, <1>2, <2>1, <2>2, <2>3, <2>4
<1>5. CASE 2 * x # n
  <2>1. PICK l \in Nat, r \in Nat : l = 2 * x /\ r = 2 * x + 1 /\ l \in 2..n /\ r \in 2..n /\ l \in 1..n /\ r \in 1..n
    BY <1>1, <1>5
  <2>2. Parent(l) = x /\ Parent(r) = x /\ heap[l].time \in Nat /\ heap[r].time \in Nat
    BY <1>1, <1>2, <2>1, ParentOfChild
  <2>3. CASE heap[l].time < heap[r].time
    <3>1. MinChild(i) = l
      BY <1>1, <1>5, <2>1, <2>3 DEF MinChild, Earlier
    <3>2. heap[l].time <= heap[l].time /\ heap[l].time <= heap[r].time
      BY <2>2, <2>3
    <3> QED
      BY <1>1, <1>3, <2>1, <2>2, <3>1, <3>2
  <2>4. CASE ~(heap[l].time < heap[r].time)
    <3>1. MinChild(i) = r
      BY <1>1, <1>5, <2>1, <2>4 DEF MinChild, Earlier
    <3>2. heap[r].time <= heap[r].time /\ heap[r].time <= heap[l].time
      BY <2>2, <2>4
    <3> QED
      BY <1>1, <1>3, <2>1, <2>2, <3>1, <3>2
  <2> QED
    BY <2>3, <2>4
<1> QED
  BY <1>4, <1>5

LEMMA DownKeepsOrder ==
    ASSUME TimerTypeOK, HeapOrder, sift = "down", sift' = "down",
           2 * index <= Len(heap), ~Earlier(index, MinChild(index)),
           SwapHeap(index, MinChild(index)), index' = MinChild(index)
    PROVE  HeapOrder' /\ index' \in DOMAIN heap
<1>1. PICK n \in Nat, x \in Nat : n = Len(heap) /\ x = index /\ x \in 1..n /\ DOMAIN heap = 1..n
  BY IndexIs
<1>2. PICK m \in Nat : m = MinChild(x) /\ m \in 2..n /\ Parent(m) = x
  BY <1>1, MinChildIs
<1>3. m \in 1..n /\ x < m /\ x # m /\ m > 1
  BY <1>2, ParentIs
<1>4. \A k \in 2..n : Parent(k) = x => heap[m].time <= heap[k].time
  BY <1>1, <1>2, MinChildIs
<1>5. /\ \A k \in 1..n : heap[k].time \in Nat
      /\ heap[m].time <= heap[x].time
  BY <1>1, <1>2, <1>3, HeapIs DEF Earlier
<1>6. /\ Len(heap') = n /\ DOMAIN heap' = 1..n
      /\ heap'[x].time = heap[m].time /\ heap'[m].time = heap[x].time
      /\ \A k \in 1..n : k # x /\ k # m => heap'[k].time = heap[k].time
  BY <1>1, <1>2, <1>3, TimesExchanged
<1>7. \A i \in 2..n : /\ Parent(i) = x \/ heap[Parent(i)].time <= heap[i].time
                      /\ x > 1 /\ Parent(i) = x => heap[Parent(x)].time <= heap[i].time
  BY <1>1 DEF HeapOrder, Under
<1>8. ASSUME NEW i \in 2..n
      PROVE  /\ Parent(i) = m \/ heap'[Parent(i)].time <= heap'[i].time
             /\ Parent(i) = m => heap'[x].time <= heap'[i].time
  <2>1. PICK q \in Nat : q = Parent(i) /\ q \in 1..n /\ q < i /\ i \in 1..n /\ i \in Nat
    BY <1>1, ParentIs
  <2>2. CASE i = m
    BY <1>2, <1>3, <1>5, <1>6, <2>1, <2>2
  <2>3. CASE i = x
    <3>1. heap[q].time <= heap[m].time /\ q # x /\ q # m
      BY <1>2, <1>3, <1>7, <2>1, <2>3
    <3> QED
      BY <1>6, <2>1, <2>3, <3>1
  <2>4. CASE i # m /\ i # x
    <3>1. heap'[i].time = heap[i].time
      BY <1>6, <2>1, <2>4
    <3>2. CASE q = x
      <4>1. heap[m].time <= heap[i].time /\ q # m
        BY <1>3, <1>4, <2>1, <3>2
      <4> QED
        BY <1>6, <2>1, <3>1, <3>2, <4>1
    <3>3. CASE q = m
      <4>1. heap[m].time <= heap[i].time
        BY <1>2, <1>3, <1>7, <2>1, <3>3
      <4> QED
        BY <1>6, <2>1, <3>1, <3>3, <4>1
    <3>4. CASE q # x /\ q # m
      BY <1>6, <1>7, <2>1, <3>1, <3>4
    <3> QED
      BY <3>2, <3>3, <3>4
  <2> QED
    BY <2>2, <2>3, <2>4
<1>9. index' = m
  BY <1>1, <1>2
<1> QED
  BY <1>1, <1>2, <1>3, <1>6, <1>8, <1>9 DEF HeapOrder, Under

LEMMA DownEnds ==
    ASSUME TimerTypeOK, HeapOrder, sift = "down",
           ~(2 * index <= Len(heap) /\ ~Earlier(index, MinChild(index)))
    PROVE  \A i \in 2..Len(heap) : Under(Parent(i), i)
<1>1. PICK n \in Nat, x \in Nat : n = Len(heap) /\ x = index /\ x \in 1..n /\ DOMAIN heap = 1..n
  BY IndexIs
<1>2. ASSUME NEW i \in 2..n PROVE Under(Parent(i), i)
  <2>1. CASE Parent(i) # x
    BY <1>1, <2>1 DEF HeapOrder
  <2>2. CASE Parent(i) = x
    <3>1. 2 * x <= n /\ i \in 1..n
      BY <1>1, <2>2, ChildIs
    <3>2. PICK m \in 2..n : m = MinChild(x) /\ heap[m].time <= heap[i].time
      BY <1>1, <2>2, <3>1, MinChildIs
    <3>3. m \in 1..n
      OBVIOUS
    <3>4. heap[x].time < heap[m].time
      BY <1>1, <3>1, <3>2 DEF Earlier
    <3>5. heap[x].time \in Nat /\ heap[m].time \in Nat /\ heap[i].time \in Nat
      BY <1>1, <3>1, <3>3, HeapIs
    <3> QED
      BY <2>2, <3>2, <3>4, <3>5 DEF Under
  <2> QED
    BY <2>1, <2>2
<1> QED
  BY <1>1, <1>2

\* The heap without a timer's entry: the last one stands in its place.
LEMMA TakenOut ==
    ASSUME TimerTypeOK, TimersKnowTheirPlaces, NEW t \in active, RemoveTimer(t)
    PROVE  \E n \in Nat, i \in Nat :
              /\ i \in 1..n /\ n = Len(heap) /\ DOMAIN heap = 1..n /\ i = place[t] /\ n > 0 /\ n - 1 \in Nat
              /\ heap' \in Seq(Entries) /\ Len(heap') = n - 1 /\ DOMAIN heap' = 1..n - 1
              /\ \A k \in 1..n - 1 : heap'[k] = IF k = i THEN heap[n] ELSE heap[k]
              /\ place' \in [Timers -> Nat]
              /\ i # n => place'[heap[n].timer] = i
              /\ \A u \in Timers : u # t /\ u # heap[n].timer => place'[u] = place[u]
              /\ index' = i
              /\ sift' = IF i = n THEN "none"
                         ELSE IF i > 1 /\ Earlier(n, Parent(i)) THEN "up" ELSE "down"
<1>1. place[t] \in DOMAIN heap /\ heap[place[t]].timer = t /\ t \in Timers
  <2>1. place[t] \in DOMAIN heap /\ heap[place[t]] = EntryOf(t)
    BY DEF TimersKnowTheirPlaces
  <2>2. EntryOf(t).timer = t
    BY DEF EntryOf
  <2>3. t \in Timers
    BY DEF TimerTypeOK
  <2> QED
    BY <2>1, <2>2, <2>3
<1>2. TakeOut(t)
  BY <1>1 DEF RemoveTimer
<1>3. Len(heap) \in Nat /\ DOMAIN heap = 1..Len(heap)
  BY HeapIs
<1>4. PICK n \in Nat, i \in Nat : i \in 1..n /\ n = Len(heap) /\ i = place[t] /\ DOMAIN heap = 1..n
  <2>1. place[t] \in Nat
    BY <1>1 DEF TimerTypeOK
  <2> QED
    BY <1>1, <1>3, <2>1, Zenon
<1>5. n > 0 /\ n - 1 \in Nat /\ n \in 1..n
  BY <1>4
<1>6. PICK h : h = Exchanged(i, n)
  OBVIOUS
<1>7. PICK p : p = PlacesExchanged(i, n)
  OBVIOUS
<1>8. /\ h \in Seq(Entries) /\ Len(h) = n
      /\ h[i] = heap[n] /\ \A k \in 1..n : k # i /\ k # n => h[k] = heap[k]
  <2>1. n \in DOMAIN heap
    BY <1>4, <1>5
  <2>2. i \in DOMAIN heap
    BY <1>4
  <2>4. h \in Seq(Entries)
    BY <1>6, <2>1, <2>2, ExchangedIs
  <2>5. Len(h) = Len(heap)
    BY <1>6, <2>1, <2>2, ExchangedIs
  <2>6. h[i] = heap[n]
    BY <1>6, <2>1, <2>2, ExchangedIs
  <2>7. ASSUME NEW k \in 1..Len(heap), k # i, k # n PROVE h[k] = heap[k]
    BY <1>6, <2>1, <2>2, <2>7, HeapIs DEF Exchanged
  <2> QED
    BY <1>4, <2>4, <2>5, <2>6, <2>7
<1>9. /\ p \in [Timers -> Nat] /\ p[heap[i].timer] = n /\ p[heap[n].timer] = i
      /\ \A u \in Timers : u # heap[i].timer /\ u # heap[n].timer => p[u] = place[u]
  BY <1>4, <1>5, <1>7, PlacesExchangedIs
<1>10. /\ heap' = SubSeq(h, 1, n - 1) /\ place' = [p EXCEPT ![t] = NoPlace] /\ index' = i
       /\ sift' = IF i = n THEN "none" ELSE IF i > 1 /\ Earlier(n, Parent(i)) THEN "up" ELSE "down"
  BY <1>2, <1>4, <1>6, <1>7 DEF TakeOut
<1>11. /\ heap' \in Seq(Entries) /\ Len(heap') = n - 1 /\ DOMAIN heap' = 1..n - 1
       /\ \A k \in 1..n - 1 : heap'[k] = h[k]
  BY <1>5, <1>8, <1>10
<1>12. \A k \in 1..n - 1 : heap'[k] = IF k = i THEN heap[n] ELSE heap[k]
  <2>1. ASSUME NEW k \in 1..n - 1 PROVE heap'[k] = IF k = i THEN heap[n] ELSE heap[k]
    <3>1. k \in 1..n /\ k # n
      BY <1>5
    <3> QED
      BY <1>8, <1>11, <3>1
  <2> QED
    BY <2>1
<1>13. place' \in [Timers -> Nat] /\ \A u \in Timers : u # t => place'[u] = p[u]
  BY <1>9, <1>10 DEF NoPlace
<1>14. heap[i].timer = t
  BY <1>1, <1>4
<1>15. i # n => place'[heap[n].timer] = i
  <2>1. i # n => heap[n].timer # heap[i].timer
    BY <1>4, <1>5, OwnPlace
  <2>2. heap[n].timer \in Timers
    BY <1>4, <1>5, HeapIs
  <2> QED
    BY <1>9, <1>13, <1>14, <2>1, <2>2
<1>16. \A u \in Timers : u # t /\ u # heap[n].timer => place'[u] = place[u]
  BY <1>9, <1>13, <1>14
<1>17. /\ i \in 1..n /\ n = Len(heap) /\ DOMAIN heap = 1..n /\ i = place[t] /\ n > 0 /\ n - 1 \in Nat
       /\ heap' \in Seq(Entries) /\ Len(heap') = n - 1 /\ DOMAIN heap' = 1..n - 1
       /\ place' \in [Timers -> Nat] /\ index' = i
  BY <1>4, <1>5, <1>10, <1>11, <1>13
<1> QED
  BY <1>10, <1>12, <1>15, <1>16, <1>17, ZenonT(30)

LEMMA RemoveKeepsPlaces ==
    ASSUME TimerTypeOK, TimersKnowTheirPlaces, NEW t \in active, RemoveTimer(t),
           \A u \in active : u # t => waits'[u] = waits[u]
    PROVE  TimersKnowTheirPlaces'
<1>1. PICK n \in Nat, i \in Nat :
              /\ i \in 1..n /\ n = Len(heap) /\ DOMAIN heap = 1..n /\ i = place[t] /\ n > 0 /\ n - 1 \in Nat
              /\ heap' \in Seq(Entries) /\ Len(heap') = n - 1 /\ DOMAIN heap' = 1..n - 1
              /\ \A k \in 1..n - 1 : heap'[k] = IF k = i THEN heap[n] ELSE heap[k]
              /\ place' \in [Timers -> Nat]
              /\ i # n => place'[heap[n].timer] = i
              /\ \A u \in Timers : u # t /\ u # heap[n].timer => place'[u] = place[u]
  BY TakenOut, Zenon
<1>2. active' = active \ {t} /\ due' = [due EXCEPT ![t] = 0] /\ heap[i].timer = t
  <2>1. heap[place[t]] = EntryOf(t) /\ EntryOf(t).timer = t
    BY DEF TimersKnowTheirPlaces, EntryOf
  <2> QED
    BY <1>1, <2>1 DEF RemoveTimer
<1>3. n \in 1..n
  BY <1>1
<1>4. ASSUME NEW u \in active'
      PROVE  place'[u] \in DOMAIN heap' /\ heap'[place'[u]] = EntryOf(u)' /\ waits'[u] > 0
  <2>1. /\ u \in active /\ u # t /\ u \in Timers
        /\ place[u] \in 1..n /\ heap[place[u]] = EntryOf(u) /\ waits[u] > 0
    BY <1>1, <1>2 DEF TimersKnowTheirPlaces, TimerTypeOK
  <2>2. waits'[u] = waits[u] /\ EntryOf(u)' = EntryOf(u) /\ heap[place[u]].timer = u
    BY <1>2, <2>1 DEF EntryOf, TimerTypeOK
  <2>3. PICK k \in 1..n : k = place[u] /\ k # i
    BY <1>2, <2>1, <2>2
  <2>4. CASE k = n
    <3>1. i # n /\ heap[n].timer = u
      BY <2>2, <2>3, <2>4
    <3>2. place'[u] = i /\ i \in 1..n - 1
      BY <1>1, <3>1
    <3> QED
      BY <1>1, <2>1, <2>2, <2>3, <2>4, <3>2
  <2>5. CASE k # n
    <3>1. heap[n].timer # u
      BY <1>1, <1>3, <2>2, <2>3, <2>5, OwnPlace
    <3>2. place'[u] = k /\ k \in 1..n - 1
      BY <1>1, <2>1, <2>3, <2>5, <3>1
    <3> QED
      BY <1>1, <2>1, <2>2, <2>3, <3>2
  <2> QED
    BY <2>4, <2>5
<1>5. ASSUME NEW k \in DOMAIN heap'
      PROVE  heap'[k].timer \in active' /\ place'[heap'[k].timer] = k
  <2>1. k \in 1..n - 1 /\ k \in 1..n /\ k # n
    BY <1>1
  <2>2. CASE k = i
    <3>1. heap'[k] = heap[n] /\ i # n
      BY <1>1, <2>1, <2>2
    <3>2. heap[n].timer \in active /\ heap[n].timer # t
      BY <1>1, <1>2, <1>3, <3>1, OwnPlace DEF TimersKnowTheirPlaces
    <3> QED
      BY <1>1, <1>2, <2>2, <3>1, <3>2
  <2>3. CASE k # i
    <3>1. heap'[k] = heap[k]
      BY <1>1, <2>1, <2>3
    <3>2. heap[k].timer \in active /\ place[heap[k].timer] = k /\ heap[k].timer # t /\ heap[k].timer # heap[n].timer
      BY <1>1, <1>2, <1>3, <2>1, <2>3, OwnPlace DEF TimersKnowTheirPlaces
    <3>3. heap[k].timer \in Timers
      BY <3>2 DEF TimerTypeOK
    <3> QED
      BY <1>1, <1>2, <3>1, <3>2, <3>3
  <2> QED
    BY <2>2, <2>3
<1> QED
  BY <1>4, <1>5 DEF TimersKnowTheirPlaces

LEMMA RemoveKeepsOrder ==
    ASSUME TimerTypeOK, TimersKnowTheirPlaces, HeapOrder, sift = "none",
           NEW t \in active, RemoveTimer(t)
    PROVE  HeapOrder' /\ sift' \in {"none", "up", "down"} /\ index' \in Nat
<1>1. PICK n \in Nat, i \in Nat :
              /\ i \in 1..n /\ n = Len(heap) /\ DOMAIN heap = 1..n /\ n > 0
              /\ Len(heap') = n - 1 /\ DOMAIN heap' = 1..n - 1
              /\ \A k \in 1..n - 1 : heap'[k] = IF k = i THEN heap[n] ELSE heap[k]
              /\ index' = i
              /\ sift' = IF i = n THEN "none"
                         ELSE IF i > 1 /\ Earlier(n, Parent(i)) THEN "up" ELSE "down"
  BY TakenOut, Zenon
<1>2. n \in 1..n /\ i \in Nat /\ n - 1 \in Nat
  BY <1>1
<1>3. \A k \in 1..n : heap[k].time \in Nat
  BY <1>1, HeapIs
<1>4. \A k \in 2..n : heap[Parent(k)].time <= heap[k].time
  BY <1>1 DEF HeapOrder, Under
<1>5. \A k \in 1..n - 1 : heap'[k].time = IF k = i THEN heap[n].time ELSE heap[k].time
  BY <1>1
\* What is below the entry taken out is not earlier than what is above it.
<1>6. ASSUME NEW k \in 2..n, i > 1, Parent(k) = i PROVE heap[Parent(i)].time <= heap[k].time
  <2>1. PICK p \in 1..n : p = Parent(i) /\ i \in 2..n
    <3>1. i \in 2..n
      BY <1>1, <1>6
    <3>2. Parent(i) \in 1..n
      BY <3>1, ParentIs
    <3> QED
      BY <3>1, <3>2
  <2>2. heap[p].time <= heap[i].time /\ heap[i].time <= heap[k].time
    BY <1>4, <1>6, <2>1
  <2>3. k \in 1..n
    OBVIOUS
  <2>4. heap[p].time \in Nat /\ heap[i].time \in Nat /\ heap[k].time \in Nat
    BY <1>3, <2>1, <2>3
  <2> QED
    BY <2>1, <2>2, <2>4
<1>7. ASSUME NEW k \in 2..n - 1
      PROVE  /\ \/ sift' = "up" /\ k = i
                \/ sift' = "down" /\ Parent(k) = i
                \/ heap'[Parent(k)].time <= heap'[k].time
             /\ sift' # "none" /\ i > 1 /\ Parent(k) = i => heap'[Parent(i)].time <= heap'[k].time
  <2>1. PICK q \in Nat : q = Parent(k) /\ q \in 1..n - 1 /\ q # k /\ k \in 1..n - 1 /\ k \in 2..n
    <3>1. k \in 2..n
      BY <1>2
    <3> QED
      BY <1>2, <3>1, ParentIs
  <2>2. heap[q].time <= heap[k].time
    BY <1>4, <2>1
  <2>3. CASE k # i /\ q # i
    BY <1>5, <2>1, <2>2, <2>3
  <2>4. CASE k = i
    <3>1. i # n /\ i > 1
      BY <1>2, <2>1, <2>4
    <3>2. CASE Earlier(n, Parent(i))
      BY <1>1, <2>1, <2>4, <3>1, <3>2
    <3>3. CASE ~Earlier(n, Parent(i))
      <4>1. ~(heap[n].time < heap[q].time)
        BY <2>1, <2>4, <3>3 DEF Earlier
      <4>2. heap[n].time \in Nat /\ heap[q].time \in Nat
        <5>1. q \in 1..n
          BY <1>2, <2>1
        <5> QED
          BY <1>2, <1>3, <5>1
      <4>3. heap[q].time <= heap[n].time
        BY <4>1, <4>2
      <4> QED
        BY <1>5, <2>1, <2>4, <4>3
    <3> QED
      BY <3>2, <3>3
  <2>5. CASE q = i
    <3>1. i # n /\ k # i
      BY <1>2, <2>1, <2>5
    <3>2. ASSUME i > 1
          PROVE  heap'[Parent(i)].time <= heap'[k].time /\ heap[Parent(i)].time <= heap[k].time
                 /\ Parent(i) \in 1..n
      <4>1. PICK p \in Nat : p = Parent(i) /\ p \in 1..n - 1 /\ p # i /\ p \in 1..n
        <5>1. i \in 2..n - 1
          BY <2>1, <2>5, <3>2
        <5>2. Parent(i) \in 1..n - 1 /\ Parent(i) # i /\ Parent(i) \in Nat
          BY <1>2, <5>1, ParentIs
        <5> QED
          BY <1>2, <5>2
      <4>2. heap[p].time <= heap[k].time
        BY <1>6, <2>1, <2>5, <3>2, <4>1
      <4> QED
        BY <1>5, <2>1, <3>1, <4>1, <4>2
    <3>3. CASE i > 1 /\ Earlier(n, Parent(i))
      <4>1. heap[n].time < heap[Parent(i)].time /\ heap[Parent(i)].time <= heap[k].time /\ Parent(i) \in 1..n
        BY <3>2, <3>3 DEF Earlier
      <4>2. heap[n].time \in Nat /\ heap[Parent(i)].time \in Nat /\ heap[k].time \in Nat
        <5>1. k \in 1..n
          BY <1>2, <2>1
        <5> QED
          BY <1>2, <1>3, <4>1, <5>1
      <4>3. heap[n].time <= heap[k].time
        BY <4>1, <4>2
      <4>4. heap'[q].time <= heap'[k].time
        BY <1>5, <2>1, <2>5, <3>1, <4>3
      <4> QED
        BY <2>1, <3>2, <3>3, <4>4
    <3>4. CASE ~(i > 1 /\ Earlier(n, Parent(i)))
      <4>1. sift' = "down"
        BY <1>1, <3>1, <3>4
      <4> QED
        BY <2>1, <2>5, <3>2, <4>1
    <3> QED
      BY <3>3, <3>4
  <2> QED
    BY <2>3, <2>4, <2>5
<1>8. sift' # "none" => index' \in DOMAIN heap'
  <2>1. sift' # "none" => i # n
    BY <1>1
  <2> QED
    BY <1>1, <1>2, <2>1
<1>9. sift' \in {"none", "up", "down"} /\ index' \in Nat
  BY <1>1, <1>2
<1> QED
  BY <1>1, <1>7, <1>8, <1>9 DEF HeapOrder, Under

\* When no loop runs, the entry in front is the earliest.
LEMMA FrontIsEarliest ==
    ASSUME TimerTypeOK, HeapOrder, sift = "none"
    PROVE  \A i \in DOMAIN heap : heap[1].time <= heap[i].time
<1>1. PICK n \in Nat : n = Len(heap) /\ DOMAIN heap = 1..n
  BY HeapIs
<1>2. \A i \in 1..n : heap[i].time \in Nat
  BY <1>1, HeapIs
<1>3. \A i \in 2..n : heap[Parent(i)].time <= heap[i].time
  BY <1>1 DEF HeapOrder, Under
<1> DEFINE Late == {i \in 1..n : ~(heap[1].time <= heap[i].time)}
<1>4. SUFFICES ASSUME Late # {} PROVE FALSE
  BY <1>1
<1>5. PICK i \in Late : \A k \in Late : ~(k < i)
  <2>1. Late \subseteq Nat
    OBVIOUS
  <2> DEFINE R == OpToRel(<, Nat)
  <2>2. IsWellFoundedOn(R, Nat)
    BY NatLessThanWellFounded, Zenon
  <2>3. \A x, y \in Nat : x < y => <<x, y>> \in R
    BY DEF OpToRel
  <2> HIDE DEF R, Late
  <2>4. PICK x \in Late : \A y \in Late : <<y, x>> \notin R
    BY <1>4, <2>1, <2>2, WFMin, Zenon
  <2> QED
    BY <2>1, <2>3, <2>4
<1>6. i \in 1..n /\ ~(heap[1].time <= heap[i].time)
  BY <1>5
<1>7. i \in 2..n
  <2>1. 1 \in 1..n
    BY <1>6
  <2>2. i # 1
    BY <1>2, <1>6, <2>1
  <2> QED
    BY <1>6, <2>2
<1>8. PICK p \in 1..n : p = Parent(i) /\ p < i
  BY <1>1, <1>7, ParentIs
<1>9. heap[1].time <= heap[p].time
  BY <1>5, <1>8
<1>10. heap[p].time <= heap[i].time /\ 1 \in 1..n
  BY <1>3, <1>6, <1>7, <1>8
<1> QED
  BY <1>2, <1>6, <1>8, <1>9, <1>10

\* An active timer's entry: at its place, with the time it is due.
LEMMA ActiveEntry ==
    ASSUME TimerTypeOK, TimersKnowTheirPlaces, NEW t \in active
    PROVE  /\ t \in Timers /\ place[t] \in DOMAIN heap /\ heap[place[t]] = EntryOf(t)
           /\ EntryOf(t) \in Entries /\ due[t] \in Times /\ due[t] \in Nat
           /\ heap[place[t]].time = due[t] /\ EntryOf(t).timer = t
<1>1. t \in Timers /\ place[t] \in DOMAIN heap /\ heap[place[t]] = EntryOf(t)
  BY DEF TimerTypeOK, TimersKnowTheirPlaces
<1>2. EntryOf(t) \in Entries
  BY <1>1, HeapIs
<1>3. EntryOf(t).time = due[t] /\ EntryOf(t).timer = t
  BY DEF EntryOf
<1>4. due[t] \in Times
  BY <1>2, <1>3 DEF Entries
<1> QED
  BY <1>1, <1>2, <1>3, <1>4, AsioTimerQueueAssumption

LEMMA FrontIsDueFirst ==
    ASSUME TimerTypeOK, TimersKnowTheirPlaces, HeapOrder, sift = "none"
    PROVE  \A t \in active : heap # <<>> /\ heap[1].time <= due[t]
<1>1. ASSUME NEW t \in active PROVE heap # <<>> /\ heap[1].time <= due[t]
  <2>1. place[t] \in DOMAIN heap /\ heap[place[t]].time = due[t]
    BY ActiveEntry
  <2>2. heap[1].time <= heap[place[t]].time
    BY <2>1, FrontIsEarliest
  <2>3. heap # <<>>
    BY <2>1
  <2> QED
    BY <2>1, <2>2, <2>3
<1> QED
  BY <1>1

-----------------------------------------------------------------------------

LEMMA FiringStays ==
    ASSUME Firing, DueFireInOrder, UNCHANGED <<active, now, popping, fired, expected, due>>
    PROVE  Firing' /\ DueFireInOrder'
  BY DEF Firing, DueFireInOrder, EntryOf

LEMMA UpHeapKeepsInv ==
    ASSUME TimerInv, UpHeap
    PROVE  TimerInv'
<1>1. TimerTypeOK /\ TimersKnowTheirPlaces /\ HeapOrder /\ Firing /\ DueFireInOrder
  BY DEF TimerInv
<1>2. sift = "up" /\ UNCHANGED <<active, waits, now, popping, fired, expected, due>>
  BY DEF UpHeap
<1>3. Firing' /\ DueFireInOrder'
  BY <1>1, <1>2, FiringStays
<1>4. CASE index > 1 /\ Earlier(index, Parent(index))
  <2>1. SwapHeap(index, Parent(index)) /\ index' = Parent(index) /\ sift' = "up"
    BY <1>2, <1>4 DEF UpHeap
  <2>2. PICK n \in Nat : n = Len(heap) /\ index \in 1..n /\ DOMAIN heap = 1..n /\ index \in Nat
    BY <1>1, <1>2, IndexIs
  <2>3. Parent(index) \in DOMAIN heap /\ Parent(index) \in Nat /\ index \in DOMAIN heap
    <3>1. index \in 2..n
      BY <1>4, <2>2
    <3> QED
      BY <2>2, <3>1, ParentIs
  <2>4. TimerTypeOK' /\ TimersKnowTheirPlaces'
    BY <1>1, <1>2, <2>1, <2>3, SwapKeepsPlaces
  <2>5. HeapOrder'
    BY <1>1, <1>2, <1>4, <2>1, UpKeepsOrder
  <2> QED
    BY <1>3, <2>4, <2>5 DEF TimerInv
<1>5. CASE ~(index > 1 /\ Earlier(index, Parent(index)))
  <2>1. sift' = "none" /\ UNCHANGED <<heap, place, index>>
    BY <1>2, <1>5 DEF UpHeap
  <2>2. \A i \in 2..Len(heap) : Under(Parent(i), i)
    BY <1>1, <1>2, <1>5, UpEnds
  <2>3. HeapOrder'
    BY <2>1, <2>2 DEF HeapOrder, Under
  <2>4. TimerTypeOK' /\ TimersKnowTheirPlaces'
    BY <1>1, <1>2, <2>1 DEF TimerTypeOK, TimersKnowTheirPlaces, EntryOf
  <2> QED
    BY <1>3, <2>3, <2>4 DEF TimerInv
<1> QED
  BY <1>4, <1>5

LEMMA DownHeapKeepsInv ==
    ASSUME TimerInv, DownHeap
    PROVE  TimerInv'
<1>1. TimerTypeOK /\ TimersKnowTheirPlaces /\ HeapOrder /\ Firing /\ DueFireInOrder
  BY DEF TimerInv
<1>2. sift = "down" /\ UNCHANGED <<active, waits, now, popping, fired, expected, due>>
  BY DEF DownHeap
<1>3. Firing' /\ DueFireInOrder'
  BY <1>1, <1>2, FiringStays
<1>4. CASE 2 * index <= Len(heap) /\ ~Earlier(index, MinChild(index))
  <2>1. SwapHeap(index, MinChild(index)) /\ index' = MinChild(index) /\ sift' = "down"
    BY <1>2, <1>4 DEF DownHeap
  <2>2. PICK n \in Nat : n = Len(heap) /\ index \in 1..n /\ DOMAIN heap = 1..n /\ index \in Nat
    BY <1>1, <1>2, IndexIs
  <2>3. MinChild(index) \in DOMAIN heap /\ MinChild(index) \in Nat /\ index \in DOMAIN heap
    <3>1. MinChild(index) \in 2..n
      BY <1>1, <1>4, <2>2, MinChildIs
    <3> QED
      BY <2>2, <3>1
  <2>4. TimerTypeOK' /\ TimersKnowTheirPlaces'
    BY <1>1, <1>2, <2>1, <2>3, SwapKeepsPlaces
  <2>5. HeapOrder'
    BY <1>1, <1>2, <1>4, <2>1, DownKeepsOrder
  <2> QED
    BY <1>3, <2>4, <2>5 DEF TimerInv
<1>5. CASE ~(2 * index <= Len(heap) /\ ~Earlier(index, MinChild(index)))
  <2>1. sift' = "none" /\ UNCHANGED <<heap, place, index>>
    BY <1>2, <1>5 DEF DownHeap
  <2>2. \A i \in 2..Len(heap) : Under(Parent(i), i)
    BY <1>1, <1>2, <1>5, DownEnds
  <2>3. HeapOrder'
    BY <2>1, <2>2 DEF HeapOrder, Under
  <2>4. TimerTypeOK' /\ TimersKnowTheirPlaces'
    BY <1>1, <1>2, <2>1 DEF TimerTypeOK, TimersKnowTheirPlaces, EntryOf
  <2> QED
    BY <1>3, <2>3, <2>4 DEF TimerInv
<1> QED
  BY <1>4, <1>5

\* An operation that is not get_ready_timers leaves nothing fired and nothing expected.
LEMMA ForgetKeepsFiring ==
    ASSUME Forget, ~popping, UNCHANGED popping
    PROVE  Firing' /\ DueFireInOrder' /\ fired' \in Seq(Entries) /\ expected' \subseteq Entries
<1>1. fired' = <<>> /\ expected' = {} /\ ~popping'
  BY DEF Forget
<1>2. DOMAIN fired' = {} /\ {fired'[i] : i \in DOMAIN fired'} = {}
  BY <1>1
<1> QED
  BY <1>1, <1>2 DEF Firing, DueFireInOrder

\* The heap with one more entry at its end.
LEMMA AppendedIs ==
    ASSUME TimerTypeOK, NEW e \in Entries
    PROVE  /\ Append(heap, e) \in Seq(Entries) /\ Len(Append(heap, e)) = Len(heap) + 1
           /\ DOMAIN Append(heap, e) = 1..Len(heap) + 1
           /\ Append(heap, e)[Len(heap) + 1] = e
           /\ \A k \in 1..Len(heap) : Append(heap, e)[k] = heap[k]
<1>1. heap \in Seq(Entries)
  BY DEF TimerTypeOK
<1>2. Append(heap, e) \in Seq(Entries) /\ Len(Append(heap, e)) = Len(heap) + 1
  BY <1>1
<1>3. DOMAIN Append(heap, e) = 1..Len(heap) + 1
  BY <1>1, <1>2
<1>4. Append(heap, e)[Len(heap) + 1] = e
  BY <1>1
<1>5. ASSUME NEW k \in 1..Len(heap) PROVE Append(heap, e)[k] = heap[k]
  BY <1>1
<1> QED
  BY <1>2, <1>3, <1>4, <1>5

LEMMA EnqueueKeepsInv ==
    ASSUME TimerInv, NEW t \in Timers, NEW time \in Times, Enqueue(t, time)
    PROVE  TimerInv'
<1>1. TimerTypeOK /\ TimersKnowTheirPlaces /\ HeapOrder /\ sift = "none" /\ ~popping
  BY DEF TimerInv, Enqueue, Free
<1>2. PICK e : e = [time |-> time, timer |-> t]
  OBVIOUS
<1>3. e \in Entries /\ e.timer = t /\ e.time = time /\ time \in Nat
  BY <1>2, AsioTimerQueueAssumption DEF Entries
<1>4. /\ heap' = Append(heap, e) /\ place' = [place EXCEPT ![t] = Len(heap) + 1]
      /\ sift' = "up" /\ index' = Len(heap) + 1 /\ active' = active \cup {t} /\ t \notin active
      /\ waits' = [waits EXCEPT ![t] = 1] /\ due' = [due EXCEPT ![t] = time]
      /\ Forget /\ now' = now /\ popping' = popping
  BY <1>2 DEF Enqueue, Active
<1>5. PICK n \in Nat : /\ n = Len(heap) /\ DOMAIN heap = 1..n
                       /\ heap' \in Seq(Entries) /\ Len(heap') = n + 1 /\ DOMAIN heap' = 1..n + 1
                       /\ heap'[n + 1] = e /\ \A k \in 1..n : heap'[k] = heap[k]
  <2>1. Len(heap) \in Nat /\ DOMAIN heap = 1..Len(heap)
    BY <1>1, HeapIs
  <2>2. /\ Append(heap, e) \in Seq(Entries) /\ Len(Append(heap, e)) = Len(heap) + 1
        /\ DOMAIN Append(heap, e) = 1..Len(heap) + 1
        /\ Append(heap, e)[Len(heap) + 1] = e
        /\ \A k \in 1..Len(heap) : Append(heap, e)[k] = heap[k]
    BY <1>1, <1>3, AppendedIs, Zenon
  <2> QED
    BY <1>4, <2>1, <2>2, Zenon
<1>6. Firing' /\ DueFireInOrder' /\ fired' \in Seq(Entries) /\ expected' \subseteq Entries
  BY <1>1, <1>4, ForgetKeepsFiring
<1>7. place \in [Timers -> Nat] /\ waits \in [Timers -> 0..MaxWaits] /\ due \in [Timers -> Times \cup {0}] /\ active \subseteq Timers
  BY <1>1 DEF TimerTypeOK
<1>8. /\ place' \in [Timers -> Nat] /\ waits' \in [Timers -> 0..MaxWaits]
      /\ due' \in [Timers -> Times \cup {0}] /\ active' \subseteq Timers
      /\ sift' \in {"none", "up", "down"} /\ index' \in Nat
  <2>1. 1 \in 0..MaxWaits /\ n + 1 \in Nat
    BY AsioTimerQueueAssumption
  <2> QED
    BY <1>4, <1>5, <1>7, <2>1
<1>9. TimerTypeOK'
  BY <1>1, <1>4, <1>5, <1>6, <1>8 DEF TimerTypeOK
<1>10. ASSUME NEW u \in active'
       PROVE  place'[u] \in DOMAIN heap' /\ heap'[place'[u]] = EntryOf(u)' /\ waits'[u] > 0
  <2>1. CASE u = t
    <3>1. place'[t] = n + 1 /\ waits'[t] = 1 /\ due'[t] = time
      BY <1>4, <1>5, <1>7
    <3>2. EntryOf(t)' = e
      BY <1>2, <3>1 DEF EntryOf
    <3> QED
      BY <1>5, <2>1, <3>1, <3>2
  <2>2. CASE u # t
    <3>1. u \in active /\ u \in Timers /\ place[u] \in 1..n /\ heap[place[u]] = EntryOf(u) /\ waits[u] > 0
      BY <1>1, <1>4, <1>5, <1>7, <2>2 DEF TimersKnowTheirPlaces
    <3>2. place'[u] = place[u] /\ waits'[u] = waits[u] /\ EntryOf(u)' = EntryOf(u)
      BY <1>4, <1>7, <2>2, <3>1 DEF EntryOf
    <3>3. place[u] \in 1..n + 1
      BY <3>1
    <3> QED
      BY <1>5, <3>1, <3>2, <3>3
  <2> QED
    BY <2>1, <2>2
<1>11. ASSUME NEW k \in DOMAIN heap'
       PROVE  heap'[k].timer \in active' /\ place'[heap'[k].timer] = k
  <2>1. CASE k = n + 1
    BY <1>3, <1>4, <1>5, <1>7, <2>1
  <2>2. CASE k # n + 1
    <3>1. k \in 1..n
      BY <1>5, <2>2
    <3>2. heap[k].timer \in active /\ place[heap[k].timer] = k /\ heap[k].timer # t
      BY <1>1, <1>4, <1>5, <3>1 DEF TimersKnowTheirPlaces
    <3> QED
      BY <1>4, <1>5, <1>7, <3>1, <3>2
  <2> QED
    BY <2>1, <2>2
<1>12. HeapOrder'
  <2>1. index' = n + 1 /\ n + 1 \in 1..n + 1
    BY <1>4, <1>5
  <2>2. ASSUME NEW i \in 2..n + 1
        PROVE  /\ i = n + 1 \/ heap'[Parent(i)].time <= heap'[i].time
               /\ Parent(i) # n + 1
    <3>1. Parent(i) \in 1..n + 1 /\ Parent(i) < i /\ i \in Nat /\ Parent(i) \in Nat
      BY ParentIs
    <3>2. Parent(i) \in 1..n /\ Parent(i) # n + 1
      BY <3>1
    <3>3. CASE i # n + 1
      <4>1. i \in 2..n /\ i \in 1..n
        BY <3>3
      <4>2. heap[Parent(i)].time <= heap[i].time
        BY <1>1, <1>5, <4>1 DEF HeapOrder, Under
      <4> QED
        BY <1>5, <3>2, <4>1, <4>2
    <3> QED
      BY <3>2, <3>3
  <2> QED
    BY <1>4, <1>5, <2>1, <2>2 DEF HeapOrder, Under
<1> QED
  BY <1>6, <1>9, <1>10, <1>11, <1>12 DEF TimerInv, TimersKnowTheirPlaces

LEMMA EnqueueAgainKeepsInv ==
    ASSUME TimerInv, NEW t \in Timers, EnqueueAgain(t)
    PROVE  TimerInv'
<1>1. TimerTypeOK /\ TimersKnowTheirPlaces /\ HeapOrder /\ ~popping
  BY DEF TimerInv, EnqueueAgain, Free
<1>2. /\ waits[t] < MaxWaits /\ waits' = [waits EXCEPT ![t] = waits[t] + 1]
      /\ Forget /\ UNCHANGED <<heap, place, active, now, sift, index, popping, due>>
  BY DEF EnqueueAgain
<1>3. Firing' /\ DueFireInOrder' /\ fired' \in Seq(Entries) /\ expected' \subseteq Entries
  BY <1>1, <1>2, ForgetKeepsFiring
<1>4. waits \in [Timers -> 0..MaxWaits] /\ MaxWaits \in Nat /\ active \subseteq Timers
  BY <1>1, AsioTimerQueueAssumption DEF TimerTypeOK
<1>5. waits[t] + 1 \in 0..MaxWaits /\ waits[t] + 1 > 0
  BY <1>2, <1>4
<1>6. waits' \in [Timers -> 0..MaxWaits] /\ waits'[t] > 0 /\ \A u \in Timers : u # t => waits'[u] = waits[u]
  BY <1>2, <1>4, <1>5
<1>7. TimerTypeOK'
  BY <1>1, <1>2, <1>3, <1>6 DEF TimerTypeOK
<1>8. \A u \in active : waits'[u] > 0
  BY <1>1, <1>4, <1>6 DEF TimersKnowTheirPlaces
<1>9. TimersKnowTheirPlaces'
  BY <1>1, <1>2, <1>8 DEF TimersKnowTheirPlaces, EntryOf
<1>10. HeapOrder'
  BY <1>1, <1>2 DEF HeapOrder, Under
<1> QED
  BY <1>3, <1>7, <1>9, <1>10 DEF TimerInv

\* A timer leaves: the types and places of the others stay right.
LEMMA RemoveKeepsTypes ==
    ASSUME TimerTypeOK, TimersKnowTheirPlaces, HeapOrder, sift = "none",
           NEW t \in active, RemoveTimer(t)
    PROVE  /\ heap' \in Seq(Entries) /\ place' \in [Timers -> Nat] /\ active' \subseteq Timers
           /\ due' \in [Timers -> Times \cup {0}]
           /\ sift' \in {"none", "up", "down"} /\ index' \in Nat
<1>1. heap' \in Seq(Entries) /\ place' \in [Timers -> Nat]
  BY TakenOut
<1>2. sift' \in {"none", "up", "down"} /\ index' \in Nat
  BY RemoveKeepsOrder
<1>3. active' = active \ {t} /\ due' = [due EXCEPT ![t] = 0]
  BY DEF RemoveTimer
<1> QED
  BY <1>1, <1>2, <1>3 DEF TimerTypeOK

LEMMA CancelTimerKeepsInv ==
    ASSUME TimerInv, NEW t \in Timers, NEW max \in 1..MaxWaits, CancelTimer(t, max)
    PROVE  TimerInv'
<1>1. TimerTypeOK /\ TimersKnowTheirPlaces /\ HeapOrder /\ ~popping /\ sift = "none" /\ t \in active
  BY DEF TimerInv, CancelTimer, Free, Active
<1>2. /\ waits' = [waits EXCEPT ![t] = IF max < waits[t] THEN waits[t] - max ELSE 0]
      /\ Forget /\ now' = now /\ popping' = popping
  BY DEF CancelTimer
<1>3. Firing' /\ DueFireInOrder' /\ fired' \in Seq(Entries) /\ expected' \subseteq Entries
  BY <1>1, <1>2, ForgetKeepsFiring
<1>4. waits \in [Timers -> 0..MaxWaits] /\ MaxWaits \in Nat /\ active \subseteq Timers
  BY <1>1, AsioTimerQueueAssumption DEF TimerTypeOK
<1>5. PICK w \in Nat : w = (IF max < waits[t] THEN waits[t] - max ELSE 0) /\ w \in 0..MaxWaits /\ (max < waits[t] => w > 0)
  <2>1. \A a \in 0..MaxWaits, b \in 1..MaxWaits :
          LET w == IF b < a THEN a - b ELSE 0 IN w \in Nat /\ w \in 0..MaxWaits /\ (b < a => w > 0)
    BY <1>4
  <2>2. waits[t] \in 0..MaxWaits
    BY <1>4
  <2> QED
    BY <2>1, <2>2
<1>6. waits' \in [Timers -> 0..MaxWaits] /\ waits'[t] = w /\ \A u \in Timers : u # t => waits'[u] = waits[u]
  BY <1>2, <1>4, <1>5
<1>7. CASE max < waits[t]
  <2>1. UNCHANGED <<heap, place, active, sift, index, due>>
    BY <1>7 DEF CancelTimer
  <2>2. TimerTypeOK'
    BY <1>1, <1>2, <1>3, <1>6, <2>1 DEF TimerTypeOK
  <2>3. \A u \in active : waits'[u] > 0
    BY <1>1, <1>4, <1>5, <1>6, <1>7 DEF TimersKnowTheirPlaces
  <2>4. TimersKnowTheirPlaces'
    BY <1>1, <2>1, <2>3 DEF TimersKnowTheirPlaces, EntryOf
  <2>5. HeapOrder'
    BY <1>1, <2>1 DEF HeapOrder, Under
  <2> QED
    BY <1>3, <2>2, <2>4, <2>5 DEF TimerInv
<1>8. CASE ~(max < waits[t])
  <2>1. RemoveTimer(t)
    BY <1>8 DEF CancelTimer
  <2>2. TimerTypeOK'
    <3>1. /\ heap' \in Seq(Entries) /\ place' \in [Timers -> Nat] /\ active' \subseteq Timers
          /\ due' \in [Timers -> Times \cup {0}]
          /\ sift' \in {"none", "up", "down"} /\ index' \in Nat
      BY <1>1, <2>1, RemoveKeepsTypes
    <3> QED
      BY <1>1, <1>2, <1>3, <1>6, <3>1 DEF TimerTypeOK
  <2>3. \A u \in active : u # t => waits'[u] = waits[u]
    BY <1>4, <1>6
  <2>4. TimersKnowTheirPlaces'
    BY <1>1, <2>1, <2>3, RemoveKeepsPlaces
  <2>5. HeapOrder'
    BY <1>1, <2>1, RemoveKeepsOrder
  <2> QED
    BY <1>3, <2>2, <2>4, <2>5 DEF TimerInv
<1> QED
  BY <1>7, <1>8

LEMMA GetReadyTimersKeepsInv ==
    ASSUME TimerInv, NEW moment \in Times, GetReadyTimers(moment)
    PROVE  TimerInv'
<1>1. TimerTypeOK /\ TimersKnowTheirPlaces /\ HeapOrder
  BY DEF TimerInv
<1>2. /\ now' = moment /\ popping' = TRUE /\ fired' = <<>>
      /\ expected' = {EntryOf(t) : t \in {u \in active : due[u] <= moment}}
      /\ UNCHANGED <<heap, place, active, waits, sift, index, due>>
  BY DEF GetReadyTimers
<1>3. TimerTypeOK'
  <2>1. expected' \subseteq Entries
    BY <1>1, <1>2, ActiveEntry
  <2>2. fired' \in Seq(Entries)
    BY <1>2
  <2> QED
    BY <1>1, <1>2, <2>1, <2>2 DEF TimerTypeOK
<1>4. TimersKnowTheirPlaces' /\ HeapOrder'
  BY <1>1, <1>2 DEF TimersKnowTheirPlaces, EntryOf, HeapOrder, Under
<1>5. DOMAIN fired' = {}
  BY <1>2
<1>6. Firing'
  <2>1. {fired'[i] : i \in DOMAIN fired'} = {}
    BY <1>5
  <2>2. expected' = {EntryOf(t)' : t \in {u \in active' : due'[u] <= now'}}
    BY <1>2 DEF EntryOf
  <2> QED
    BY <1>5, <2>1, <2>2 DEF Firing
<1>7. DueFireInOrder'
  BY <1>2, <1>5 DEF DueFireInOrder
<1> QED
  BY <1>3, <1>4, <1>6, <1>7 DEF TimerInv

\* The entries fired once the front entry has joined them.
LEMMA FiredIs ==
    ASSUME fired \in Seq(Entries), NEW e \in Entries
    PROVE  \E n \in Nat :
              /\ n = Len(fired) /\ DOMAIN fired = 1..n
              /\ Append(fired, e) \in Seq(Entries) /\ DOMAIN Append(fired, e) = 1..n + 1
              /\ Append(fired, e)[n + 1] = e
              /\ \A k \in 1..n : Append(fired, e)[k] = fired[k]
<1>1. PICK n \in Nat : n = Len(fired) /\ DOMAIN fired = 1..n
  OBVIOUS
<1>2. Append(fired, e) \in Seq(Entries) /\ Len(Append(fired, e)) = n + 1
  BY <1>1
<1>3. DOMAIN Append(fired, e) = 1..n + 1
  BY <1>2
<1>4. Append(fired, e)[n + 1] = e
  BY <1>1
<1>5. ASSUME NEW k \in 1..n PROVE Append(fired, e)[k] = fired[k]
  BY <1>1
<1> QED
  BY <1>1, <1>2, <1>3, <1>4, <1>5

LEMMA TakeFrontKeepsInv ==
    ASSUME TimerInv, TakeFront
    PROVE  TimerInv'
<1>1. /\ TimerTypeOK /\ TimersKnowTheirPlaces /\ HeapOrder /\ Firing /\ DueFireInOrder
      /\ popping /\ sift = "none" /\ now' = now /\ expected' = expected
  BY DEF TimerInv, TakeFront
<1>2. \A u \in active : heap # <<>> /\ heap[1].time <= due[u]
  BY <1>1, FrontIsDueFirst
<1>3. expected = {fired[i] : i \in DOMAIN fired} \cup {EntryOf(u) : u \in {v \in active : due[v] <= now}}
  BY <1>1 DEF Firing
<1>4. now \in Nat
  BY <1>1, AsioTimerQueueAssumption DEF TimerTypeOK
<1>5. CASE heap # <<>> /\ heap[1].time <= now
  <2>1. PICK e, t : e = heap[1] /\ t = heap[1].timer
    OBVIOUS
  <2>2. fired' = Append(fired, e) /\ waits' = [waits EXCEPT ![t] = 0] /\ RemoveTimer(t) /\ popping' = popping
    BY <1>5, <2>1 DEF TakeFront
  <2>3. 1 \in DOMAIN heap
    BY <1>1, <1>5 DEF TimerTypeOK
  <2>4. t \in active /\ place[t] = 1
    BY <1>1, <2>1, <2>3 DEF TimersKnowTheirPlaces
  <2>5. /\ t \in Timers /\ e = EntryOf(t) /\ e \in Entries /\ e.timer = t /\ e.time = due[t]
        /\ due[t] <= now /\ due[t] \in Nat
    BY <1>1, <1>5, <2>1, <2>4, ActiveEntry
  <2>6. \A u \in active : due[t] <= due[u]
    BY <1>2, <2>1, <2>5
  <2>7. /\ active' = active \ {t} /\ due' = [due EXCEPT ![t] = 0]
        /\ \A u \in active' : due'[u] = due[u] /\ EntryOf(u)' = EntryOf(u)
    <3>1. active' = active \ {t} /\ due' = [due EXCEPT ![t] = 0]
      BY <2>2 DEF RemoveTimer
    <3>2. \A u \in active' : u \in Timers /\ u # t
      BY <1>1, <3>1 DEF TimerTypeOK
    <3>3. \A u \in active' : due'[u] = due[u]
      BY <1>1, <3>1, <3>2 DEF TimerTypeOK
    <3> QED
      BY <3>1, <3>3 DEF EntryOf
  <2>8. PICK n \in Nat : /\ n = Len(fired) /\ DOMAIN fired = 1..n
                         /\ fired' \in Seq(Entries) /\ DOMAIN fired' = 1..n + 1
                         /\ fired'[n + 1] = e
                         /\ \A k \in 1..n : fired'[k] = fired[k]
    <3>1. fired \in Seq(Entries)
      BY <1>1 DEF TimerTypeOK
    <3> QED
      BY <2>2, <2>5, <3>1, FiredIs
  <2>9. /\ waits' \in [Timers -> 0..MaxWaits] /\ \A u \in active : u # t => waits'[u] = waits[u]
    <3>1. waits \in [Timers -> 0..MaxWaits] /\ active \subseteq Timers /\ 0 \in 0..MaxWaits
      BY <1>1, AsioTimerQueueAssumption DEF TimerTypeOK
    <3> QED
      BY <2>2, <3>1
  <2>10. TimerTypeOK'
    <3>1. /\ heap' \in Seq(Entries) /\ place' \in [Timers -> Nat] /\ active' \subseteq Timers
          /\ due' \in [Timers -> Times \cup {0}]
          /\ sift' \in {"none", "up", "down"} /\ index' \in Nat
      BY <1>1, <2>2, <2>4, RemoveKeepsTypes
    <3> QED
      BY <1>1, <2>2, <2>8, <2>9, <3>1 DEF TimerTypeOK
  <2>11. TimersKnowTheirPlaces'
    BY <1>1, <2>2, <2>4, <2>9, RemoveKeepsPlaces
  <2>12. HeapOrder'
    BY <1>1, <2>2, <2>4, RemoveKeepsOrder
  <2>13. \A i \in 1..n : fired[i].timer \notin active /\ \A u \in active : fired[i].time <= due[u]
    BY <1>1, <2>8 DEF Firing
  <2>14. Firing'
    <3>1. {fired'[i] : i \in DOMAIN fired'} = {fired[i] : i \in DOMAIN fired} \cup {e}
      <4>1. \A i \in 1..n + 1 : i = n + 1 \/ i \in 1..n
        OBVIOUS
      <4>2. n + 1 \in 1..n + 1 /\ \A i \in 1..n : i \in 1..n + 1
        OBVIOUS
      <4> QED
        BY <2>8, <4>1, <4>2
    <3>2. {EntryOf(u) : u \in {v \in active : due[v] <= now}}
            = {e} \cup {EntryOf(u)' : u \in {v \in active' : due'[v] <= now'}}
      BY <1>1, <2>4, <2>5, <2>7
    <3>3. expected' = {fired'[i] : i \in DOMAIN fired'}
                      \cup {EntryOf(u)' : u \in {v \in active' : due'[v] <= now'}}
      BY <1>1, <1>3, <3>1, <3>2
    <3>4. ASSUME NEW i \in 1..n + 1
          PROVE  fired'[i].timer \notin active' /\ \A u \in active' : fired'[i].time <= due'[u]
      <4>1. CASE i = n + 1
        BY <2>5, <2>6, <2>7, <2>8, <4>1
      <4>2. CASE i # n + 1
        <5>1. i \in 1..n
          BY <4>2
        <5> QED
          BY <2>7, <2>8, <2>13, <5>1
      <4> QED
        BY <4>1, <4>2
    <3> QED
      BY <2>8, <3>3, <3>4 DEF Firing
  <2>15. DueFireInOrder'
    <3>1. ASSUME NEW i \in 1..n + 1, NEW j \in 1..n + 1, i < j
          PROVE  fired'[i].time <= fired'[j].time /\ fired'[i].timer # fired'[j].timer
      <4>1. i \in 1..n
        BY <3>1
      <4>2. CASE j = n + 1
        BY <2>4, <2>5, <2>8, <2>13, <4>1, <4>2
      <4>3. CASE j # n + 1
        <5>1. j \in 1..n
          BY <4>3
        <5> QED
          BY <1>1, <2>8, <3>1, <4>1, <5>1 DEF DueFireInOrder
      <4> QED
        BY <4>2, <4>3
    <3> QED
      BY <1>1, <2>2, <2>8, <3>1 DEF DueFireInOrder
  <2> QED
    BY <2>10, <2>11, <2>12, <2>14, <2>15 DEF TimerInv
<1>6. CASE ~(heap # <<>> /\ heap[1].time <= now)
  <2>1. popping' = FALSE /\ UNCHANGED <<heap, place, active, waits, sift, index, fired, due>>
    BY <1>6 DEF TakeFront
  \* Nothing that is due is left.
  <2>2. ASSUME NEW u \in active PROVE ~(due[u] <= now)
    <3>1. heap # <<>> /\ heap[1].time <= due[u] /\ ~(heap[1].time <= now)
      BY <1>2, <1>6
    <3>2. heap[1].time \in Nat /\ due[u] \in Nat
      <4>1. 1 \in DOMAIN heap
        BY <1>1, <3>1 DEF TimerTypeOK
      <4> QED
        BY <1>1, <4>1, HeapIs, ActiveEntry
    <3> QED
      BY <1>4, <3>1, <3>2
  <2>3. {EntryOf(u) : u \in {v \in active : due[v] <= now}} = {}
    BY <2>2
  <2>4. expected = {fired[i] : i \in DOMAIN fired}
    BY <1>3, <2>3
  <2>5. DueFireInOrder'
    BY <1>1, <2>1, <2>4 DEF DueFireInOrder
  <2>6. TimerTypeOK' /\ TimersKnowTheirPlaces' /\ HeapOrder' /\ Firing'
    BY <1>1, <2>1 DEF TimerTypeOK, TimersKnowTheirPlaces, EntryOf, HeapOrder, Under, Firing
  <2> QED
    BY <2>5, <2>6 DEF TimerInv
<1> QED
  BY <1>5, <1>6

LEMMA MoveTimerKeepsInv ==
    ASSUME TimerInv, NEW t \in Timers, NEW u \in Timers, MoveTimer(t, u)
    PROVE  TimerInv'
<1>1. /\ TimerTypeOK /\ TimersKnowTheirPlaces /\ HeapOrder /\ ~popping /\ sift = "none"
      /\ t \in active /\ u \notin active
  BY DEF TimerInv, MoveTimer, Free, Active
<1>2. /\ place' = [place EXCEPT ![u] = place[t], ![t] = NoPlace]
      /\ heap' = [heap EXCEPT ![place[t]].timer = u]
      /\ active' = (active \ {t}) \cup {u}
      /\ waits' = [waits EXCEPT ![u] = waits[t], ![t] = 0]
      /\ due' = [due EXCEPT ![u] = due[t], ![t] = 0]
      /\ Forget /\ now' = now /\ sift' = sift /\ index' = index /\ popping' = popping
  BY DEF MoveTimer
<1>3. Firing' /\ DueFireInOrder' /\ fired' \in Seq(Entries) /\ expected' \subseteq Entries
  BY <1>1, <1>2, ForgetKeepsFiring
<1>4. /\ place \in [Timers -> Nat] /\ waits \in [Timers -> 0..MaxWaits] /\ active \subseteq Timers
      /\ due \in [Timers -> Times \cup {0}] /\ 0 \in 0..MaxWaits
  BY <1>1, AsioTimerQueueAssumption DEF TimerTypeOK
<1>5. PICK n \in Nat, i \in Nat : n = Len(heap) /\ DOMAIN heap = 1..n /\ i = place[t] /\ i \in 1..n
  <2>1. place[t] \in DOMAIN heap /\ place[t] \in Nat
    BY <1>1, <1>4, ActiveEntry
  <2>2. Len(heap) \in Nat /\ DOMAIN heap = 1..Len(heap)
    BY <1>1, HeapIs
  <2> QED
    BY <2>1, <2>2, Zenon
<1>6. heap[i] = EntryOf(t) /\ heap[i] \in Entries /\ heap[i].timer = t /\ heap[i].time = due[t] /\ due[t] \in Times
  BY <1>1, <1>5, ActiveEntry
<1>7. PICK e \in Entries : e.time = due[t] /\ e.timer = u /\ heap' = [heap EXCEPT ![i] = e]
                           /\ e = [time |-> due[t], timer |-> u]
  <2>1. heap[i] = [time |-> due[t], timer |-> t]
    BY <1>6 DEF EntryOf
  <2>2. [heap[i] EXCEPT !.timer = u] = [time |-> due[t], timer |-> u]
    BY <2>1
  <2>3. heap' = [heap EXCEPT ![i] = [heap[i] EXCEPT !.timer = u]]
    BY <1>2, <1>5
  <2>4. [time |-> due[t], timer |-> u] \in Entries
    BY <1>6 DEF Entries
  <2> QED
    BY <2>2, <2>3, <2>4
<1>8. /\ heap' \in Seq(Entries) /\ Len(heap') = n /\ DOMAIN heap' = 1..n
      /\ heap'[i] = e /\ \A k \in 1..n : k # i => heap'[k] = heap[k]
  <2>1. heap \in Seq(Entries) /\ heap \in [1..n -> Entries]
    BY <1>1, <1>5, HeapIs DEF TimerTypeOK
  <2>2. heap' \in [1..n -> Entries]
    BY <1>7, <2>1
  <2>3. heap' \in Seq(Entries) /\ Len(heap') = n /\ DOMAIN heap' = 1..n
    BY <2>2
  <2>4. heap'[i] = e /\ \A k \in 1..n : k # i => heap'[k] = heap[k]
    BY <1>5, <1>7, <2>1
  <2> QED
    BY <2>3, <2>4
<1>9. t # u
  BY <1>1
<1>10. /\ place' \in [Timers -> Nat] /\ place'[u] = i
       /\ \A v \in Timers : v # t /\ v # u => place'[v] = place[v]
  BY <1>2, <1>4, <1>5, <1>9 DEF NoPlace
<1>11. /\ waits' \in [Timers -> 0..MaxWaits] /\ waits'[u] = waits[t]
       /\ \A v \in Timers : v # t /\ v # u => waits'[v] = waits[v]
  BY <1>2, <1>4, <1>9
<1>12. /\ due' \in [Timers -> Times \cup {0}] /\ due'[u] = due[t]
       /\ \A v \in Timers : v # t /\ v # u => due'[v] = due[v]
  BY <1>2, <1>4, <1>9
<1>13. active' \subseteq Timers
  BY <1>2, <1>4
<1>14. TimerTypeOK'
  BY <1>1, <1>2, <1>3, <1>8, <1>10, <1>11, <1>12, <1>13 DEF TimerTypeOK
<1>15. ASSUME NEW v \in active'
       PROVE  place'[v] \in DOMAIN heap' /\ heap'[place'[v]] = EntryOf(v)' /\ waits'[v] > 0
  <2>1. CASE v = u
    <3>1. EntryOf(u)' = e
      BY <1>7, <1>12 DEF EntryOf
    <3>2. waits[t] > 0
      BY <1>1 DEF TimersKnowTheirPlaces
    <3> QED
      BY <1>5, <1>8, <1>10, <1>11, <2>1, <3>1, <3>2
  <2>2. CASE v # u
    <3>1. v \in active /\ v # t /\ v \in Timers
      BY <1>2, <1>4, <2>2
    <3>2. place[v] \in 1..n /\ heap[place[v]] = EntryOf(v) /\ heap[place[v]].timer = v /\ waits[v] > 0
      BY <1>1, <1>5, <3>1, ActiveEntry DEF TimersKnowTheirPlaces
    <3>3. place[v] # i
      BY <1>6, <3>1, <3>2
    <3>4. place'[v] = place[v] /\ waits'[v] = waits[v] /\ EntryOf(v)' = EntryOf(v)
      BY <1>10, <1>11, <1>12, <2>2, <3>1 DEF EntryOf
    <3> QED
      BY <1>8, <3>2, <3>3, <3>4
  <2> QED
    BY <2>1, <2>2
<1>16. ASSUME NEW k \in DOMAIN heap'
       PROVE  heap'[k].timer \in active' /\ place'[heap'[k].timer] = k
  <2>1. k \in 1..n /\ k \in DOMAIN heap
    BY <1>5, <1>8
  <2>2. CASE k = i
    BY <1>2, <1>7, <1>8, <1>10, <2>2
  <2>3. CASE k # i
    <3>1. heap[k].timer \in active /\ place[heap[k].timer] = k /\ heap[k].timer # t /\ heap[k].timer # u
      BY <1>1, <1>5, <2>1, <2>3 DEF TimersKnowTheirPlaces
    <3> QED
      BY <1>2, <1>4, <1>8, <1>10, <2>1, <2>3, <3>1
  <2> QED
    BY <2>2, <2>3
<1>17. HeapOrder'
  <2>1. \A k \in 1..n : heap'[k].time = heap[k].time
    BY <1>6, <1>7, <1>8
  <2>2. ASSUME NEW k \in 2..n PROVE heap'[Parent(k)].time <= heap'[k].time
    <3>1. Parent(k) \in 1..n /\ k \in 1..n
      BY ParentIs
    <3>2. heap[Parent(k)].time <= heap[k].time
      BY <1>1, <1>5 DEF HeapOrder, Under
    <3> QED
      BY <2>1, <3>1, <3>2
  <2> QED
    BY <1>1, <1>2, <1>8, <2>2 DEF HeapOrder, Under
<1> QED
  BY <1>3, <1>14, <1>15, <1>16, <1>17 DEF TimerInv, TimersKnowTheirPlaces

LEMMA TimersInvariant == TimerSpec => []TimerInv
<1>1. TimerInit => TimerInv
  <2> SUFFICES ASSUME TimerInit PROVE TimerInv
    OBVIOUS
  <2>1. heap = <<>> /\ fired = <<>> /\ DOMAIN heap = {} /\ DOMAIN fired = {} /\ active = {}
    BY DEF TimerInit
  <2>2. TimerTypeOK
    <3>1. 0 \in Nat /\ 0 \in 0..MaxWaits
      BY AsioTimerQueueAssumption
    <3>2. heap \in Seq(Entries) /\ fired \in Seq(Entries) /\ active \subseteq Timers
      BY <2>1
    <3>3. /\ place \in [Timers -> Nat] /\ waits \in [Timers -> 0..MaxWaits]
          /\ due \in [Timers -> Times \cup {0}]
      BY <3>1 DEF TimerInit, NoPlace
    <3>4. /\ now \in Times \cup {0} /\ sift \in {"none", "up", "down"} /\ index \in Nat
          /\ popping \in BOOLEAN /\ expected \subseteq Entries
      BY DEF TimerInit
    <3> QED
      BY <3>2, <3>3, <3>4 DEF TimerTypeOK
  <2>3. TimersKnowTheirPlaces
    BY <2>1 DEF TimersKnowTheirPlaces
  <2>4. HeapOrder
    BY <2>1 DEF TimerInit, HeapOrder
  <2>5. Firing /\ DueFireInOrder
    BY <2>1 DEF TimerInit, Firing, DueFireInOrder
  <2> QED
    BY <2>2, <2>3, <2>4, <2>5 DEF TimerInv
<1>2. TimerInv /\ [TimerNext]_timerVars => TimerInv'
  <2> SUFFICES ASSUME TimerInv, [TimerNext]_timerVars PROVE TimerInv'
    OBVIOUS
  <2>1. CASE UpHeap
    BY <2>1, UpHeapKeepsInv
  <2>2. CASE DownHeap
    BY <2>2, DownHeapKeepsInv
  <2>3. CASE \E t \in Timers, time \in Times : Enqueue(t, time)
    BY <2>3, EnqueueKeepsInv
  <2>4. CASE \E t \in Timers : EnqueueAgain(t)
    BY <2>4, EnqueueAgainKeepsInv
  <2>5. CASE \E t \in Timers, max \in 1..MaxWaits : CancelTimer(t, max)
    BY <2>5, CancelTimerKeepsInv
  <2>6. CASE \E moment \in Times : GetReadyTimers(moment)
    BY <2>6, GetReadyTimersKeepsInv
  <2>7. CASE TakeFront
    BY <2>7, TakeFrontKeepsInv
  <2>8. CASE \E t, u \in Timers : MoveTimer(t, u)
    BY <2>8, MoveTimerKeepsInv
  <2>9. CASE UNCHANGED timerVars
    BY <2>9 DEF timerVars, TimerInv, TimerTypeOK, TimersKnowTheirPlaces, EntryOf, HeapOrder,
                Under, Firing, DueFireInOrder
  <2> QED
    BY <2>1, <2>2, <2>3, <2>4, <2>5, <2>6, <2>7, <2>8, <2>9 DEF TimerNext
<1> QED
  BY <1>1, <1>2, PTL DEF TimerSpec

\* asio's timer_queue keeps its types.
THEOREM TimerTypeCorrect == TimerSpec => []TimerTypeOK
  BY TimersInvariant, PTL DEF TimerInv

\* asio's timer_queue: every active timer is in the heap once, at the place it knows,
\* the earliest is in front whenever no loop runs, and get_ready_timers fires exactly
\* what is due, in the order of its times, however many timers there are and
\* whatever was enqueued, cancelled and moved before.
THEOREM TimersAlwaysFireInOrder == TimerSpec => []TimersFireInOrder
<1>1. TimerInv => TimersFireInOrder
  <2> SUFFICES ASSUME TimerInv PROVE EarliestInFront
    BY DEF TimerInv, TimersFireInOrder
  <2>1. TimerTypeOK /\ TimersKnowTheirPlaces /\ HeapOrder
    BY DEF TimerInv
  <2> QED
    BY <2>1, FrontIsDueFirst DEF EarliestInFront
<1> QED
  BY <1>1, TimersInvariant, PTL

=============================================================================
