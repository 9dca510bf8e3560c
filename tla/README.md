# EnergyPro in TLA+

EnergyPro keeps the customers, bills and energy usage of a utility in one SQLite
file, `energypro.db`. A web server and a console menu change and read it, and
several small programs create and fill it. This directory holds TLA+ models of
that system, TLC configurations that check them, and TLAPS proofs of the
properties that matter most.

## 1. The system

| Part | Source | State it keeps | Operations |
|---|---|---|---|
| Schema and `Database` class | `database.cxx`, `init_db.cpp` | nine tables of `energypro.db` | `createTables`, `addCustomer`, `logEnergyUsage`, `generateFullBill`, `checkOverduePayments`, `exec` |
| `seed_data` | `seed_data.cpp` | its program counter and loop counters | 5 regions, 500 customers, 4 energy types, 3000 usage rows, 500 bills, then the overdue check as of 2025-04-20 |
| `seed_paid_bills` | `seed_paid_bills.cpp` | the same | empties Customers and Bills, restarts their rowids, inserts 500 customers, and 500 bills per region |
| `seed_imports_exports` | `seed_imports_exports.cpp` | the same | 24 rows of Imports_Exports |
| Web server | `server.cpp` | one `sqlite3*` shared by all Crow worker threads; the request each thread serves | customers (list, filter, look up, add, delete), bills, billInfo, regions, five reports, admin login, dashboard, logout |
| Console menu | `customers.cpp` | a connection of its own | list, filter, add, delete, update |
| Pages | `static/*.html`, `static/navbar.js` | the table or chart shown, the cookie | fetch and render; add and delete customers; send a reminder; sign in and out |
| Crow | `crow_all.h` (vendored) | acceptor, workers and their counters, connections with their deadline, parser, response; the tries of routes | accept, read, parse, route, handle, answer, close; start and stop |
| asio | `asio-1.30.2/` (vendored) | the queue of handlers, the event its threads sleep on, the heap of timers | post, run, wake, stop; set, cancel and fire timers |
| SQLite | `sqlite3.h` (vendored, header only) | file locks, the mutex of a connection | statements |

**How they interact.** There is no call between programs: they meet in the file
only. No program opens a transaction, sets a busy timeout or turns
`PRAGMA foreign_keys` on, so every statement commits by itself, a statement that
meets a lock returns `SQLITE_BUSY` at once, and a `FOREIGN KEY` clause is never
enforced. The seed programs and the menu print an error and go on; the server
turns some errors into a 500, some into a 404 and some into an empty list. Inside
the server, handlers run on several threads and meet on one connection, whose
mutex serialises the calls of `sqlite3_step` but not the handlers.

**What is hard to get right.**
- Two programs between any two statements of each other; both seed programs name
  customers by literal numbers while ids come from AUTOINCREMENT.
- A program killed, or one statement refused, in the middle of a sequence that is
  meant as a whole (the overdue check, the emptying of the tables).
- Programs run again on the file they left behind.
- Requests of one server interleaved row by row, writers of other programs that
  wait for readers, answers that must tell whether a write happened.
- Reports that join with tables whose rows may have gone.
- Pages whose answers come late, out of order or not at all, and which act on a table
  they fetched earlier.
- Crow's deadlines, whose numbers are used again; bytes of a request that come in any
  pieces; one response object for all requests of a connection.

`PROJECT.json` lists every such hazard with its line and the property that would
catch it.

**What makes each part correct.**
- *Overdue check*: complete when it ran, justified always, never half in the
  wrong half. (`CheckComplete`, `AtRiskJustified`, `OverdueHasAtRisk`,
  `OneRiskPerCustomer`, `BillsAreFinal`)
- *Customer numbers*: rows never speak of a customer who does not exist yet, a
  new customer starts clean. (`RefsAllocated`, `NewCustomerHasCleanSlate`)
- *Rebuilding*: the same tables whatever was there. (`RebuildComplete`)
- *Requests*: a write answered as done happened once and survives, one answered
  as an error did not; a list is consistent or empty; no lock is left; everyone is
  answered. (`ImplementsRegistry`, `ScanIsolated`, `NoLockLeft`, `Answered`)
- *Reports*: they differ only by bills that have no customer in a known region,
  and it is known what the sales and the expenses report count.
  (`OverdueReportsAgree`, `RevenueIsComplete`, `SalesCountEveryMonth`, `ImportsAddUp`)
- *Pages*: what a page shows together is of one answer, and of the last one when the
  user waits; a confirmed delete stays until the numbers start over, and until then a reminder
  is about the bill and the person of its row; the links agree with the cookie. (`PagesShowOneAnswer`,
  `PaneTellsLastAnswer`, `DeletedStaysGone`, `ReminderIsRight`, `NavbarTruthful`)
- *Schema*: whoever comes first decides the columns, for good, and what that allows.
  (`SchemaIsDecided`)
- *Menu*: an entry that breaks off writes only with a number in the line that broke off, or
  behind the line that says which customer to update, and the end of
  the input never ends the program. (`TruncatedEntryWritesLittle`,
  `EverythingGetsSomewhere`)
- *Crow*: handlers get the requests the client sent, from the route that was
  registered first, with the values that were typed; an answer is framed as its
  headers say; a connection is closed by a deadline of its own and every silent one
  is; connections are made when workers are ready and are dealt evenly.
  (`HandlersGetWhatWasSent`, `RouterFindsFirstMatch`, `QueryIsRead`,
  `ResponseIsFramed`, `DeadlinesAreOwn`, `ServerRunsInOrder`, `EverythingGetsSomewhere`)
- *asio*: no thread sleeps over work, one thread holds the reactor, work is counted
  right, what is due fires, the
  earlier first, whatever was cancelled or moved. (`SchedulerIsSound`, `TimersFireInOrder`,
  `EverythingGetsSomewhere`)

## 2. The modules

```
EnergyDB            tables and SQL statements
 ├─ Seeding         size of the data set, bounds
 │   ├─ SeedData         seed_data
 │   │    └─ LiveSystem  seed_data + server + menu (each write one statement)
 │   │         └─ LiveSystemProofs
 │   └─ SeedPaidBills    seed_paid_bills
 ├─ Reports         the aggregate queries
 │
 FullSystem     = LiveSystem + SeedPaidBills
 ReportsSystem  = FullSystem + Reports
  └─ FullSystemProofs
CustomerRegistry    what callers are promised about Customers (abstract)
 └─ SqliteAccess    handlers, shared connection, locks, crashes (implements it)
     └─ SqliteAccessProofs

CustomersPage  BillingPage  ReportsPage  SalesPage     the pages, with their handlers
AdminSession        cookie, login, logout, navbar.js
 └─ Pages           = the five of them
     └─ PagesProofs

CrowServer          accept, deal to workers, stop
AsioScheduler       the queue behind an io_context
ConsoleMenu         the prompt loop of customers.cpp
 └─ Processes       = the three of them
     └─ ProcessesProofs

CrowConnection      one worker and its timer
CrowResponse        answer to bytes
SchemaBootstrap     who creates the tables
ImportsExports      seed_imports_exports and the expenses report
AsioTimerQueue      the heap of timers
 └─ PartsProofs

CrowParser          bytes to requests
QueryString         text to parameters
 └─ ParserProofs

CrowRouter          URL to handler

SumTheorems         sums over finite sets, for FullSystemProofs and PartsProofs

MCSeedData, MCLiveSystem, MCSqliteAccess               one component each
MCFullSystem        ReportsSystem, and SeedPaidBills alone
MCPages             Pages
MCParts             what a request meets, timers, schema, imports
MCProcesses         Processes, CrowConnection and SqliteAccess: what must get somewhere
```

`MCFullSystem`, `MCPages`, `MCParts` and `MCProcesses` each check several components
that share no variable. A variable (`scope`, `page`, `part`, `what`) is chosen in the
initial state and says which one the behaviour is of; the variables of the others stay
as they begin, so that a property is checked as it would be in a run of its own, under
the fairness of its own module. The state spaces add up, they do not multiply. The MC
modules EXTEND the components whose properties are proved, so that the run and the
theorem speak of the same definition, and INSTANCE the others.

**EnergyDB.** A table is a set of records with the columns the programs tell
apart; names, emails, addresses, months and units are left out. A date is a day
counted from 2024-09-30 (2024-10-01 is 1, 2025-04-20 is 202; 0 is NULL), so that
`julianday(a) - julianday(b)` and the comparison of two ISO dates are what they
are in SQL. One operator per statement. `InsertCustomer`, `InsertUsage` and
`InsertBill` take the next AUTOINCREMENT rowid (`IsNextRowid`), and fail without an
effect when rowids are exhausted at `MaxRowid`. `InsertAtRisk` is
`INSERT OR REPLACE ... SELECT`: the last late bill of a customer, in the order of
rowids, wins.

**SeedData.** `sd` is the process: `pc` names the loop it is in, `i` and `j` its
counters. Each action runs one statement and moves on with `After`. The random
choices (`rand()`) are existential. `SeedStatementFails` is a statement that found
the file locked: its error is printed and the program moves on. `SeedKilled` ends
the process anywhere. `runs` and `fails` count, for the bounds and for the
properties.

**LiveSystem.** Adds the statements of the server and of the menu. Requests that
are refused, statements that are busy and updates of columns that are left out are
stuttering steps. `Rowids` bounds the ids a request may name and `RegionIds` the
regions it may write, which nothing checks against Regions.

**SeedPaidBills.** `sp` is the process; `RebuildAfter` keeps the nesting of the
source, where the loop over the 500 bills is inside the loop over the regions.
`alone` is a history variable: no other program took a step since this run began.

**FullSystem, ReportsSystem.** The composition: an action of LiveSystem clears
`alone`, an action of SeedPaidBills leaves `sd`. `Reports` defines the queries as
functions of the tables, evaluated in any state.

**SqliteAccess.** A client is a server thread or another program. `sess[c]` holds
its handler: `called` (statement prepared), `reading` (between two rows),
`reserved`, `exclusive`, `rollback` (inside the step of a write), `stepped`
(finalize and answer). `MutexHeld` is the mutex of the shared connection,
`FileLocked`, `FileReserved` and `FileRead` are SQLite's locks of a file in
rollback-journal mode, seen from the other connections. `Crash` loses every request
of one process, and what had not committed. `AnswerCode` is the code the handler
computes from the result code it saw. Left out: `SQLITE_BUSY` from
`sqlite3_prepare_v2` (for a list or a write it has the effect of one from the step;
billInfo would answer 500 for 404), the text of an error, and the console's
`filterCustomersByRegion`, whose loop ends silently when the file is busy.

**CustomerRegistry** is the abstract specification. A call takes effect at one
moment; `must` and `may` are the customers who were there all the time, and at some
time, during a read. `SqliteAccess!Calls` is the refinement mapping: a session is
`applied` from its commit on.

**SchemaBootstrap.** `at[p]` is how far program p is in its list of
`CREATE TABLE IF NOT EXISTS`; `schema` says, for each table, whose columns it has.
`AfterRefusal` is the difference between init_db, which goes on, and the server and
the menu, which give up. A request on the file is answered as `answer` says.

**ConsoleMenu.** `menu` is the process with the line it waits for. `ReadId` is a
`std::stoi`, which throws for anything that is no number. `std::getline` hands over what
there is of the last line, so `Read` may end the input with any line; behind it every line is
empty, and the loop prints the menu for ever. `broken` is history: the line in which the input
ended.

**ImportsExports.** `types` are the rows of Energy_Types, `flows` those of
Imports_Exports, `ie` the program. A row is one type and month with a cost.

**CustomersPage.** `formNet` is the set of requests under way, each before or after its
handler; `pane` is what the results section shows and of which request. `overlapped` is
a history variable: the user did not wait for an answer. Handlers are atomic, which is
what `ImplementsRegistry` of SqliteAccess allows. Other programs add and delete too, and
`RebuildTable` is one of the statements with which seed_paid_bills empties the table or starts its
numbers over; `sequence` counts the latter.

**BillingPage.** `table` is the table shown, `billNet` the requests for tables and for reminders, and the
programs that change Bills and Customers. `who` tells two people with the same number
apart. The four statements with which seed_paid_bills empties the two tables and starts their
numbers over are four actions, any of which may be the only one that takes effect; `epoch` counts how often
bills were thrown away or the customers' numbers started over. `OwnerOnRecord` is the owner of a
row whose number is within the sequence: only those numbers are not handed out again.

**AdminSession.** `expires` is the cookie of the browser, `nav[t]` the buttons of a tab,
`modal[t]` its login dialog. The headers of an answer take effect before the callback.
`stale[t]` remembers that the cookie changed after the tab had looked at it.

**ReportsPage, SalesPage.** Requests with answers of different moments: `panel[p]` is
one panel of the reports page with its request, `salesNet` those of the sales page. `count` are
the bills by status and `assigned` those of them the joins find, which `ChangeJoins` changes in any way;
`version` counts the writes and `era` those that threw all bills away (`ThrowBillsAway`). `handle` is
`window.salesChart`, which is the canvas element before the first chart, because an
element's id is a property of the window.

**Pages, Processes.** The components side by side: a specification that is the
conjunction of theirs, and the properties that several of them share. They have no
variable in common.

**CrowServer.** `wstate[w]` is a worker thread; `pending` the accept under way;
`given[w]` the connections posted to it and `dealt` those counted. Main waits for
`init_count`.

**CrowConnection.** `ready` is the queue of handlers of one io_context. `phase[c]` is
what connection c waits for, `task_id[c]` the number it last got, `tasks` the map of the
timer. `era` and `robbed` are history: which issue of the numbers a task is of, and
who lost a task to another connection.

**CrowParser.** The automaton of `http_parser_execute`, one step for each byte it is sent:
each character of a part of the request that a read may cut, and one byte for what separates
the parts. The states of the automaton inside a separator are left out. `cursor` is the byte
the client sends next (`[req, part, header, k]`, the k-th of that part of that request), `inRead`
that a read has begun and not ended, `url_start_mark` the local mark of that name, which lasts from
the first URL of a read to its end, `parser` the fields of `HTTPParser`, `conn` and `closing`
the connection. `cut` and `behind` are history: a read ended in the URL, or it began behind
another one in its read. `EndRead` hands the piece collected so far to its callback and may come
after any byte. `answers` is what was answered, to compare with `requests`.

**CrowRouter.** `added` is the list of rules, `trie` the tree after `add` and then
`optimize`, `status` where the server is. `Find` is the walk; `FirstMatch`, its
reference, takes the first rule that fits the URL.

**QueryString.** The page puts the text into the buffer `qs` one character after the other
(`TypeCharacter`, encoded by `Code`; `NextEntry` for the next key); `Send` ends it. Then each turn of the
loops of `qs_parse` (`FindPair`, `NextPair`) and of `qs_decode` (`DecodeCharacter`) is a step: `qs_kv`
are the places of the pairs, `from` and `to` the places that are read and written, as the
value is decoded where it stands. `typed` and `form` are what the user entered and how it
was encoded; `places` is a history variable, where the code of each character begins.

**CrowResponse.** `res` is the response object with its flags and the header `connection`
that `handle` sets when the response has been written and cleared (`LeftBy`); `wire` is what was
written: declared length, bytes that follow, and `leftover`, that a header from before was
among it. A body is one of three lengths.

**AsioScheduler.** `op_queue` with its task, `event` (sleepers and the signal bit),
`interrupt` of the reactor, `outstanding_work`; `pc[r]` is where thread r is. An action
is what a thread does while it holds the mutex.

**AsioTimerQueue.** `heap` and `place[t]`, the index each timer keeps of itself; `waits[t]`
hang on one timer. An operation is a step that does all but its loop; `sift` and `index` say
which of `up_heap` and `down_heap` runs and for which entry, `popping` that `get_ready_timers`
does, and each turn of a loop is a step. No operation begins before the loop has ended,
because the reactor's mutex is held. `due[t]` (the time t was enqueued with), `fired` (what
`get_ready_timers` took, in order) and `expected` (what was due when it began) are history.

Operators named "Mutant of ..." are wrong variants of the definition that follows
them, kept to show that each property notices a bug; no specification uses them.

## 3. The runs

| Run | Instance | Shows |
|---|---|---|
| `seed` | `MCSeedData`: 4 customers, 2 runs, killed anywhere, one refused statement in each | completeness of a clean check, no unjustified and no double at-risk row, bills never change otherwise |
| `live` | `MCLiveSystem`: 2 regions of 2 customers, 5 rowids, 2 runs, no refused statement, fairness | customer numbers and administrators; the order of the check's two statements; the overdue reports over what administrators leave; a run that is not killed ends with the late bills flagged |
| `sqlite` | `MCSqliteAccess`: 2 threads, 1 program, ids up to 2, symmetric threads | the refinement, isolation of scans, no lock left |
| `full` | `MCFullSystem`: all writers over 2 regions of 1 customer, each filling program started once, one refused statement of seed_paid_bills, 2 months of usage of one type; all but seed_paid_bills with 2 months of 2 types; and seed_paid_bills alone with 2 runs and 2 failures each | rebuilds, revenue, and sales that count a bill twice |
| `processes` | `MCProcesses`: 3 connections and 1 arrival, 3 workers and 5 accepts, 2 threads of an io_context and 3 operations, the menu with 2 rowids and 2 runs, its input ending anywhere, 2 threads and a program at the database with 1 id; fairness | the order of the server's start, an even deal, a sound scheduler, an entry that breaks off; what must come: the end of a silent connection and of a stopped server, a queued handler, an answer |
| `parts` | `MCParts`: 3 of 6 requests through the parser, read in any pieces, 3 of 7 routes and URLs up to 4, 2 keys and 3 characters of 16 typed behind them in both encodings, 3 responses, 3 connections and 2 arrivals, 6 timers at 2 times added in turn and 3 timers at 3 times with 3 waits, 2 starts of each creator and 1 busy statement, 2 types of 2 months with 2 runs and 1 failure | what happens to a request and to a text inside Crow; heap of timers; schema; imports |
| `pages` | `MCPages`: 2 customers and 2 requests; its numbers started over once; 3 loads of the bills, whose table is thrown away or whose customers are numbered anew twice; reminders with 2 people and 2 days; 2 tabs, 3 logins or logouts; 2 bills and 4 writes between the panels; sums 0, 1, 2 | what the pages show |
| `fk_not_enforced`, `sales_overcount`, `overdue_not_total` | `MCFullSystem`, `MCLiveSystem` | counterexamples to what the schema and two comments say (section 5) |
| `added_is_claimed`, `waiting_without_deadline` | `MCPages`, `MCParts` | counterexamples to a page's message and to Crow's doc (section 5) |

**Bounds.** `MaxRowid` bounds every table (the library's bound is 2^63 - 1; reaching
it is modelled, as the failure of the insert). Two months are the least that repeat a bill in the sales
report, two types the least over which its repetitions can be spread. Four customers are the least for
which all three kinds of bills of seed_data occur (number modulo 4). Run `full` has two,
which get the paid and the unpaid bill of seed_paid_bills; the third kind differs by its
status and due date, which no property of that run looks at, and the theorems are
for any number. Two runs are the least for which a bill, a
sequence or an at-risk row of an earlier run is met; two regions the least for the
nesting of the loops; two threads for interleaving on one connection, one other
program for the locks; two ids for a list that changes under its scan.
Two amounts tell which bill an at-risk row came from. `live` has `MaxFails = 0`, because a
refused insert of a customer makes the literal numbers run ahead of the table;
refused statements are in `seed` and `full`.
For the pages, two requests are the least that overtake each other, three are
needed for the chart handle (one to draw, two that overlap) and for a login, a logout
and a login again; two epochs for a number that is used again. Three connections
are needed for the timer: one that loses its task, one that takes the number and one that
empties the map; three timers can have an equal time at two levels, six
fill three levels of the heap, so that the last entry may have to move up or down; with six, each has
one wait, with three, several. One key is the beginning of the other, because `qs_strncmp` must tell them
apart; three characters are enough for a percent sign with two digits behind it that the user typed. Three
requests let one response meet what two left. Seven routes hold a path, its
beginning, its continuation and a parameter at each place the server's routes have
one. Three workers tell the smallest counter from the next one.
`CHECK_DEADLOCK FALSE` is said where the system or its bounds stop it: in `seed`, where
the program stops after its last run, and in the runs over several components.

**Fairness.** `LiveSystem!FairSpec` asks weak fairness of the seed program's steps:
a scheduled process goes on, because no statement blocks (no busy timeout).
Nothing asks for requests, starts, kills. `SqliteAccess` asks strong
fairness of each client's steps: a thread waiting for the connection's mutex gets it
if it is free again and again, which the operating system's mutex gives in practice
though POSIX does not promise it; with weak fairness a thread could be starved by
other threads' writes for ever. Requests and crashes are not fair.
`CrowConnection` asks that a worker runs its queue, that time passes for a task and that
the timer's tick expires; nothing asks the peer to send. `CrowServer` asks that worker
threads start and end, that main goes on; nothing asks for clients or for the signal.
`AsioScheduler` asks each thread to go on where it can; a thread on the event or in the
reactor can only when it was woken. `ConsoleMenu` asks the process to run.
In `MCProcesses` each condition is about the steps of its own component.

## 4. The proofs

For every size of the data set, every number of runs and failures and every
`MaxRowid` (`EnergyDBAssumption`, `SeedingAssumption`: the naturals are naturals,
there is at least one region, customer, type and month, and every region number
that the program computes is one that may be written).

*LiveSystemProofs.* `TypeCorrect`: `TypeOK` together with `LoopOK`, which says that the
loop counter is within the bound of the loop the program is in; without it the
region of the next customer and the number a bill is written for are not known to be
within their types. `ReferencesAreAllocated`: `RefsAllocated` is not inductive, as
nothing in it says how far the customer loop has come. `RefInv` adds that ids of
customers are at most the sequence (`IdsAllocated`) and, for each loop of the
program, how many numbers are handed out (`SeedAllocated`): the loop at customer i
has handed out at least i - 1, and the loops after it all 500. It needs every insert
of the run to take effect, hence `MaxFails = 0`; an insert that fails because rowids
are exhausted leaves a sequence that is at `MaxRowid`, which is at least 500.
`CleanSlate` follows: a new number is beyond the sequence.

*LiveSystemProofs, the overdue check.* `CheckInv` is the conjunction that is inductive: unique bill ids, an
at-risk row only with a late bill of that amount, one row per customer, the at-risk
rows of the last late bills once the first statement ran, the late bills Overdue
once the second did, and both at the end of a clean run. `CheckIsComplete`,
`AtRiskIsJustified`, `OverdueIsAtRisk`, `RiskIsUnique` and `IssuedBillsAreFinal` follow.
`HasLargest`, that a set of rowids has a largest one, comes from the library's
well-foundedness of the naturals and gives the last late bill of a customer.

*SqliteAccessProofs*, for any threads, programs and `MaxRowid` (`SqliteAccessAssumption`:
a thread of the server is not another program, `MaxRowid` is a natural, `Owing` are
rowids). `AccessInv` is the inductive invariant:
- `Proper`: what a session has in each place of its handler. A list under way has
  everyone in `must` up to its cursor and nobody who is not in `may`; a write under
  way has no statement open; a read that was refused has no rows.
- `Brackets`: `must` is within the table and the table within `may` while a read is under
  way, so that the rows it takes are of somebody who was there.
- `WriterAlone`, one statement writes at a time whatever its connection, and
  `NoReaderAtCommit`, who may commit meets no scan of another connection: without
  them a commit could come in the middle of somebody else's scan.
- `RowidLeft`: the rowid an insert found is still there when it commits, as nobody
  else wrote between.

`LocksAreReleased` and `ScansAreIsolated` follow from it. `HandlersImplementRegistry` is the
refinement: the initial state maps to that of CustomerRegistry, and each action, under
`AccessInv`, to a step of it or to none. A request maps to
`Invoke`; the step after which a write has taken effect, to `ApplyAdd` or `ApplyDelete`, which the
reads under way see; the answer, to the `Reply` its code and rows ask for; the end of a
process, to `Crash` of its calls; every other step of a handler is one nobody notices.

*FullSystemProofs.* `FullInv` adds to the types of LiveSystem that `sp.region` is a region, and
that ids are unique in both tables. It is inductive because the rowid of an insert is
greater than every id in the table, not only than the sequence: seed_paid_bills may
have emptied the sequence and not the table. `FullTypeCorrect`.
- `UndisturbedRebuildIsComplete` assumes `RoomForBills` (the rowids are at least as many as
  the bills of a run: 2500 of 2^63 - 1). `Progress` says how far the tables are at each
  statement: in pass r at customer i there are (r - 1) * 500 + i - 1 bills with the numbers
  from 1 and sequence to match, and the customers below i have r of them, the others
  r - 1. The lemmas are the arithmetic of the two nested loops, the next rowid, and how a
  cardinality grows.
- `OverdueReportsAlwaysAgree` needs no more than `FullInv` and that tables are finite:
  `GroupsSplit` shows that the groups by region are disjoint, because a customer's number is
  one customer's, and that they and the bills without a customer in a known region are
  all bills. `SumOfReport` turns that into sums.
- `RevenueAddsUp` puts the rebuild and the report together. `BillsInv` adds that every bill
  names one of the 500 customers and every paid bill has a date; after an undisturbed
  rebuild each of these customers is there, in a region that was seeded.
- `SalesCountMonths` assumes `RoomForUsage` (3000 usage rows of 2^63 - 1). `UsageInv` counts
  the rows of each customer through the two loops of the first run; from there on the join
  finds each bill once for each of its customer's months.

*SumTheorems.* A sum of the community modules is a fold that takes the elements of a set
in the order `CHOOSE` gives. Induction over a set is not available as a theorem the
provers can instantiate, but the well-foundedness of proper inclusion on the subsets of a finite
set is: were there a subset for which a lemma fails, there would be a smallest one.
`SumRemoves` (any element may be taken first) is shown that way, and from it
that sums split over disjoint sets, distribute over groups (`SumOfReport`) and count equal
groups.

*PagesProofs*, for any tabs, requests, numbers, bills and dates. Each page has its
own invariant.
- `SalesInv`: the handle tells whether the canvas has a chart, and the chart's sum is the
  total.
- `SessionInv`: what the answers of a tab may have done to the cookie since its bar was built
  (`BarFollows`). `NavbarTruthful` alone is not inductive: an answer whose headers were read
  and whose callback was not has changed the cookie and not the bar.
- `CustomersInv`: a results section that is hidden has an answer coming (`PaneIsComing`); a
  user who waits has one request (`OneAtATime`); and the number in every answer "deleted", under
  way or shown, that was confirmed since the numbers last started over, is within the sequence and
  not in the table (`DeletedIsGone`), so that AUTOINCREMENT cannot hand it out.
- `BillingInv`: what a row of a table loaded in the epoch that still lasts says about bills
  and people (`RowStands`), for the table shown, the tables under way and the row of
  each reminder under way; and that a letter is right when it is written.
- `ReportsInv`: bills only move forward, so that a sum of paid or overdue bills of an
  earlier moment is at most that of a later one of the same `era` (`SumsStayBelow`,
  `BreakdownIsUpToDate`).

*ParserProofs*, for any requests, texts, keys and pieces. `CrowParserAssumption` says that a path is
not empty and has no question mark, which is where the parser lets a path end, and that a header field
has a name. `QueryStringAssumption` says that the query's own signs, the percent sign, the plus sign and
the space are never sent as they are, which is what `encodeURIComponent` and `URLSearchParams` do, that each
escape has digits of its own, that a typed text has no NUL, and that the keys are distinct, need no escape
and are at most 256 (the pages send at most three, single words or `_`).
- `ParserInv`: every answer is right, and while the connection is open the parser agrees with what
  was sent up to the cursor (`InStep`). `Parsed` says what that is at each part of a request: the
  URL collected so far and the place of its first question mark, unless a read cut it or it began behind another
  URL of its read (`MarkFits` says when the mark is this URL's); the headers that were
  complete, the one held back until the next name comes, the pieces of a name or a value; what is left of the
  body. `ParserTypeCorrect`, `RequestsReadRight` (the property `HandlersGetWhatWasSent`).
- `QueryInv`: `Layout`, the codes of the characters follow each other and pair follows pair;
  `Parsing`, `qs_kv` are the beginnings of the pairs found so far; `Contents`, each pair is still
  encoded, or decoded up to a NUL, or in hand: decoded up to some character, encoded from there, and
  the place that is written not ahead of the one that is read. So no stop can be taken
  for another pair's, and what `qs_strncmp` meets is a key. `QueryTypeCorrect`, and `QueryReadsRight` with the action property that
  decoding leaves later pairs alone.

*PartsProofs*, for any requests, connections, starts, runs and timers.
- `ResponseInv`: while the socket is open nothing is left in the response object but
  `skip_body`, and that only after a HEAD without a host, and the header `connection` of the request
  just before. The proof found that the
  conditions of the operator for the status code overlapped in the model; they are ordered now as
  the code's returns are.
- `ConnInv` adds two facts: `QueueOK`, a handler in the queue holds a connection in the
  phase it was queued for and no two hold the same one, so that a tick aborts only reads that nobody
  else completes; `NumbersBelow`, the numbers given since the last reset are at most the
  last one given, so that a number is new when it is given. The reset is the
  only thing that makes two connections share a number, and sharing the only thing that
  costs a connection its deadline.
- `SchemaInv`: a creator that came to its n-th statement has executed those before it (`Has`),
  and init_db too when nothing was refused. `TablesAreDecided` is an action property beside
  the invariant: no step changes the columns of a table that is there.
- `ImportsInv` counts the rows of each type and month: as many as runs have passed it.
  `ImportsAlwaysAddUp` then splits the cost of all rows by `SumOfReport`.
- `TimerInv`: every timer knows its place; no entry is later than those below it, except where the
  loop has come to (`HeapOrder`: `up_heap` may have its entry earlier than the one above, `down_heap` later than those
  below, and in both the one above is no later than those below); and what is fired and what is
  still due together are what was due when `get_ready_timers` began, in order (`Firing`). That the
  front is the earliest (`EarliestInFront`) follows by well-foundedness: the
  first of the entries earlier than the front would have a parent that is earlier too. `TimerTypeCorrect`,
  `TimersAlwaysFireInOrder`.

*ProcessesProofs*, for any threads, workers, operations, texts and regions.
- `SchedInv` says where the task is
  (`TaskHeld`), that the reactor was interrupted if it is said to be (`InterruptStands`), that
  a thread is in `run` until the context is stopped (`SomebodyIn`), and that while there is an
  operation in the queue some thread comes to it without a further call (`WorkIsSeen`): it is
  awake, interrupted in the reactor, or woken while the flag of the event stands. A sleeper
  woken after the flag was cleared does not count, which is what makes `NobodySleepsOverWork` inductive.
  `WorkInv` is the count of `outstanding_work`: what is queued, in a thread's hands, at the
  reactor, or on its way from there in a private queue. `SchedulerStaysSound` has the three together.
- `ServerInv`: before the first accept every counter is 0; from it on a worker's counter is what it was
  dealt, and one more on the worker for which a connection waits, and that worker has been
  dealt no more than any other (`Counted`). So choosing by the counters is choosing by what was dealt, also after
  an accept that failed, and `DealtEvenly` follows. `init_count` is the number of threads
  that started (`WorkersCounted`), so that none is starting when it is the number of workers.
- `MenuInv`: when an entry comes to its statement, the input of an add may have ended in its
  region and of a delete in its number, and in no line before; of an update it may have ended in
  the first line only if nothing is left to set (`EntryRead`).
- `ProcessesTypeCorrect`: the types of the three, from their specifications side by side.

**Assumptions.** Constants only: the named ASSUME of each module, which TLC evaluates in the
run that extends it, and `RoomForBills` and `RoomForUsage` where they are named.

**Model-checked only.**
- Liveness (`LateBillsFlagged`, `Answered`, `EverythingGetsSomewhere`): the prover does no
  fairness and no ENABLED.
- CrowRouter (`RouterFindsFirstMatch`): `add`, `optimize` and the walk go down a tree by recursion,
  and what a recursive definition computes for every tree takes an induction over data.
- `PartsTypeOK`: it joins the type of the router with those of the parts that are proved
  (`ParserTypeCorrect`, `QueryTypeCorrect`, `ResponseTypeCorrect`, `ConnectionTypeCorrect`,
  `TimerTypeCorrect`, `SchemaTypeCorrect`, `ImportsTypeCorrect`).

The loops of `qs_parse`, `qs_decode`, `up_heap` and `down_heap` would be recursive definitions too. They are
modelled one turn at a time, so that an invariant says what each turn keeps and the proof is a step and no induction
over data.

## 5. Where code and text disagree

- `database.cxx:42` declares that a bill references a customer.
  `seed_paid_bills.cpp:35` writes bills for customers that are not inserted yet, and
  the delete of `server.cpp:146` leaves a customer's bills; foreign keys are never
  switched on. Run `fk_not_enforced`. A customer added by the server while
  seed_paid_bills runs, or after it was killed, inherits such bills.
- `reports.html:100` says "Overdue by Region and Total", but the sum of the bars misses
  the bills the joins drop. Run `overdue_not_total`.
- `server.cpp:382` says that revenue is based on the amounts of paid bills; the join
  with usage counts a bill once per usage row. Run `sales_overcount`; exactly how much
  too much is `SalesCountEveryMonth`.
- `customers.html:168` says "Customer added successfully." The callback never looks at
  the answer: a row refused because the file was locked, or without a name, is
  announced as added. Run `added_is_claimed`.
- `crow_all.h:14448` promises a timeout of 5 seconds for connections. `task_timer` issues
  its numbers from 1 again when its map is empty, and a connection keeps its last
  number, so `cancel_deadline_timer` (`crow_all.h:13771`) may call off the deadline of
  another connection, which then waits for its peer without one. Run
  `waiting_without_deadline`. `DeadlinesAreOwn` says that the reverse does not happen: no
  connection is closed by another's deadline. `SilentConnectionsLeave`, a part of
  `EverythingGetsSomewhere`, therefore excepts a connection that was robbed.

Found while modelling, stated in the comments of the modules and without a run of
their own:
- `url_start_mark` (`crow_all.h:6511`) is set by the first URL of a read (`6682`) and not
  reset before its end. The question mark of a later URL of the same read is counted from the first one
  (`6398`, `6418`), so that `8828` keeps part of the query or all of it in `url`: a page that exists is
  answered 404, a file is sought under another name. `HandlersGetWhatWasSent` excepts a URL with a query
  that began behind another one in its read.
- `crow_all.h:13401` sets `connection` on the response when it has been written and cleared. An answer
  that is assigned to the response loses the header, a static file is sent with it: a second
  time, or to a client of another version than the one it was meant for. `LeftoversGoWithFiles`, a part of
  `ResponseIsFramed`, says that it goes no further.
- The console menu takes a line that the end of the input cuts short for a whole one: the
  number of a delete (`customers.cpp:214`) or the region of an add (`customers.cpp:188`) may be another than was
  meant. `TruncatedEntryWritesLittle` says that nothing else is written.
- A URL cut by a read is routed at its first piece (`crow_all.h:6555`, `8830`); if the piece
  is not a route, the request is answered 404 although `crow_all.h:13312` has the
  whole URL. `HandlersGetWhatWasSent` excepts it.
- Requests that lie behind the last one in the same read are handled after the
  connection was told to close (`crow_all.h:6571`).
- The answer to a HEAD of a static file carries the file (`crow_all.h:13592`, `12724`), and
  a HEAD answered 400 leaves `skip_body` set (`13357`, `9739`), so that the next
  answer has no body. `ResponseIsFramed` says what holds beside these.
- `crow_all.h:14058` speaks of the load of a worker; its counter goes down when an accept
  fails (`14091`) and never when a connection ends, so workers are dealt connections in
  turn and not by load. `DealtEvenly` is about what was dealt.

## 6. Not modelled

`PROJECT.json` has the list of components with the reason for each. In short:
- Crow: chunked bodies, WebSockets, multipart bodies, mustache, compression, blueprints and
  SSL: the program uses none of them. The middleware of the server, `SimpleCORS` (`server.cpp:9`), which adds
  the same headers to every answer and answers OPTIONS, which a browser sends only for a page
  of another origin than the one `customers.html:157` names; and the JSON
  reader (`server.cpp:177`), of which CustomersPage sees what it leads to: a customer, or an exception when the
  region is null. The states of the HTTP automaton inside one token; header fields Crow does not look at.
- asio: sockets, buffers, strands, coroutines, completion tokens and the code for other
  operating systems, of which the program sees a read, a write and an accept.
  `epoll_wait` is the step that brings operations.
- SQLite: only its header is in the repository; its locks, mutex and AUTOINCREMENT are
  modelled from their use.
- Maintenance and Email_Logs, which nothing reads or writes, `Database::generateBill`,
  which nothing calls, and the classes of `customers.cpp` that nothing creates.
- The text of pages, answers and errors. `sqlite3_errmsg(db)` is read after the step,
  when another thread may have used the connection: the text may be another request's, the
  code is not.
- Customer numbers that seed_paid_bills hands out again while At_Risk_Customers and
  Energy_Usage keep the rows of the old ones: no document says what should hold.
  `DeletedStaysGone` and `ReminderReachesOwner` therefore speak of the time between two restarts of the
  numbers, and restarts are among the steps of their models.
- How often seed_imports_exports may be run: a month that is there twice is counted twice, and
  `ImportsAddUp` states that without calling it right.

The map covers a small part of the lines under `src/`, because nearly all of them are
the vendored headers of asio, SQLite and Crow, and the program uses little of them. Of the
program's own sources nearly every function is mapped.

## 7. Plan

1. *Done:* the tables, the three seed programs, all writers together, reports, the shared
   connection, the abstract registry, schema, menu, pages, session; of Crow and asio what
   a request, a deadline and a stop go through; the proofs of section 4.
2. *Left:* the router's trie, whose walk would have to be modelled one node at a time to be proved
   about; chunked bodies in CrowParser, should a client of the program ever send them.
