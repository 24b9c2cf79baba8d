# ReinforceTinyWebServer: a verification project

TLA+ modules, TLC configurations and TLAPS proofs about the server in this
repository: what its threads do to each other, to the connections, the timers,
the log, the requests they read, the answers they write, the users they
register, and how the process starts and ends.

## 1. The system

One process.  `main()` reads its settings, sets up the server step by step and
enters the **event loop** (`WebServer::eventLoop`, `webserver.cpp`):
`epoll_wait`, then one handler per event, then the timer list if an alarm was
seen.  A fixed set of **workers** (`threadPool`,
`bin/threadpool/pool/threadpool_impl.h`) takes jobs from a list.  A job is a
pointer to an `http_conn` object; there is one such object per descriptor
(`httpConnForUsers[fd]`), used again by every connection that is given that
descriptor.  A worker reads a request out of the object's buffer, finds a file
or a view for it, and writes the answer back into the object.

| Component | State it keeps | Operations | Talks to |
|---|---|---|---|
| worker pool | `m_workQueue`, `queue_mutex`, `m_queuestat` | `append` (event loop), `run` (workers) | scheduler's call |
| database pool | `connList`, `lock`, `reserve`, `m_FreeConn`, `m_CurConn` | `getConnection`, `releaseConnection` | workers |
| timer list | doubly linked `util_timer`s, `head`, `tail` | `add_timer`, `adjust_timer`, `remove`, `tick` | event loop |
| event loop | `epollEvents`, `users_timer[]`, `timeout`, `stop_server` | `deal_client_data`, `deal_with_read`, `deal_with_write`, `deal_sys_signal`, `remove_timer` | all |
| scheduler's call | `improv`, `timer_flag` of the object | `ThreadPoolTaskDefaultScheduler::call` | event loop (spins on `improv`) |
| http connection | `m_sockfd`, `m_state`, `bytes_to_send`, `m_user_count` | `init`, `process`, `close_conn` | epoll, workers, event loop |
| http parsing | read buffer, `m_checked_idx`, `m_start_line`, check state, `m_content_length`, `m_string` | `read_once`, `parse_line`, `process_read`, the parse functions | http connection |
| response writing | `m_write_buf`, `m_iv`, `m_file_address`, `m_file_stat`, `bytes_have_send` | `do_request`'s file part, `process_write`, `write`, `unmap` | http connection |
| routing | the blueprints, registered once | `makeRequest`, `UrlParser`, `Blueprint`, `Router` | workers |
| users | `userTable`, `m_lock`, the `user` table | `login`, `route_register`, `initmysql_result` | workers, database |
| page templates, thread-local store | rendered pages on disk; a map from threads to local maps | `render`, `GetLocalMap` | views |
| configuration | `Configure::tab` and members, the XML file, `argv` | `setDefaultProp`, `loadConfigFromXml`, `parse_arg` | `main` |
| start-up, signals, shutdown | pipe `u_pipefd`, the alarm, `current_app` | the steps of `main`, `sig_handler`, `timer_handler`, `cleanResHandler` | event loop, log |
| log | `m_count`, `m_today`, `m_fp`, `block_queue` ring | `write_log`, `push`, `pop`, `async_write_log` | every thread |

The hard behaviours are the interleavings of event loop and workers over an
object that outlives its connection, the two flags with which a worker answers
a spinning event loop, descriptors that are closed and reused while a timer, an
event of the same batch or a worker still means the old one, the semaphore and
mutex protocols of the two pools, signals that interrupt a wait or arrive
before what they need is set up, pointers that are deleted during their own
traversal, two condition variables on one ring, requests that arrive cut
anywhere, answers the socket takes in parts, and views that read and change
shared maps in separate steps.  `PROJECT.json` lists them as hazards, each at
its line.

What makes each part correct:

- *worker pool*: a bounded first-in first-out queue; each job run once or
  refused; nobody touches the list next to somebody else.
- *database pool*: a connection is with one worker or in the list; none is lost.
- *timer list*: one sorted list of exactly the allocated timers; a tick calls
  back exactly the expired ones.
- *server*: one worker per connection; answers reach who asked; the spin ends; a
  connection has its own timer and ends; who waits is accepted; counters are
  right.
- *requests*: what is parsed depends on the bytes, not on how they were cut.
- *answers*: head, then file, each byte once; the file stays mapped until then.
- *site*: a route gets its view, whatever is appended to its url; a page goes to
  who may see it, and shows nobody else; memory and database agree.
- *process*: the trigger mode is the one asked for, everything else what file and
  default say; SIGTERM and SIGINT end it.
- *log*: no line lost, repeated or reordered in the ring; nobody sleeps for ever.

## 2. The modules

| Module | Models | Shape |
|---|---|---|
| `ThreadPool` | `threadpool_impl.h`, `locker.h` | one action per lock, semaphore and list call of `append` and `run` |
| `TaskQueue` | what the pool promises | abstract specification, refined by `ThreadPool` |
| `SqlPool` | `sql_connection_pool.cpp` | as `ThreadPool` |
| `TimerOrder` | the order of the list | operators shared by the next three |
| `SortedTimers` | what the timer list promises | abstract specification |
| `TimerList` | `lst_timer.cpp` | pointers `head`, `tail`, `prev`, `next`; refines `SortedTimers` |
| `WebServer` | `webserver.cpp`, `http_conn.cpp`, the scheduler's call, signals | composes event loop, workers, connections, timers, kernel and clients |
| `HttpRequest` | `read_once`, `parse_line`, `process_read` and the parse functions | one action per step of the two state machines |
| `HttpResponse` | file lookup and mapping, `process_write`, `write` | one action per call of `writev` and its outcome |
| `HttpConnection` | `process()` and `init()` | composes `HttpRequest` and `HttpResponse` over one object |
| `Routing` | `urlparser.h`, `parsedurl.h`, `router.h`, `blueprint.h`, `string_utils.cpp` | operators from a url to its parameters and its view |
| `Site` | `do_request`, the views of `UserMain.cpp`, `ThreadLocal.h`, `render_utils.h` | one action per access to shared state; uses `Routing` |
| `Lifecycle` | `main.cpp`, `configure.cpp`, the signal handlers | one action per step of `main`, of a handler, of the loop |
| `Logger` | `log.cpp`, `log.h`, `block_queue.h` | one action per critical section |
| `LogLines` | what the log promises | abstract specification, refined by `Logger` |
| `*Proofs` | | theorems about the module of that name; `WebServerProofs` also about the operators of `TimerOrder` |
| `MC*` | | instances for TLC |

Names follow the code: `AppendPush` is the `push_back` of `append`, `TickExpired`
the loop body of `tick`, `DealClientData` the handler of that name.  Definitions
that start with `Faulty` (and `NoNewHead`) are wrong variants of the
definition below them; each breaks a property, which shows that the property
depends on that code.

### How the state corresponds

- **ThreadPool.**  `wpc` and `mpc` say between which two calls a thread is.
  `run()` reads `wait() && !trylock() && lock() && empty()`: `trylock` that
  succeeds skips the test for an empty list, and a failed `wait` (`EINTR`; the
  handlers are installed without `SA_RESTART`) skips the mutex.  Two threads
  between accesses of the `std::list` make `status` "corrupted", after which
  nothing is claimed.  A job is one call of `append`.
- **SqlPool.**  `getConnection` tests the list before it takes the mutex and
  then ignores the result of `wait`; both are modelled.  The test is atomic.
- **TimerList.**  A timer *is* its heap block: a deleted one may be allocated
  again.  The private `add_timer(timer, lst_head)` is `AddBehind`; `tick` is a
  loop of `TickExpired` and `TickStop`, and `TickDeleted` is its read of freed
  memory.
- **WebServer.**  `sock[fd]` and `epoll[fd]` are the kernel's side (`epoll` is
  "off" after a one-shot report), `conn[fd]` the object, `worker[w]` where a
  worker is in `call`/`process`, `batch` the events of the present
  `epoll_wait`, so that a descriptor may be closed and accepted again within a
  batch.  Timers carry what is left to them (`ttl`) in place of an absolute
  time, in the order `TimerOrder` gives.  `process_read` and `do_request` are
  abstracted to "needs more", "has a whole request"; `write` to its four ways
  out.  The variable `setting`, chosen once from `Settings`, holds the
  configuration (`mode`; `edge`, whether the listening socket is
  edge-triggered; the limits `maxRequests` and `maxFd`) and what the
  environment may do: `slow` (time slots pass while a worker is busy), `torn`
  (a worker may halt between `improv = 1` and `timer_flag = 1`), `closes`
  (`process_write` refuses, and the worker calls `close_conn`), `stop`
  (SIGTERM).  With `edge` the loop repeats `accept` (`mpc = "accept"`) until one
  succeeds, and leaves then: a client that was reported with it waits for the
  next arrival.
- **HttpRequest.**  A byte is CR, LF, NUL or the text of a line; `buf` is the read
  buffer up to `m_read_idx`, and `parse_line` overwrites line ends with NUL as
  the code does.  `ReadOnce(n)` delivers any n bytes that fit.
- **HttpResponse.**  A byte is its place in head or file, so a wrong offset is a
  wrong byte.  A mapping is named by the answer it was made for.  `WriteLast`
  ends in `init()` or a closed connection, `Reopened` is the next connection on
  the object: it clears the counters, not the file's address and length.
- **Routing.**  A text is a sequence of symbols: the characters the code looks
  for, and words.  `Relative` appends the form to the url as `do_request` does,
  `Split` is `string_util::split`, `Param` what `safe_parse_param` makes of it: with
  "/register?x" the first key is "xuser", a line that is no pair repeats the one
  before.  Every worker writes the routers' prefixes again (`set_prefix`), the same
  text over the same text; that is left out.
- **Site.**  `setting` says what clients ask for and what table and disk are like; a
  worker's record where it is in its view.  `m_string[o]` says
  whether the object's `m_string` points into its read buffer: `init()` leaves it,
  and a POST without a body then gets one of `Leftovers` appended, what stands
  there now.  `request[w]` is the thread's request: none, live, or "freed" by
  `close_conn`, and used all the same.  `FileOf` says whose page's file a name
  gets, since the path is put together from the name; `files` has for each of them
  whether it is there, whose text is in it and whether to the end.  Making the
  directory, opening the file and writing it may each fail.  A form that is not
  `Plain` (a quote, a backslash, a text too long for the column) makes the
  statement another one: the table gets one of `OtherRows` or none, and `misread`
  remembers it.  Three things may do no harm or anything, after which nothing is
  claimed (`status` "corrupt"): a map used while another worker inserts into it,
  a text copied into a buffer that is too short, and a request that was deleted.
  An exit keeps `rows` and `files`, and `Restart` loads the table again.
- **Lifecycle.**  `mpc` is the next step of `main`; in the loop, `at` says where it is
  and `batch` what `epoll_wait` reported and is still to be handled.  An
  edge-triggered listening socket takes the loop to "accept", which it leaves
  only when a client is accepted; a request takes the reactor to its "spin".
  `hpc[t]` is where the quit handler is in the thread it interrupted, `sending` the
  signal main sends through the pipe.  `holder` says who is in the log's mutex and
  in malloc's: `Needs` is what a step of the handler takes.  A deleted server is not
  gone at once: its descriptors are closed (`fds`), the clients' are not, and what
  its members are read as is left open.  `set` are the members of `Configure` that
  options set and nobody reads.
- **Logger.**  A critical section is one action, because all that is touched in
  it is touched under that lock only.  The date is read outside: `tm` is the buffer
  `localtime` has for all threads, and `stamp[t]` what the caller copied from it.
  `m_today` is the day of the month (`MDay`), `fp` the file with its whole date, or
  `None` when it could not be opened, which the next use of it crashes on.  The
  text of a line is left out: `WriteLog` passes a `va_list` it has not started
  (`log.h:48`), so it is not the caller's anyway.  A condition variable may wake
  for no reason.

## 3. The runs

| Run | Instance | Shows |
|---|---|---|
| `pool` | 3 workers, 3 jobs (one throws), queue of 2, 1 interrupted wait | `ListGuarded`, `TokenLaw` as long as no wait was interrupted; `NoStrandedJob`, `EveryJobAnswered` and the refinement of `TaskQueue` always |
| `sql` | 3 workers, 2 connections, 1 interrupted wait | `ExclusiveHold`, `Accounted`, `TokenIsConnection`, `NeverStalls` |
| `timer` | 3 blocks, lifetime 2, clock to 4 | `WellLinked`, `TickIsExact`, refinement of `SortedTimers` |
| `timer_drain` | 2 blocks | violated: the last expired timer leaves `tick` on freed memory |
| `web` | 3 clients, 2 descriptors, 2 workers; four settings | `Handshake`, `NoDanglingTimer`, `OpenHasTimer` in all; `OneWorker`, `OwnAnswers`, `NobodyForgotten`, `NotUnderWorker` in the calm ones |
| `web_live` | both modes, 2 clients on 1 descriptor, slow workers, torn flags, fairness | `TimersMatch`, `CountsConnections`, `SpinEnds`, `ConnectionsEnd`, `BacklogServed` |
| `web_left_timer` | reactor, closing workers only | violated: `TimersMatch` |
| `http` | every cut of 54 messages, 2 per object, buffer of 13, both trigger modes; head of 3 bytes, five kinds of file, every cut of the answer | `TypeOK`, `CutsDoNotMatter`, `NeverEarly`, `SentInOrder`, `MappedWhileSent`, `WriteReturns` |
| `http_split_body` | the same | violated: `BodyMayBeCut` |
| `site` | 2 workers, 2 objects, 3 users of whom two share a file; 8 requests for routes, with 3 leftovers; 4 logins, 3 of them with a full disk; 5 forms, 3 of them over a table without a key or one that loses answers | `RightView`, `OwnPage`, `RestartChangesNothing` |
| `lifecycle` | 1 worker, 6 pairs of file and command line, 2 SIGINTs, 1 SIGTERM, SIGALRM at will, fairness | `AsConfigured`, `TermStops`, `QuitEnds` |
| `log` | 2 threads, 2 lines each, ring of 2, split at 2, 2 midnights, months of 2 days, both modes | `FileMatchesCount`, `SleepsForAReason`, `EveryLineFiled`, refinement of `LogLines` |

### Why the bounds are enough

Three threads at the pool's mutex are the event loop and two workers that meet
there, with one to spare; two slots make the queue full while jobs are left.
Fewer connections than workers make the database list run empty between test
and wait.  Three timers are head, middle and tail of the list, and the clock
passes their lifetime twice, so that blocks are reused.

`web` has 2.4 million states.  Two descriptors for three clients make a
descriptor be reused while the other is busy.  Its settings are the reactor and
the proactor with room for everybody; an edge-triggered reactor that is full
with one connection; and `Hostile`, which allows all that the environment may do
at once, with a queue of one that refuses and `MAX_FD` 1 that turns clients away
with a descriptor free.  Clients and workers are symmetric, which no property of
this run tells apart; the runs with liveness use no symmetry.  In `web_live` one
descriptor is enough for a second connection to meet what the first one left,
and a client sends twice.

In `http` a second message meets what the first left on the object, the longest
messages fill the buffer or do not fit, and a head of three bytes can be cut
twice; the file of two can be cut once.  The site's files are one of
each outcome of `do_request`.

`site` has 680,000 states, in settings of three kinds.  For the routes the urls
are of each kind `do_request` tells apart, and what is left of an earlier request
is nothing, something with a dot, or something that splits.  For the pages one
name has another's file, one has its own, and one is too long; all log in at
once.  For the table two workers register one name with different passwords and
log in under it, one of them with a url that glues its first key, and one form
has a quote; there is room for two rows more, so one name may get both.  Tables
are with and without a key, and with answers that are lost.  Workers and objects
are symmetric.

`lifecycle` has 190,000 states, with liveness.  Two of its files are the two modes of
the code with the two kinds of listening, one without a log; the others are
incomplete, unusable or missing.  The options of the first are one that counts,
given twice, with two that do not between and behind.  Two SIGINTs are one in
main and one in a worker, or one inside the other's handler; SIGALRM comes as
often as the alarm is set, so that its byte meets SIGTERM's in the pipe.

Two callers of the log both see the last slot of the ring free, and copy each
other's dates; a month of two days brings the number of the first day back
while its file is open.

### Where the properties stop

Each property is stated for what it needs, and that is itself a result.  What
lies beyond is in the models too, unless the item says otherwise:

- `TimersMatch` and `CountsConnections` hold until a worker closes a connection
  itself (`close_conn`): it leaves the timer, and the timer counts it down again.
- `OneWorker`, `OwnAnswers`, `NobodyForgotten` and `NotUnderWorker` are stated
  for calm settings: workers that are quicker than a time slot, do not halt
  between the two flags and do not close.  Otherwise a timer that runs out under
  a worker closes its descriptor, and a late `timer_flag` closes the next
  connection, so that an answer reaches another client.  `NobodyForgotten` also
  needs a queue with room for every descriptor: in proactor mode `append`'s result
  is ignored, and the descriptor stays disarmed.
- `BacklogServed` is for a level-triggered listening socket.  An edge-triggered
  one takes one client for each report, and with nobody left to accept, the loop
  around `accept` does not end.  Then no alarm is handled either, so
  `ConnectionsEnd` is for level-triggered listening too.
- `SentInOrder` and `WriteReturns` are for a head that is cut at most once: `write`
  moves `m_iv[0]` on by all that was sent so far instead of by what this call
  took.  A head cut twice sends wrong bytes, or spins on an empty `writev`.
- `CutsDoNotMatter` is for bodies that come in one read (see `http_split_body`).
- `MappedWhileSent` holds until a connection is ended in the middle of an answer;
  `init()` does not unmap, so that file stays mapped.
- `CutsDoNotMatter` and `NeverEarly` are for a Content-Length that is the right number;
  `atol` of another text is not modelled, nor is the NUL behind a body that fills the
  buffer, which falls on a byte that is 0.  A full buffer read edge-triggered ends
  the connection.
- `RestartChangesNothing` needs a table in which names are a key, an answer to each
  insertion that was done, and forms the database reads as they were meant.
  Without a key two registrations of one name both succeed: the table keeps both
  rows, memory the first.  A quote or a backslash may store another row, or one
  more, which memory does not have.  `OwnPage`'s first part needs the last of the
  three.
- `OwnPage`'s second part is for a name whose file no other name gives.  What the
  command that makes the directory does with a strange name is not modelled.
- All of `Site` ends where a map is read during an insertion, a name or a password
  that is too long is copied, or a deleted request is used, unless that does no harm.
- `RightView` is for urls and appended texts without a dot: any dot behind the last
  slash, query included, makes a request one for a file.  A url with a protocol
  loses its route when it has a query.
- `AsConfigured` says that options other than `-m` (and `-p` and `-l`, which are as
  `-m`) change nothing, because that is what the code does.  A server that took
  `-s`, `-t`, `-c` and `-a` for what they say would break it.
- `TermStops` excepts a loop that stays in `accept` for ever, and runs with a SIGINT.
- `QuitEnds` excepts a loop that stays in `accept` on the closed descriptor or in its
  spin for a worker; a handler that waits for the log's or malloc's mutex its own
  thread holds; and workers that never leave the two alone.  If a worker's handler
  deletes the server while main is in `epoll_wait`, nothing need wake it.
- `FileMatchesCount` allows for dates that are not the caller's, so that the log goes
  back to an old file, and compares days of the month: a log without a line for a
  whole month goes on in last month's file.  `EveryLineFiled` ends at a file that
  cannot be opened.
- `ListGuarded` and `TokenLaw` need waits that are not interrupted;
  `AlwaysConnected` as many connections as workers.  The sorted order of timers
  needs a clock that is not set back.

### Fairness

Threads are scheduled: weak fairness of each worker, of the event loop, and of
time.  No signal that would end a wait is owed (`GoesOn`).  Clients owe nothing.
Mutexes and semaphores are not assumed fair: a waiter may be passed over, and
the liveness properties hold all the same because there are finitely many jobs,
or say so (`NeverStalls`).  In `Logger` a thread that is inside `write_log` goes
on; no wake-up without notify is assumed.  In `HttpConnection` a worker inside
`write` goes on, and nothing else is owed.

In `Lifecycle` the steps of `main` and of the loop have strong fairness, because
handlers that interrupt main, and the two locks, disable them now and then
without stopping them.  `epoll_wait` reports a pipe with bytes in it, with
whatever else it reports (`WakeForPipe`), and the batch is handled to its end
(`Dispatch`).  `Accept` has no fairness at all: nobody owes the server a client.
`SpinOver` has it as long as no SIGINT came, which is `SpinEnds` of `WebServer`; on a
deleted server nothing is owed.  Handlers, the alarm, the byte for the pipe and
whoever holds a lock have weak fairness.  The number of SIGINTs and SIGTERMs is
bounded: without a bound main could be interrupted for ever.

## 4. The proofs

`tlapm` checks the eight `*Proofs` modules.  Their theorems hold for every value of
the constants, from the assumptions on the constants in the modules and nothing
else.  Every invariant of a passing run, every action property and every
refinement is proved; what is left to TLC is at the end of this section.  Each
inductive invariant was checked by TLC, on the run's instance, before it was
proved.

What is assumed of the constants is what the code fixes or the models take for
granted: descriptors are finitely many numbers, lifetimes and buffers are not
empty, the markers (`None`, `Null`, "none", "main") name nothing else, the
configurations are records of the right fields.  A message is a first line,
headers and a body without NUL bytes: `m_string` is a C string, so a body with
one would be read only up to it.  Urls and forms are texts, rows are pairs, and
the file of a name is that of some name.

**Worker pool.**  `RunAtMostOnce` is not inductive: it does not say where a job
can be next.  `JobsApart` follows each job through `append`, the list and a
worker's hands, and says these places have no job in common.  `PopOK` says a
worker between `front()` and `pop_front()` still sees its job in front; a step of
another thread at the list would break it, and then the process is "corrupted".
`Inv` joins both with the types and the bound, whatever waits are interrupted,
and gives `TypeCorrect`, `RunAtMostOnce`, `QueueStaysBounded`, and
`PoolImplementsTaskQueue` (each step maps to a step of `TaskQueue` or to none).
`NoWakeupLost` adds an inequality between the list and the tokens: `WorkerTokens`
and `MainTokens` say what a step does to both sides.  `Calm` is what holds as
long as no wait was interrupted: whoever is at the list holds the mutex, and the
inequality is an equation.  From it follow `ListIsExclusive`, `SemaphoreCounts` and
`PopIsSafe`: a worker that counts among the tokens finds a job.

**Database pool.**  `Inv` adds to `ExclusiveHold` and `Accounted` that whoever is at the
list holds the mutex, that what was read is still in front, and that list and
hands add up to the number of connections.  It gives `TypeCorrect`,
`HeldExclusively` and `NoneLost`.  `NeverNull` counts: with at least as many
connections as workers, the list is not empty when a worker without one looks.
`TokensAreConnections` rests on the equation `Tokens`: the list is as long as the
semaphore's value, the workers past `wait` and the posts that are owed.  The
value alone does not tell, because neither wait and pop nor push and post are
one step.

**Timer list.**  `ListInv` says that some sequence *is* the list: its elements are the
allocated timers, once each; `prev` and `next` of each are its neighbours; its ends
are `head` and `tail`; it is sorted.  `WellLinked` alone says nothing of order, and
not enough of the pointers of a timer in the middle.  `SetByNow` is what makes
`adjust_timer` correct, which never looks at the timer in front: no timer
expires later than one that is set now, so what is put in goes to the end, and a
timer stays put only if it is there already.  It needs a clock that is not set
back.  `HeadInv` covers tick(): `cur_timer` is the head, and a list that tick() has
emptied keeps a dangling head until tick() is over.  Following the pointers is
recursive, so `WalkIs` shows by the least number what it gives for the list `s`;
`AppendLinks` and `SkipLinks` are the two ways the pointers change, and the moves
of `adjust_timer` are one after the other.  From it follow `PointersAreOneList`,
`TickCallsBackTheExpired` and `PointersImplementSortedTimers`.  `InsertFacts` and
`FrontFacts` say of any sorted list what `add_timer` and `tick` rely on; the event
loop's proofs use them.

**Server.**  Five layers, each on top of those before it.

- `HandInv`, for `JobAtOnePlace`.  The counts of `Handshake` do not say which job is
  where; `OnePlace` does: it is the queue's only element, or one worker's task
  and nobody else has an unreported one, or `improv` of that descriptor is 1 and
  all others are 0; when the loop does not spin all three are empty.  A worker
  that reports moves it from the second place to the third, and `append` cannot
  refuse because the queue is empty then.
- `TypeInv` and `TimersInv`, in every setting, hostile ones included.
  `EveryConnectionTimed` needs to know whose timer `users_timer` has (`OwnerInv`:
  the timer found at a descriptor is for that descriptor, and that of its client)
  and that the list is sorted, so that `tick` meets the expired ones in front.
  `TimersNeverDangle` needs `BatchInv`: an event still in the batch is for a
  descriptor whose timer runs, at most one for each, and not for the one that is
  being handled.  That is why a timer deleted in the middle of a batch is not
  met again in it.
- `MatchInv`, as long as no worker closes: besides `Paired` and `Counted`, that an
  open socket has a live object and a registration (`Attached`).  The theorems
  state `TimersMatch` and `CountsConnections` under `~setting.closes`, and that is
  all they can be stated under: `web_left_timer` is the counterexample to the
  rest.
- `CalmInv`, in calm settings.  `OneWorker` is not inductive, because a job may wait
  in the queue while a worker has another of the same descriptor.  `Alone` says
  that a descriptor is in the queue once or with one worker, not both; `Held`
  that what is there or in the batch is disarmed and open, and that its timer has
  all its slots left while a worker has it; the three `Mine` parts that what an
  object and a worker hold came from the client that has the socket now.  It
  gives `OneWorkerAtATime`, `AnswersAreOwn` and `WorkersKeepTheirDescriptor`.  Calm
  is a setting, not a state, and none of its three conditions can be left out:
  TLC finds each of the three properties violated with slow or closing workers in
  either mode, and with torn flags in the reactor (the proactor has no flags).
- `FoundInv`, for `NothingForgotten`: a disarmed descriptor is in the batch, in the
  queue, with a worker, or has its `timer_flag` up.

**Requests.**  `CutsDoNotMatter` speaks of the moment when a request is handed on.
`ReadInv` says of every moment what the object must remember of what came before:
what is in the buffer came first and is untouched beyond `m_checked_idx`
(`Arrived`, `Untouched`); some line `i` of the message is being read, it begins
at `m_start_line`, and `m_content_length` and `m_linger` are what the lines
before it say (`HeadInv(i)`); in the body, the head ended at `m_start_line`
(`BodyInv`).  The number `i` is not in the state, so the invariant says that one
exists, and each step names it.  `LineStep` and `LineOutcome` are `parse_line` on
line `i`, whole or cut at any of its bytes.  The same invariant gives
`NeverTakenEarly`, which does not need bodies in one read.  `TypesHold` adds who
may answer when, and counts answers against requests.

**Answers.**  `AnswerInOrder` needs more than that what was sent is a prefix:
`Underway` says that the iovecs are the rest of the answer.  It is inductive only
because a head that was not cut yet has not been sent at all, which is where
the offset `bytes_have_send` happens to be right; a second cut breaks it.
`OfferedBytes` and `WireGrows` say what that means byte by byte.
`MappingFollowsAnswer` keeps address, length and mapping together (`MapInv`).

**Site.**  `RouteIsName` has no state: for every url the path is the url up to its
query, and at most one route of the blueprints fits it, so the order in which
they are tried does not matter for a url that names one.  It is for every text
that may be appended, so `RouteInv` (what was found out about a url stays true of
it while the worker goes on; for `RoutesGetTheirView`) needs to know of `m_string`
only that what it gives is a text.  `ShapeInv` is the shape of a request at each
step of a worker; that names and passwords are parameters of some query is part
of it, for `FileOf` says nothing of other names.  On it stand `WelcomeInv` (who is
welcomed is in the table; a file is empty or has pages of names that give it,
whoever writes it meanwhile and whatever fails; for `WelcomePagesAreOwn`) and
`StoreInv` (a name the table has and the map lacks belongs to exactly one
registration under way, and that one will put in the table's password; for
`MapIsTable`, as long as names are a key, insertions are answered and none was
misread).  Neither rests on how a form is split.

**Process.**  `ConfInv` follows main: before the loop of getopt the properties are what
file and default say; each option either sets the trigger mode, which is then
that of the options read so far, or changes no property; the server takes the
properties, and the trigger mode sets its two members.  Signals touch none of
that, wherever they come.  `ServerAsConfigured` is for command lines of any length
and any options.

**Log.**  `NobodySleepsInVain`: the two sleeping conditions exclude each other, and a
push or pop that changes one wakes its sleepers.  `RightFileOpen` needs nothing of
the date a caller has copied: file and day are set from the same one.  It rests
on a lemma on division: a count that `SplitLines` does not divide is in the same
part as its predecessor.  `RingImplementsLogLines` maps the ring to a sequence: `RingEnds`
says how far apart `m_front` and `m_back` are, round the end of the array, and
`LinesApart` that a line that left its caller is at one place of the ring, in
the writing thread's hand or in a file.

**Recursion.**  The recursive functions (following the pointers, joining the lines of a
message) are given by what satisfies their equation; values are then found along
the numbers, with the fact that a set of numbers that is not empty has a least
one (`LeastElement`), which the library proves without an operator as a
parameter.

**Only model-checked**: liveness (`EveryJobAnswered`, `NeverStalls`, `SpinEnds`,
`ConnectionsEnd`, `BacklogServed`, `WriteReturns`, `TermStops`, `QuitEnds`,
`EveryLineFiled`), which needs fairness and ENABLED and is outside the prover's
reach; and the three violated properties, which are false.

## 5. Findings

1. `lst_timer.cpp:96`: after the last expired timer, `tick` reads the block it
   deleted (`timer_drain`).
2. `http_conn.cpp:121`: a worker that closes a connection leaves its timer, which
   later closes another connection on that descriptor (`web_left_timer`).
3. `http_conn.cpp:336`: a body that arrives in two reads is never complete
   (`http_split_body`).

Seen while modelling, and part of the models, without a run of their own:

- A file that is missing (`NO_RESOURCE`) or empty is answered by closing the
  connection: `process_write` has no case for them.
- A head cut twice, a late `timer_flag`, edge-triggered listening, two
  registrations of one name: see "Where the properties stop".
- `init()` leaves `m_string`, which points into the read buffer: a POST without a
  body, on an object that had one with, gets a piece of its own headers appended
  as its form (`http_conn.cpp:419`).
- A worker that closes a connection deletes its thread's request
  (`http_conn.cpp:124`); `release` clears only its own copy of the pointer
  (`request.h:99`), so the thread's next request is built in the freed block.
- The options `-o`, `-s`, `-t`, `-c` and `-a` set members that nothing reads
  (`configure.cpp:166-184`).  The comment at `configure.cpp:59` says the proactor is
  the default; the property's default is 0, which is neither mode, and the first
  read then ends the process.
- `preProcess` returns what `errno` happens to be.
- A SIGALRM or SIGTERM between `addsig` and the pipe is written through a null
  pointer; a SIGINT before the pool is created deletes an unset pointer; one that
  interrupts a thread inside the log or malloc waits for that thread.
- After SIGINT an edge-triggered loop may accept on the closed descriptor for ever,
  and a reactor may spin for a worker that is gone.
- The name a page is asked for is part of the path of its file, and of the text of
  a statement, as it is.
- The date of a log line may be that of another thread, and its text is printed
  from a `va_list` nobody started.
- "/href" without a slash behind it is not matched; an empty name can be
  registered, but not logged in; a form without "&" ends the process.
- `redirect` takes a pointer into a string that is gone by then.

## 6. Not modelled, and the plan

- *Containers and string utilities*: sequential helpers without shared state.
- *`bin/eventloop`, `bin/channel__`, `bin/poller`, `bin/grakerThread`*: an
  unfinished rewrite that is not linked into the server.
- *Build output, pages, benchmark*: generated, static, or third-party.
- In modelled parts: `destroyPool` and the destructor of the thread-local store
  (only while the process exits); `clear`, `front`, `back` and the timed `pop` of
  `block_queue` (no caller); `flush`; the expansion of a template (ctemplate's);
  the text of heads and pages; the wall clock being set back.

Order of the plan; all but the last are done.

1. `ThreadPool`, `TaskQueue`, their proofs and the refinement.
2. `SqlPool` and its proofs.
3. `TimerList`, `SortedTimers`.
4. `WebServer` over them.
5. `Logger`, `LogLines`.
6. `HttpRequest`.
7. `HttpResponse`, and `HttpConnection` over both.
8. `Routing` and `Site`.
9. `Lifecycle`; edge-triggered listening in `WebServer`.
10. Proofs: the reactor's handshake; the answers; the log's sleepers and files.
11. Proofs: the pointers of the timer list and their refinement; timers,
    connections and workers of `WebServer`; the parsing of requests; the
    refinement of `LogLines`; `Site` and `Lifecycle`.
12. To come: that `SortedTimers` by itself stays sorted; what `NobodyForgotten`
    and `RestartChangesNothing` keep of their claims in the settings they
    exclude.
