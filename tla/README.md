# db_proxy_server in TLA+

`db_proxy_server` is the storage front of an instant-messaging system. Other
servers, found through a router, send it requests in a framed protobuf
protocol; a web back end sends requests as JSON over HTTP. It runs the SQL,
keeps some lists as values in redis, and answers. This directory holds models
of its concurrent core, the TLC runs that check them and the TLAPS proofs about
them. Paths below are relative to `src/src` of the repository; the program has
no documentation and no tests, so the code is the reference, with its comments
and the comments of the `.proto` files.

## 1. The system

### Threads and shared state

| thread | runs | owns | shares |
|---|---|---|---|
| main | start-up, then the libevent loop; SIGUSR1 runs `net_server::stop` on it | connections, parsers, timers | each worker's deque, `m_status_enable`, `m_status_fd` |
| N workers (`task_thread`) | `ptask->run(mysql, redis)` | a MySQL and a redis connection | deque with mutex and condition variable, `m_flag` |
| one `send_thread` | `ptask->send()` | nothing | `m_response_queue` with `m_lock`, `m_flag` |

A request goes: `do_accept` -> `read`/`read_data`/`handle_data` (or `http_read`
and the parser's callbacks) -> a task object that remembers the socket number
-> `thread_pool::add_task`, which gives it to the workers in rotation -> the
handler that `handler_map` names -> for protobuf, `add_response` -> the
send_thread, which writes and deletes the task; for HTTP, two `send` calls in
the worker itself.

### Components

| component | state | operations | interacts through | what makes it hard | what makes it right |
|---|---|---|---|---|---|
| Thread pool (`thread_pool`, `base_thread`, `thread_lock`) | deques, flags, `m_task_index`, connections | `init`, `add_task`, `run`, `destory` | the event loop calls it, workers call handlers | wake-ups, start before connections exist, stop from a signal handler | each task once, no sleeping on work, no use of freed or missing connections, stop ends |
| Response queue (`net_server`, `pb_task`) | `m_response_queue`, position in an answer | `add_response`, `send_response`, `send` | workers push, the send_thread pops | one sender for all, busy loop on EAGAIN, stop | each answer once and whole, order kept, sender wakes |
| Connections and tasks (`net_work`, `net_conn`, `http_*`) | sockets, buffers, tasks | accept, read, close, answer | descriptors are numbers the system reuses | close while a request is on its way, two ways of answering | an answer reaches who asked, and is torn only in known ways |
| Lists in redis (`handler_group`, `handler_buddy`, `handler_server`, `handler_cache`, `cache_conn`) | MySQL rows; values `gml_`, `ugl_`, `uf_`, `ui_` | group, friend and card handlers, rebuilds | MySQL, redis, other workers | no transaction, select-then-set, ignored failures, `killall -9` | a list is current, or somebody will make it so |
| Router and status links (`net_work`, `handler_router`) | `m_router_fd`, `m_status_fd`, `m_status_enable`, timers | connect, register, reconnect, notify | event base used from workers | unlocked flag and descriptor, orphaned connections, leaks | a raised flag means a live link, notifications whole and to the right peer, links come back |
| Framing (`message`) | input buffer | `read_head`, `handle_head`, `read_msg`, `write_msg` | `handle_data` | resynchronisation over extents drained under its feet, 16-bit length | every message reaches the pool, once and in order; an accident costs no later one |
| Messages (`handler_msg`) | history, offline and receipt rows | store, recall, acknowledge, count, page | MySQL | two inserts, count then delete, cursors | no message vanishes uncounted, pages cover all |
| Friendship (`handler_server`, `handler_buddy`) | friend rows, request rows; the clients' cursors | request, answer, add, delete; lists newer than a cursor | MySQL, lists, clients | two rows in two statements, times from the messages, two clocks in one cursor | both sides agree, one request each, clients miss nobody |
| Organisation (`handler_http`) | tree rows; `org_`, `cul_`; copy on the web server | 12 changes of the tree over HTTP, rebuilds for other servers | stored procedures, redis, web server, status link | shared static buffer, delete then rebuild, "fail" after a change, cards that change without a post | the copies follow the tree, under their own header |
| Statements and connections (`pre_statement`, `mysql_conn`, `cache_conn`) | handles, `m_context` | `init`, `bind`, `query`, `execute`, `fetch`, `free` | every handler | failures half way, leaks, wrong redis database | a failed call leaves the connection usable |
| Account login, logging, configuration, md5, vendored code | - | - | - | - | outside the models, see section 8 |

`PROJECT.json` lists every component and every hazard of the code at its line,
with the properties that watch it, or the reason why none does.

## 2. The modules

| module | models | extends / instantiates |
|---|---|---|
| `FifoLanes` | what a queue with one server per lane promises: FIFO, each task once | - |
| `ThreadPool` | the pool from start-up through service to `destory` | instance of `FifoLanes` as its specification |
| `ResponseQueue` | `add_response`, the send_thread, peers, stop | instance of `FifoLanes` with one lane |
| `RequestPath` | connections, tasks, workers and send_thread together | two instances of `FifoLanes` stand for the queues |
| `ListCache` | rows, redis values, handlers, failures, kills | - |
| `OfflineMessages` | history and offline rows; store, recall, count and delete | - |
| `ServerLinks` | the links to the router and to a status server, notifications, descriptors | - |
| `OrgTree` | a company's rows and its copies in redis and on the web server | - |
| `Friendship` | the two rows of a friendship, the requests for them | - |
| `FriendSync` | clients that page through lists and cards of friends meanwhile | extends `Friendship` |
| `Framing` | cutting the stream of a connection into messages | - |
| `...Proofs` of `ThreadPool`, `RequestPath`, `ListCache`, `OfflineMessages`, `ServerLinks`, `OrgTree`, `FriendSync` | theorems | extend their component |
| `SocketProofs` | theorems about both directions of a socket | extends `Framing` and `ResponseQueue` |
| `MC...` of `RequestPath`, `ListCache`, `OfflineMessages`, `ServerLinks`, `OrgTree`, `FriendSync`, `Framing` | symmetry, and the requests, streams or bounds of a run | extend their component |

`ThreadPool` and `ResponseQueue` need no such module: their configurations give every
constant its value.

`RequestPath` uses `FifoLanes` in place of the two queues. That is justified by
the other two modules: `ThreadPool` and `ResponseQueue` are shown, by TLC and by
proof, to take only steps `FifoLanes` allows. The request path is thus checked
against what a queue promises and each queue against its own mutex and
condition variable.

### ThreadPool (thread_pool.cpp, base_thread.cpp, thread_lock.h, main.cpp)

A worker's `pc` follows `task_thread::run`: look at `m_flag` ("check", outside
the mutex), take the mutex and look at the deque ("lock"), wait, wake, run.
`pthread_cond_wait` may return spuriously (`WakeSpuriously`). `add_task` is four
steps (`EnterAdd`, `PushTask`, `SignalTask`, `LeaveAdd`), because SIGUSR1 may
arrive between any two of them: the handler runs `destory` on the same thread,
on top of them. Start-up creates each thread before its connections and may
fail for any worker. `missed` and `hitAt` are history variables: which workers
went to sleep after the destructor's only signal, and where the signal hit.

### ResponseQueue (net_server.cpp, pb_task.cpp)

The send_thread's loop is `CheckFlag`-`send_response`-`send`. Each `send` call
takes what the socket has room for; with no room it spins. A peer reads, stops
reading for good, or resets. Stop follows `net_server::stop`: the workers are
joined before the send_thread is deleted, so nothing is pushed after that.

### RequestPath (net_work.cpp, net_server.cpp, net_conn.cpp, http_task.cpp, pb_task.cpp)

A connection has a number from `Fds` while open; `Accept` takes any unused one,
as the system does. A task stores the number (`taskFd`), and `Behind(r)` says
who holds that number when something is written. An HTTP answer is written by
the worker in two calls, header and body: the header is one `send` whose result is
only compared with 0, so a part of it (piece 0) counts as all of it, and a socket
that is full ends the answer. A protobuf answer is written by the send_thread in two
pieces. A callback of the event loop is one connection's (`loop`), and
connections are only closed in their own callback (`CloseConn`).

### ListCache (handler_group.cpp, handler_buddy.cpp, handler_server.cpp, handler_cache.cpp, cache_conn.cpp)

A handler is straight-line code, so its model is a plan: the sequence of
statements ahead of it (`CreateGroup`, `ChangeGroup`, `DissolveGroup`,
`ManageFriend`, `SetUserInfo`, `SetQuietly`, `UpdateList`). Each statement is
one step that succeeds or fails, and every step of another worker may come
between two of them. A rebuild is two steps, `Select` and `Store`; that of a card
whose join with the tree has no row stores nothing (`SelectNothing`). The rows
behind a key are represented by how often they have changed: every statement
stamps `update_time`, so no two states of them give equal values. `Crash` is
`killall -9` (stop.sh) with restart.sh starting the program again. `adrift` is
a history variable: the keys something has happened to that no handler repairs
(overlapping rebuilds, a failed select or set, a join without a row, a handler cut
short, rows changed by one of the handlers that rebuild nothing). A later rebuild that overlaps
nothing puts the key right.

### OfflineMessages (handler_msg.cpp)

One action per statement of `set_offline_msg_data`, `set_online_msg_data`,
`set_recall_msg_data` and `get_offline_msg_cnt`, and one for each way it fails:
a statement that cannot be prepared ends the handler, one that fails when it is
executed only leaves a line in the log and the next one follows. A message is
its id; a recall renames it, in both tables, to the id of its notice. The count
selects the user's rows grouped by sender, looks one message of each sender up
in the history, deletes all rows of the user, and answers. MySQL may give any
message of a group as its `msg_id` (`Picks`). The requests of one client may be
served by two workers at once, so a recall may overtake the message it recalls,
and two counts may overlap.

The code keeps its promises only when nothing of this happens, so the
properties name what may have: `exposed` (a message that came, or whose
conversation saw a recall, while its user's count ran, or whose count was cut
short), `torn` (a message stored or recalled by half, recalled before it was
stored, or by two recalls at once), `redone` (a user whose counts overlapped or
whose delete failed). None of them is wider than needed: without any one of
their updates TLC finds a behaviour that violates a property.

### ServerLinks (net_work.cpp, net_server.cpp, net_conn.cpp, handler_router.cpp)

Each thread's `pc` follows `do_status_connect` line by line, because every line
reads `m_status_fd` anew and a worker and the event loop may both be in it;
`do_router_connect` runs on the event loop only. A number is "free", "fresh"
(socket() without a successful connect()), or somebody's connection; the system
gives the lowest free one. `conns` counts the `net_conn` objects made for a
number, `watched` says which numbers the kernel reports: when two objects have
one number, deleting the first closes it for both. `~net_conn` is two steps, the
close (`CloseFd`) and the event_free (`FreeConn`). A worker's `socket()` may get the
number in between, and libevent, which still has an event for it, does not tell the
kernel of the new one. A notification leaves in up to `Pieces` writes; `wire` is how
far into one the bytes of a connection are, or `Torn`. History variables: `overlaps`
counts the status connects begun with a link up or being made (to `MaxFd` at most),
`shadowed` says that a connection was registered under a number an event of another
still had, `crossed` holds the links on which a notification met another writer, or
that were new to one. `m_status_fd` has any value at first, since no constructor
sets it.

What overlapping connects do (two workers with two pushes, a worker and the
timer, or one table with two broadcast servers): a link nobody closes, a raised
flag on a dead link, two `net_conn` objects on one number, a client's number in
`m_status_fd`. Four properties except them and state what holds otherwise;
`OverlapsCostOneEach` says what they cost: each strands at most one descriptor. One
table holds one broadcast server in the runs, because several only lead to
overlaps; the proofs allow any number.

### OrgTree (handler_http.cpp, handler_cache.cpp, net_work.cpp)

A handler that changes the tree goes through fixed steps, so its model is a step
and the operator `After`: the change, the select of what the procedure returned
(and further titles, or the groups of a deleted user), the two deletes of
`org_refresh_redis`, then `http_req_refresh_company_org` (select the JSON, print
the header into the static buffer, copy it, post, select and store the tree),
then `org_update_notify_req`. The answer over HTTP goes out before the refresh and
is not a step. A build another server asks for is a select and a store. sprintf
begins and ends in two steps; what two workers leave in the buffer is one of the
headers or a mixture. The web server refuses a body behind a header that is not
its own, or takes it for what the header names. The JSON holds more than the values
of redis: name, sex, mail and phone of the cards, which clients change with
`set_user_info` (`CardChange`) and nobody posts. So there are two counters for the
rows of a company, `db` for the values and `doc` for the JSON. `adrift` and
`webAdrift` say which copies nobody is going to repair; a changed card is among
them unless a handler of the tree is still to select the JSON (`Reselects`).

### Friendship, FriendSync (handler_server.cpp, handler_buddy.cpp)

One action per statement of `set_friend_manage`, `set_friend_req` and
`set_friend_req_result`, and two ways to fail: an execute that fails is passed
over, a prepare that fails ends the handler without an answer. The update_time
comes from the message, so times may go back. `parted` names the pairs something
has happened to; a handler that then runs undisturbed over both rows takes a pair
out again. `FriendSync` adds a client that asks for what is newer than its
update_time, `Page` rows at a time: `get_frequent_chat` answers the time of the
last row, `get_all_user_info` the time of the last *card*, while it selects by the
time of the friendship. Both join with the cards of the user's own shard
(company_id % 8). A card has a time of its own (`card`), any at first, and newer
whenever its user changes it (`ChangeCard`), so the cursor of the cards goes forward
past friendships that were not in the answer (`leapt`), or back. `missed` names the
rows a cursor jumps over for other reasons: a time the client was past already, or
one it shares with the last row of a full page.

### Framing (message.cpp, net_server.cpp)

A stream is a sequence of units: 0x7E, 0xAA, the rest of a header, other bytes, and
bytes of a payload that read like the rest of a header (`Copy`): `read_head` looks
at the two tags only and cannot tell them apart.
The evbuffer is a stretch of it, behind `from` up to `upto`, and `cuts` says where
its extents end, so that draining is moving `from`; a message is named by its place
in the stream. `read_data` reads any number of units into the evbuffer, behind its
last extent, into a new one, or some here and the rest there, as libevent may.
`read_head`, `handle_head` and
`handle_data` are one action per step of their loops. `handle_head` walks over the
first extent as it was when it looked (`base`, `edge`, `steps`), and drains the
evbuffer meanwhile: after the first drain its index and the evbuffer no longer
agree, and memory of an extent drained to its end is given back (`dead`), so what it
then reads may be anything. `harm` is how far the connection was read at the last of
the two accidents that can cost messages: the reader passes over a 0x7E whose 0xAA
it does not see (there is none, it lies in the next extent, or it has not come yet),
or it takes a copy for a header (`Lured`).

## 3. The runs

| run | asks | bounds | distinct states |
|---|---|---|---|
| `pool` | no wake-up lost; tasks get done, stop ends but for two cases, refinement of `FifoLanes` (each task once, in order) with its fairness | 2 workers, 3 tasks | 17,810 |
| `pool_relock` (finding) | relocking a mutex is harmless | 2 workers, 3 tasks | violated |
| `answers` | no sleep on answers; answers leave or their peer is gone, stop ends, refinement of one lane | 3 answers of 3 units, 2 peers, room for 2 units | 507,552 |
| `path` | whose answers reach whom, how an answer can be damaged, in which order they leave, no dead task used | 2 protobuf clients and 1 HTTP client on 2 numbers, two at a time, 3 requests, 2 workers | 3,911,264 |
| `path_live` | every request ends | 2 clients on 1 number, 2 requests, 2 workers | 31,385 |
| `cache` | redis lists follow their rows; only overlaps go back; users' lists are rebuilt before the answer | 2 workers, 1 group, 2 users and a card, 5 batches of 3 of 12 requests, failures, 1 kill | 3,767,203 |
| `cache_added` (finding) | ADD answers with the ids that were added | 1 worker, MySQL fails | violated |
| `offline` | offline rows have their message; no message is deleted uncounted, or counted twice; a recalled message stays away | 2 workers, 2 users, 1 group, 7 requests (3 stores, 2 recalls, 2 counts), 1 failure or kill | 3,534,296 |
| `links` | whose the router's and status server's numbers are, what has a descriptor, what overlapping connects cost, which notifications are torn; both links come back | 2 workers, 4 descriptors, 1 failed connect, and 2 pushes, 1 client and 2 lost links, or 2 pushes, 1 notification and 1 lost link, or 1 push and 2 notifications | 1,142,879 |
| `org` | the tree and user list in redis and the web server's copy follow the rows; whose header; what others read when told | 2 workers, 2 companies, 3 requests (3 loads), failures, 1 kill | 643,208 |
| `friends` | rows of a friendship agree; one request each; which friendships behind its cursor a client misses, and what it gets to in the end | 2 workers, 4 users, 5 batches of 2 or 3 of 8 requests, 2 times, page of 1, failures, 1 kill | 213,782 |
| `framing` | every message delivered in order, but for two accidents; the search looks at live memory of its extent until then; the stream is read to its end | 437 streams of 3 pieces (up to 27 units), any cut, limit of 6 units | 1,759,512 |

Bounds. Two workers give every race the code has between two threads of a kind;
a third adds only more of the same, and the proofs cover any number. Three tasks
put two in one deque, one waiting behind the other, and the rotation wraps. An
answer of three units in a buffer of two is cut once and meets EAGAIN. Of two
socket numbers for three clients each may be used again, by a client of the same
kind and of the other, while answers to its first owner are on their way. Two
clients may be connected at a time, so that a worker and the send_thread write at
once, each to its own client or to the other's; once the third has come, one at a
time (the constraint `AtATime`). One group with two users has both kinds of list shared by two requests. One kill reaches every point of every
handler; a second one finds a state in which nothing is running, like the first.
Where symmetry is used (workers, requests and numbers of `path`, workers of
`cache`, `offline` and `org`) only safety is checked.

The requests of `cache` come in batches: creating a group, deleting a member and
dissolving it; adding, beside a rebuild for another server and a change nobody
rebuilds; these two beside a MODIFY; two friends and a rebuild of one's list; a
card, its rebuild for another server, and a quiet change. Handlers with a key in
common meet in one of them.

In `offline` two messages of one sender and two notices that recall the first go
to one user, and a message to a group: the message a count looks up stands for
the other as well, with a recall, a store or another count between any two of
its steps. One failure is enough to reach each error path at each point; more
senders, and what two failures do together, are covered by the proofs.

In `links` four descriptors are the router, a status link, a client and one that
a failed connect costs; two lost links are the router's and the status server's, or
the same twice. With more clients, drops or failures the numbers only run
out earlier, which the liveness properties except. `Loads` (how many pushes,
notifications, clients and lost links) and `MaxFailures` are bounds in guards, so is
`MaxCrashes` of the modules of the handlers; `MaxTime` bounds the times of
messages; all other bounds are the finite constants. Two pushes are needed for a
second connect after the first. Two notifications of two pieces mix when two workers
write them at once, or one is cut by a link that is lost and remade; the proof
covers any number of each. In `org` one company with an
added and a deleted user and a build has every pair of handlers at one key; the
second load has two companies at the shared buffer, the third a card that changes
beside two changes of the tree. In `friends` a page of one row makes two friends too
many, and two times beside the client's first are enough for equal, older and newer,
of friendships and of cards. Of the reader's two friends one has a card that is old or
changes, the other's is fixed; where three requests meet at one pair, both are.

The streams of `framing` are all well-formed ones of three of eight pieces: an
empty message, one with a tag in its payload, one whose payload ends in a header
that announces more than follows, one that is too long and holds a whole message, a
header whose message is short or missing, and each kind of stray byte. The pieces
that make the reader lose its place, what it is then lured by, and a message after
it that must arrive fit in three. A limit of six units lets a copy announce a message
that is too long, and one that is not.

`org` checks for deadlock (`Done` is the idle server). Every other run turns it
off: the server is idle when all requests of the run are served, and it ends when
stopped.

## 4. Fairness

`ThreadPool`: each worker's next step, the event loop's next step inside
`add_task`, and the destructor's: threads that can run do run, mutexes are
handed over, and handlers return because every MySQL and redis call does, if
only with an error. Arrival of a task, SIGUSR1 and spurious wake-ups are not
fair. `ResponseQueue` adds that a peer which has not stopped reading reads.
`RequestPath` has the workers and the send_thread fair, the event loop and the
clients not. `ServerLinks`: the event loop goes on with any callback that is due
(which one is not said), and each worker with what it has begun; the timers fire
because the router's heartbeats wake the loop, also for a timer a worker armed.
Pushes, clients, closing peers and failing connects are not fair. `FriendSync`:
the workers go on with what they have, and a client keeps asking for its list and
its cards; nothing makes messages arrive at a worker that does not exist any more, and
failures are bounded by the number of requests. `Framing`: the event loop runs,
and what has arrived is read. `ListCache`, `OfflineMessages` and `OrgTree` have no
liveness property and no fairness: a handler may be killed at any point.

Liveness here is always stated with its exceptions, and each exception is a
real behaviour of the code: a stop that hits the critical section of
`push_task`, a worker that read `m_flag` too early (section 6), a client that
does not read and holds up the only sender,
no descriptor left to connect with.

## 5. What is proved

All theorems are `Spec => []P` or refinements, for every number of workers,
tasks, connections, users and requests; the only assumptions are the named ones
on the constants (`PoolAssumption`, `QueueAssumption`, `PathAssumption`,
`CacheAssumption`, `BatchesAssumption`, `CardsAssumption`, `MessagesAssumption`,
`LinksAssumption`, `OrgAssumption`, `FriendAssumption`, `SyncAssumption` and
`FramingAssumption`). But for properties under fairness and `OverlapsCostOneEach`,
the proofs cover every property the passing runs check.
Each proof is: initial states satisfy the inductive invariant, every action keeps
it, it implies the property. Type correctness of every module is proved with it;
the runs spend no property on it. `LiveConnections` too is left to the proof.

* `ThreadPoolProofs`: `TypeCorrect`, `Accounted`, `NoLostWakeup`, `SafeFree`,
  `LiveConnections`, `ImplementsLanes`. `IInv` adds to the properties that the
  task in the hands of `add_task` is new (`InHand`) and that a worker serves
  only after its `init` succeeded (`PhaseInv`): without the first, a push could
  double a task; without the second, nothing ties `running` to `ready`.
* `SocketProofs`, of `ResponseQueue`: `TypeCorrect`, `AwakeForAnswers`, `Accounted`,
  `ImplementsLane`. Of `Framing`: `ReaderStaysInside`, `EveryMessageDelivered`, for
  every stream in which the peer's own headers are whole, whatever its payloads
  hold, every way it comes and every size of the buffer. `CutInv` says of all that was
  read since the last accident that the front of the evbuffer lies in no message and
  every message before it is in the pool or was too long (`Kept`), and that a search
  has drained nothing, met no 0x7E and is in the first extent (`Searched`); at any
  time, that the reader sleeps only on less than a header or on a message that is not
  all there (`IdleWaits`), and that what the pool got lies before the front
  (`GotBehind`); and of a peer that sends only messages, that the front is always one
  of them (`NeverAstray`), since the reader leaves one message at the next. A message
  still in the evbuffer when all is read would have to lie inside the one the reader
  waits for. `InsideExtent` follows from `Searched`.
* `RequestPathProofs`: `TypeCorrect`, `ReachAsker`, `SendersTasksLive`, `PbWhole`,
  `HttpWhole`, `WorkersKeepOrder`. `IInv` adds that open connections have
  different numbers (`FdsDistinct`) and that a task's number is its asker's as long
  as that connection is open (`TaskKnowsAsker`). The order of answers rests on
  `Ordered`: `Arrived` says that every request has one place in the arrivals, and
  which worker is next (lemmas `Euclid` to `Rotation` about remainders);
  `LanesOrdered` that a worker's deque holds its own requests in this order, behind
  the one it works on, and that it takes up nothing before all that came earlier is
  through; `OutOrdered` the same of the sender's queue for the answers of each
  worker; `Placed` in which queue a request is at which stage. `Seen` relates this to
  the wires: nothing stands there that its writer has not taken up (`Wired`), half an
  answer at the end of what one thread wrote to a wire is being continued by it
  (`HalvesGoOn`, `HalvesEnd`), and a closed connection is gone (`ClosedGone`). The properties
  speak of places on the wire, since nothing can be proved here about filtered
  sequences.
* `ListCacheProofs`: `TypeCorrect`, `CacheIsCurrent`, `BackOnlyByOverlap`,
  `AnsweredAreCurrent`.
  `CacheCurrent` alone is not inductive: a rebuild half done could store
  anything. `Pending` says that what it has selected is what the rows are now,
  or that somebody else will rebuild the key; `Ordered` that nothing is newer
  than the rows and that only overlapping rebuilds can go back; `Fitting` that
  after every write ahead of a handler there is a rebuild of each key it
  changes. `Fitting` is where the handlers' plans enter: lemma `PlanSound`
  shows it of each plan, for any list of users. `AnswerLast` says that behind the
  answer of the handlers in question nothing is left but rebuilds of the group's own
  list (lemma `PlanFinal`), so that a list of theirs out of date at the answer can
  only be another's to rebuild.

* `OfflineMessagesProofs`: `TypeCorrect`, `OfflineRowsHaveHistory`,
  `RecalledMessagesStayAway`, `NothingSlipsAway`, `CountedOnce`, so every
  property of the run. The five do not stand alone. `Fresh` says that an id is
  nowhere before its request brings it, `OneServer` that no two workers bring
  the same; with them a row that was deleted, selected or told cannot come back.
  `EarlyInv` and `LateInv` say that a recall which is not torn finds its message
  stored, since a message that is not coming any more never will be; `NoticeInv`
  is the state between the two renames. For the count, `UnseenInv` says that a
  row it has not selected is exposed, and `LookInv` that a row it has selected is
  in the answer already, or its sender will be looked up with a message that is
  in the history, or there is an excuse.

* `ServerLinksProofs`: `TypeCorrect`, `NobodyIsTakenForRouter`,
  `EnabledIsLinked`, `DescriptorsAreOwned`, `NotificationsAreWhole`. They need each
  other while no connects overlap: `Busy` says where each thread can be and
  what it has left to do there; `Dialling` that only one thread is in
  `do_status_connect`, with the flag down until it has connected, and what
  `m_status_fd` is at each line; `Linked` what the two links are; `Owned` and `Closing`
  that a watched number has one `net_conn`, and a number being closed is nobody
  else's until the close; `Shadow` that a link registered under the number of another
  is the last, its flag stays up, so that nothing is built on it; `Leaked` counts the
  sockets of failed connects; `SendInv` that on a link nothing crossed the bytes on
  the wire and what the only writer has left are the same notification.
* `OrgTreeProofs`: `TypeCorrect`, `RedisIsCurrent`, `WebIsCurrent`,
  `HeadersAreOwn`, `NotedIsStored`. `CacheInv` strengthens the property to "stale,
  or about to be made stale by a store that selected earlier, means adrift or a
  repairer other than that store"; `WebInv` is the same for posts and the rows of
  the JSON; `HeaderInv` says
  of each step what buffer and copied header are unless two met; `NotedInv` that
  from the deletes on nothing older than the change is in redis or on its way there
  unless adrift; `OpInv` that a build comes to no step of a change and that nobody knows a state
  that is yet to come.
* `FriendSyncProofs`: `TypeCorrect`, `FriendsAreMutual`, `RequestsStoredOnce`,
  `ClientsAreTold`. `AloneInv` says that a worker which has been alone at its
  pair finds the first row, when it comes to the second, as it wrote it; `InsertInv` that between
  the delete and the insert no other request of the two is there, unless two
  renewed it; `PlanInv` which steps a handler can be at. `ClientsTold` needs no more
  than the types: `missed` and `leapt` are complete because every answer puts what
  its cursor passes into one of them, or into what the client has.

Checked by TLC only: what needs fairness (`TasksGetDone`, `StopCompletes`,
`AnswersGetSent`, `SenderStops`, `RequestsEnd`, `LanesFairness`, `RouterReturns`,
`StatusReturns`, `ClientsCatchUp`, `ReadToEnd`), which is beyond the
prover; and `OverlapsCostOneEach`, which speaks of the very states the invariants of
`ServerLinksProofs` except.

## 6. What the checks show

The pool and the response queue do what they are meant to while the server
runs: no task or answer is lost, doubled or stranded. The weak places are at the
edges, and the properties state them exactly:

* A stop can hang. `m_flag` is read outside the mutex, and the destructor
  signals once: a worker (or the send_thread) that read the flag just before
  waits for a signal that is over (`StopCompletes`, `SenderStops`). SIGUSR1
  inside `push_task` makes the destructor lock a mutex its own thread holds.
* An answer can go to another client, but only if the asker was closed and its
  number given out again (`AnswersReachAsker`).
* An answer over HTTP can be damaged in two ways: other threads write in between
  (requests one client sends without waiting go to different workers), or the socket
  takes a part of the header only, and the body follows it all the same
  (`HttpBodyFollowsHead`). A socket that takes nothing just then gets no answer. A
  protobuf answer is never cut, and never torn by another of the send_thread; what a
  worker writes for an HTTP client that was closed may stand inside it when its
  number is the closed one's (`PbAnswersWhole`).
* One client that does not read stops the answers to all (`AnswersGetSent`).
* A list in redis is stale only while a handler is going to rebuild it, or
  after one of the events behind `adrift`. With two workers and no failure at
  all, overlapping rebuilds leave a list stale for good, and so does the rebuild of a
card whose user is in no department: it stores nothing, although it reports success
(handler_cache.cpp:233). A rebuild another server
  asks for is answered with success even when redis stored nothing: the handlers
  ignore what `cache_conn::set` returns (handler_cache.cpp:648).
* A message that arrives for a user between the select and the delete of their
  count is deleted without having been counted; a recall in that time can leave a
  whole sender out of the answer, because the one message that was to be looked
  up is gone; and so can one failed look-up, for all senders after it
  (`NothingSlips`). The message itself stays in the history.
* A recall that overtakes its message does nothing, and the message stays
  (`RecalledStaysAway`).
* The status link is safe as long as connects do not overlap, which nothing
  prevents: `m_status_enable` is looked at before a whole table, and by two
  workers at once. Each failed connect costs a descriptor (`DescriptorsOwned`), each
  overlap at most one (`OverlapsCostOneEach`). A worker that connects between the
  close of a connection and its event_free (net_conn.cpp:21-25) gets its number, and
  a link the kernel does not report on: nobody sees it end, and m_status_enable stays
  up (`EnabledMeansLinked`). The router's link can suffer the same after overlapping
  connects (`RouterReturns`).
  That leak is what keeps the router's number from going to a client: closing the
  socket without clearing `m_router_fd` would break `NobodyTakenForRouter`. After a
  status link is lost nothing remakes it before the router's next push: only a
  failed connect arms the timer (`StatusReturns`).
* `org_` and `cul_` are stale for good after a build that selected before a change
  and stored after the deletes; nobody builds `cul_` after a change, other servers
  ask for it. A change whose procedure ran but whose result could not be selected
  is answered with "fail" and refreshes nothing. A change of a card is not posted to
  the web server at all; it gets there with the next change of the tree
  (`WebCurrent`). Two workers at the static buffer
  post a tree under another company's number or length (`NobodysHeader`).
* A friendship can be one-sided for good after two handlers at the pair, a failed
  statement or a kill, although the answer is success (`MutualFriends`). A client
  misses friends that share the update_time of the last row of a page, that were
  written with a time it was already past, and, for cards, those whose friendship is
  older than the last card of an answer (`ClientsTold`). Where the cards of a full
  page are older than the question, the client is told to ask for the same page again,
  for ever, and no friend behind it arrives until a friend changes its card
  (`ClientsCatchUp`).
* A peer that sends nothing but whole messages loses none, whatever they hold. Stray
  bytes, or a length that announces less than follows, cost messages only when the
  reader passes over a 0x7E whose 0xAA it does not see, or takes a header inside a
  payload for one of the peer's: then it may give the pool that part of a payload as a
  message, and lose those whose first byte was already read. Every message after them
  arrives (`MessagesDelivered`). Until it has passed over a 0x7E the search looks at
  live memory of the first extent only; after that its index may point behind what is
  left of the evbuffer or into memory that was given back (`InsideExtent`). It never
  gives a message twice or out of order, and it never loops for ever (`ReadToEnd`).

Disagreements between the code and what its comments say, each shown by a run
that TLC finds violated:

1. `pool_relock`: thread_lock.h:28 says locking again does not deadlock; the
   recursive attribute is commented out on the next line.
2. `cache_added`: IM.Group.proto:213 says the answer lists the ids that were
   added; `set_group_change` copies all requested ids.

## 7. Assumptions of the models

* SIGUSR1 is handled on the main thread and only while it serves; what the event
  loop does with its freed base after `stop` returns is not followed. Workers'
  critical sections are not interrupted by the signal.
* SIGPIPE is ignored (net_work.cpp:59), so writing to a closed peer is an error
  and not the end of the process.
* In `RequestPath` the server is up throughout, no peer stalls (that is
  `ResponseQueue`), and the numbers of closed sockets go to clients only, not to
  MySQL, redis or the router. Answers are written in two pieces; a header that was cut
  is one piece too.
* In `ListCache` each statement is atomic, and any join behind a card may be without a
  row. The stored procedures are external
  and modelled from how the handlers use them: which users' and groups' rows
  they change. Rows are marked `is_delete` and never removed, as the select of
  `set_group_dissolve` relies on. An error path that ends a handler without an
  answer leaves its task allocated; nothing in the models depends on memory.
* In `OfflineMessages` each statement is atomic, messages are short enough for the
  8 KB a look-up reads them into, and an id belongs to one request. A request
  still in a worker's deque when the process is killed counts as one that may be
  sent again.
* In `ServerLinks` a peer that closes lets what was written before it vanish;
  memory of a deleted `net_conn` is not followed; `new` does not fail. Peers other
  than the router, the status server and clients (MySQL, redis, the web server)
  take no numbers.
* In `OrgTree` each statement is atomic, rows of a company are one counter, and a
  copy behind a foreign header counts as lost until it is posted again. Every change of
  the tree changes the JSON too, a card's only the JSON. A post that
  succeeds is processed by the web server at once.
* In `Friendship` and `FriendSync` each statement is atomic; the client and its use
  of the cursor are external, modelled from what the answers give it (update_time,
  is_more_data). A change of a card is one update, at a later time than its last; the
  times of the cards at first are arbitrary.
* In `Framing` libevent appends to the last extent, adds one, or both, never moves data
  in the middle of a walk, and an extent drained to its end is freed. The peer's own
  headers are whole, and it begins no message inside another (`WellFormed`); the last
  message may be cut short. Payloads and stray bytes are arbitrary: what follows a
  header that announces less than was sent is stray.
* After `add_response` a handler uses only its own variables, never the task,
  so the send_thread may delete it at once (`Return` of `RequestPath`).

## 8. Not modelled

* Account login is unreachable (its calls in `net_server::start` are commented
  out). Logging, configuration and md5 have no state that matters.
* hiredis, http_parser, jsoncpp, protobuf's runtime and the code `protoc` generates
  are libraries. They and the vendored headers are all but about fourteen thousand of
  the repository's lines, so the share of the repository that the models cover
  stays small whatever is modelled; of the files the program itself consists of,
  the models stand for about a quarter of the lines, and most of what is left
  copies columns into messages.
* The select-only handlers (lists of groups, members, roles, statistics, history)
  change nothing. Their cursors are the ones of `FriendSync`; the pages of history
  and offline messages by message id are not modelled.
* The parser's response callbacks of the outgoing HTTP connection, which delete
  their own connection, and the descriptor `do_http_connect` leaves open when it
  fails (net_work.cpp:245).
* `set_group_info` and the `exit_group` loop of `http_del_user` run over a number
  of rows that is data; each turn is a write with the two rebuilds `ListCache` has in
  `set_group_change`.
* Receipts, recent chats and `get_group_offline_msg_cnt`: single statements, or
  selects since a time.
* The fields of a message's header other than its tags and pb_length, and
  `write_msg`, which sizes its buffer by a length of 16 bits (message.cpp:214).
* The handle of a prepared statement is local to its handler; the database a redis
  connection has selected (cache_conn.cpp:40) and values truncated by MySQL
  (pre_statement.cpp:258) would need an index of every value and every row.

## 9. What is left

In order of importance: `set_group_info` and the loop of `http_del_user` as further
plans of `ListCache`; the group counts against `set_online_msg_data` (a message stored
for a group is in the count of it); the pages of history by message id; the life of
the redis connection (`cache_conn::init` after a failed SELECT). Of the proofs:
`OverlapsCostOneEach`, for which the invariants of `ServerLinksProofs` would have to
follow two connects at once through every line.
