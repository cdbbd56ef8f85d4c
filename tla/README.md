# Verification of the HPLSP study notes

TLA+ models of the server programs of `src/code` (the worked chapters 5 to 16 of
*High Performance Linux Server Programming*), TLC configurations that check them on small
instances, and machine-checked proofs about every modelled program. `PROJECT.json` maps every
definition that models code to the lines it stands for.

## 1. Inventory

The repository is a collection of small programs. Six of them are systems of several
interacting parts (thread pool and web server, process pool and CGI server, the two servers
with timers, the two chat rooms); the others demonstrate one system call or one technique each.

| Component | State | Operations | Interacts through | Hard behaviours | Correct when |
|---|---|---|---|---|---|
| Thread pool, `ch-15/threadpool.h`, on `sem` and `locker` of `ch-14/locker.h` | work queue, mutex, semaphore, `m_stop`, one program counter per thread | constructor, destructor, `append`, `run` | shared list under a lock, counted by a semaphore outside the lock | interleavings, interrupted waits, a constructor that fails half way, destruction under detached threads | each accepted request is processed once; no worker sleeps while a request waits; stopping ends the workers |
| Web server, `ch-15/web_server.cpp`, `http_conn.{h,cpp}` | epoll registrations, `users[fd]`, `m_user_count`, pool queue | the event loop, `init`, `close_conn`, `process` | epoll with `EPOLLONESHOT`, the pool, objects shared without a lock | main thread and workers on one object, reuse of descriptors, a full pool | one owner per connection at any time; nothing acts on a closed descriptor; nobody is forgotten |
| HTTP connection, `ch-15/http_conn.cpp` | read buffer and its indices, parser state, `m_iv` and the byte counts | `read`, `process_read` and the `parse_` functions, `process_write`, `write` | bytes of the socket | input cut anywhere, several requests on a connection, short writes, `EAGAIN` | the answer does not depend on how the input is cut; the response arrives once and whole |
| Process pool, `ch-15/processpool.h` | `m_sub_process`, round robin counter, per process: signal pipe, epoll, `m_stop` | constructor, `run_parent`, `run_child` | notices in socket pairs, `SIGCHLD`, `SIGTERM`, `waitpid` | children that end at any time, their set-up included; coalesced signals and edges; half set up processes | no child that dies once the parent has its handlers overlooked, no foreign pid used, `SIGTERM` ends everything, clients get a child |
| CGI server, `ch-15/concurrent_cgi_server.cpp` | a buffer per connection | `process` | the `T` of the process pool | input in pieces, fork | the first complete line names the program, and it is run once |
| Request analyser, `ch-08/analyse_http_request.cpp` | one buffer and its indices, parser state | `recv`, `parse_content` | bytes of one socket | input in pieces, a full buffer | the answer does not depend on how the input is cut |
| Timer list, `ch-11/lst_timer.h` | `head`, `tail`, `prev`, `next`, `expire` | add, adjust, delete, tick | called by the server below | pointers at head, tail, single node | stays a sorted doubly linked list of exactly the timers in use |
| Idle connections, `ch-11/close_inactive_conn.cpp` | connections, timers, alarm, signal pipe | event loop, signal handler, `cb_func`, `timer_handler` | `SIGALRM` through a pipe, epoll | input, expiry, hang-up and reuse in one batch; lost signals; a failing `accept` | a connection is closed when and only when its time is up; the ticks never stop |
| Time wheel, `ch-11/time_wheel_timer.h`, `close_inactive_conn2.cpp` | slots with lists, the hand, turns to wait | add, delete, tick | as the timer list; the same event loop | multiples of the turn, the slot under the hand | as the timer list, counted in ticks |
| Time heap, `ch-11/min_heap_timer.h` | array, capacity, size, expiry times | add, delete (lazily), tick, resize | callbacks that add and delete | a callback that puts another timer at the root; equal times; sizes 0, 1, 2; a capacity of 0 | what is due fires once, the earliest first |
| Chat room, `ch-13/chatroom_server.cpp` | `users`, `sub_process`, numbers into shared memory, notices, signals | accept, relay, reap, kill; `run_child` | fork, socket pairs, `SIGCHLD`, `SIGTERM`, shared memory | a user leaves and the last one takes its place while its child runs; signals lost or merged | the table, the count and the pids agree; a number belongs to one child |
| Chat room, `ch-09/chat_room/server.cpp` | poll entries, clients by descriptor, who points to whose buffer | accept, receive, send, remove | poll | removal from the array that is scanned; buffers shared by pointer; masks set with `\|= ~` | the entries are the open connections; what is due is sent |
| Locks and fork, `ch-14` | mutexes, `cond` | lock order, `pthread_atfork` | | deadlock, a mutex copied while held, a lost signal | no deadlock |
| Demonstrations of chapters 5 to 10, 12, 13, 16 | little | one system call each | | | |

`PROJECT.json` lists every component with what is and is not modelled, and under
`hazards` each place of the code where something can go wrong that a test would hardly
reach, with the properties that cover it.

## 2. Modules

| Module | Models |
|---|---|
| `TaskQueue` | what the thread pool promises: a bounded first-in first-out queue (abstract) |
| `ThreadPool` | `threadpool.h` with `sem` and `locker`: one step per access to shared state |
| `WebServer` | `web_server.cpp` and the calls of `http_conn`: who acts on which connection when |
| `LineMachine` | `parse_line`, which `http_conn` and the analyser share, as an operator |
| `HttpConn` | the inside of one `http_conn`: reading, parsing, mapping the file and writing, on `LineMachine` |
| `LineReader` | the request analyser (on `LineMachine`) and `cgi_conn`: programs that read a line in pieces |
| `ProcessPool` | `processpool.h`: parent, children, signals and notices |
| `IdleConnections` | what the two servers of ch-11 promise about silent connections (abstract) |
| `TimerAddresses` | the addresses of timers, for the list and the heap |
| `SortTimerList` | `lst_timer.h` at the level of its pointers, as operators |
| `TimeWheel` | `time_wheel_timer.h` at the level of its slots and pointers, as operators |
| `InactiveConn` | `close_inactive_conn.cpp` on `SortTimerList`, `close_inactive_conn2.cpp` on `TimeWheel` |
| `TimerService` | what a container of timers promises whose callbacks use it (abstract) |
| `TimeHeap` | `min_heap_timer.h`: the array and what `tick` does with it, step by step |
| `ChatRoom` | `chatroom_server.cpp`: parent, children, notices, signals |
| `PollChat` | `chat_room/server.cpp`: the loop over the poll entries |
| `MC*` | instances for TLC |
| `ThreadPoolProofs`, `WebServerProofs`, `HttpConnProofs`, `ProcessPoolProofs`, `LineReaderProofs`, `ChatRoomProofs`, `PollChatProofs` | theorems about the module of that name |
| `TimerProofs` | theorems about `InactiveConn`, with either container, and about `TimeHeap` |

`ThreadPool` implements `TaskQueue` (checked and proved); `WebServer` stands on that: its
pool is a bounded queue with atomic `append` and `Take`. `InactiveConn` composes the loop
with one of two containers and implements `IdleConnections` with either; `TimeHeap`,
which no program of the repository uses, implements `TimerService` (both checked and proved). `WebServer` and
`HttpConn` divide `http_conn`: to the former input is a number of parts, and `process_read` may ask for more or have a
result at any point of it; the latter takes the order of calls for granted.
`ProcessPool` and `LineReader` divide the CGI server in the same way.

A definition whose comment begins with "Slip:" is not part of the model. It is a variant
of the action after it with a plausible mistake; `PROJECT.json` pairs it with the property
that the mistake breaks, to show that the property depends on the code.

### How state and actions correspond to the code

**ThreadPool.** `m_workqueue`, `m_queuelocker` (its owner), `m_queuestat` and `m_stop` are
the members; `pc[t]` is the statement a thread is about to execute. `AppendCall` to
`AppendPost` are lines 84-95 of `append`, `RunLoop` to `RunProcess` lines 114-128 of `run`;
`RunWaitInterrupted` is a `sem_wait` that returns `EINTR`, which `run` ignores. `CreateThread`
and `CreateFails` are the constructor's loop: a worker runs before the constructor has
returned, and may be left alone with an object that was never constructed.
`DestructorBody` and `DestroyMembers` are `delete pool`; a worker that touches the freed
object is `undefined` from then on. `accepted`, `refused` and `finished` are history.
A request is an identity; passing the same pointer twice is two requests.

**WebServer.** `owner`, `interest`, `edge` and `backlog` are the kernel's view; an
`interest` of `off` is a registration whose one shot is used up. `sock[f]` says whether
`users[f].m_sockfd` is `f` or -1, `got[f]` and `wr[f]` abstract its buffers. `ProcessMore` and `ProcessReply` are
both possible whatever has been read: a bad request line is answered before the rest is in, and a request that is all in
may still get `NO_REQUEST` (`http_conn.cpp:255`, `:264`). So `InputIsSeen` promises that `process_read` meets all of the
input, and `HttpConn` says what it makes of it. The main
thread takes one event of the batch at a time, in any order. `init` and `close_conn` are
split where a worker or the kernel can come between: `remove_fd`, `m_sockfd = -1` and the
load and store of `m_user_count`. `dropped` records that `append` refused a request, which the code ignores.
`raced` records that `accept` returned a descriptor while a worker was still inside
`process` of the same object - between its `close` and the end of `process`. From then on two
threads write one object without a lock; the invariants say nothing about what follows.

**HttpConn.** The variables are the members of `http_conn` by name. A byte is `CR`, `LF`
or a run of text that matters to the parser (request line, `Content-Length`,
`Connection: keep-alive`, anything else), so that every cut of the input between, before
and after line ends is reached. `RequestAssumption` says what the client sends: lines that end with CR LF up to the first
empty one, and a body exactly as long as a `Content-Length` line says. The text "keep" stands for a header only: in a body the same text is other text.
A client that sends something else, such as a bare CR, may get no answer (the hazard at `http_conn.cpp:264`). A turn of the loop of `process_read` is one action, with
the case of the `switch` it takes; `line_status` survives a turn as the code's variable
does. `do_request` gives any of its outcomes. It checks neither `open` nor `mmap`, so a response with a file has the file mapped or
`MAP_FAILED`, and an empty file always the latter (`mapped` counts the mappings that exist, `m_file_address` is the pointer, "failed" for `MAP_FAILED`).
`writev` takes any number of bytes, but none of memory that is not there (`Readable`); `wire`
is what the client gets, as offsets into the response. `Reset` is `init()`, which runs after a
response on a kept connection and for the next client of the object (`NewClient`); `HangUp` is
`close_conn` from the main loop, which leaves everything but the socket as it is. `left` is
history: a client has gone while a file was mapped.

**LineMachine, LineReader.** `ParseLine` is the body of `parse_line`: the status it returns and
where it leaves `checked_index`. In `LineReader` `program` says which of the two programs runs;
pieces of up to `MaxPiece` bytes arrive in every combination. A turn of the `while` of
`parse_content` is one action. `CgiRecv` is a turn of the loop of `process`: `recv`, the scan
for CR LF from the old end, and what follows. A full buffer makes `recv` return 0, which both
programs take for the end of the stream.

**ProcessPool.** Each process has a record of its signal pipe, its epoll ready list, the
batch `epoll_wait` returned and the signals `recv` took. Signals in a pipe are a set: a
signal that is there twice is handled twice to the same effect. Before `setup_sig_pipe`
a signal has its default action. `Dispatch` is the round robin search (lines 331-344),
`SendNotice` the `send` that blocks while the pipe is full, `Reap` and `KillAll` the two
cases of the `switch` over signals, `ChildAccept` the one `recv` and the one `accept` per
event. `T::process` keeps or closes a connection. `ChildCrashes` ends a child wherever it is: an assertion or `new` that fails in its
set-up, `T::process` that does not return, a signal from somebody else. The parent ignores `SIGCHLD` until line 206; `early` is history, the children
that ended before that.

**InactiveConn.** `container` says whether the program is the one with the list or the one with
the wheel; the two event loops are line by line the same, so each shared action is mapped to one
of the files. `left[t]` is `t->expire - time(nullptr)`, 0 when it is past: the code
compares an expiry only with the present, or with one just set to the latest possible.
`lst` holds the pointers, `timer[f]` is `users[f].timer`, which keeps the address of a freed timer as
in the code. `TimerHandler` runs after the batch and is `tick` and the next `alarm`. A failing
`accept` writes `users[-1]`: the process dies or goes on with a timer for -1. On the wheel input
deletes the timer and makes a new one (`WheelRecvData`), perhaps at the same address. The wheel counts ticks, not seconds:
`IdleConnections` has a `unit` of time for that, and a connection survives `WheelLife` ticks.

**TimeWheel.** A record of the slots, the hand and the fields of every timer; each member function is an operator on it.
`AfterTick` visits the timers of the slot in the order of its list: one turn less, or unlinking. The callbacks of the
server do not touch the wheel, so they can be taken together (`Fired`).

**TimeHeap.** `array` is a function on `0..capacity-1`. A tick is split where it calls out:
`TickCalls` calls the function of the top, in `callback` it may add and delete timers (a top without a function is passed over: `Calling`), `TickPops` then removes
whatever is at the root. A timer is added with any `expire`, past ones included: it is a public member, and the timer may have been
built long before. Two things the code allows break what it is for, and are history. When a function adds a timer due before
its own, that one becomes the top, `pop_timer` deletes it uncalled, and the function is called again (`overtaken`). When something
is added to a heap constructed with a capacity of 0, `resize` makes no room and `add_timer` writes outside of the array (`outside`); the
model stops there. `TimerService` has a flag `broken` for such rules of use and promises nothing once it is set. `PercolateDown` runs with the size that still counts the last place, as in the code.
`cb` is the set of timers with a function; `HeapInit` covers both constructors, with any capacity.

**ChatRoom.** A connection, its socket pair and its child are named by the pid. `proc[p]` is where a child
is: `born` until it has closed its copy of the signal pipe, `setup` until its handler of `SIGTERM` is installed, then
between the test of `stop_child` and `epoll_wait` (`gap`), in it (`wait`), or handling events (`busy`). `SigTerm` sends `SIGTERM`,
which does what the child's place makes of it: a byte in the parent's pipe, nothing, a flag that is seen too late, or a wake-up.
`Reap` is one turn of the `waitpid` loop. Of the shared memory the numbers are kept: `idx[p]` and what is in the pipes.

**PollChat.** `pos` is `i`, 0 only when the listening socket was reported. A text is named by the descriptor of its
writer; `buf[f]` is whose text is in the buffer of `f`, `write_buf[f]` whose buffer the pointer of `f` leads to. `Remove` is the branch of
`POLLRDHUP`: the client of the last entry is copied to the descriptor that is closed, the last entry takes this place and is
handled next. `events |= ~POLLIN` and `|= ~POLLOUT` only set bits, so `out` is never cleared, and hang-ups are reported as before. What `new` leaves uninitialised is `Unset`.

## 3. Runs

Numbers are distinct states. Deadlock is not checked: clients stop at the bounds, nothing obliges
an operator to act, and a server without events rests.

| Run | Instance | States | Shows |
|---|---|---|---|
| `threadpool` | 2 producers, 2 workers, 3 requests, queue of 2 | 61,875 | `MutualExclusion`, `NoLostWakeup`, `ExactlyOnce`, `ImplementsTaskQueue`, `AcceptedIsFinished` |
| `webserver` | 3 clients, 2 descriptors, 2 workers, pool queue of 1, 2 parts a request | 1,703,996 | `OneResponsible`, `SockIsDescriptor`, `NothingStale` |
| `webserver_live` | the same with 2 clients, no symmetry | 117,391 | `InputIsSeen` |
| `http_conn` | 7 kinds of request, 3 on an object, buffer of 14 | 43,570 | `IsAnswered`, `NotAnsweredEarly`, `AnswerIsRight`, `WholeUnlessCut`, `MappedWhileSent` |
| `process_pool` | 2 children, 2 clients, pipes of 2 notices | 85,209 | `PidIsOurs`, `ParentLast`, `ZombieSeen`, `NoticesCovered`, `TermStops` |
| `inactive_conn` | 2 descriptors, 3 timers, list and wheel of 2 slots, signal pipe of 1 | 1,060,974 | `ContainerWellFormed`, `TimerPerConnection`, `AlarmAlive`, `ImplementsIdleConnections` |
| `inactive_conn_live` | 1 descriptor, 2 timers, 2 pieces of input, list and wheel, no symmetry | 398,708 | `IdleIsClosed` |
| `time_heap` | 5 timers, times 0 to 2, capacities 0 to 5 | 678,205 | `HeapOrdered`, `ImplementsTimerService` |
| `chatroom` | 2 users, 2 pids, pipes of 1 notice | 2,372,549 | `TypeOK` (the numbers stay in the shared memory), `UsersAreChildren`, `ZombieSeen` |
| `poll_chat` | 2 descriptors, 2 entries | 528,281 | `EntriesAreOpen`, `PointerIsAnothers`, `LeftIsRemoved`, `DueIsSent` |
| `line_readers` | every input of up to 8 bytes of 4 kinds, in pieces of up to 3 | 141,306 | `AnalyserIgnoresCuts`, `CgiRunsFirstLine` |
| `chatroom_number` | as `chatroom` | | violation of `NumberIsOwn` |

Every other passing run with invariants checks the type invariant of its module; `PollChat`, `LineReader` and `TimeHeap`
state what matters of their types (entries, indices and sizes in range) in the properties above.

### Bounds

* *ThreadPool*: a full queue of two needs three requests; two producers meet at the test of the
  size, two workers at the semaphore. Three requests on a queue of two also give a refusal.
* *WebServer*: three clients on two descriptors make numbers be reused while the other
  connection is in use; a pool queue of one is overfull with two requests; input of two parts can meet a worker that
  looks at the first, before and after the second arming. `MaxUsers` is the number of descriptors.
* *HttpConn*: each kind of request cut at every byte; the second and third request find what the ones before
  left, on one connection or on the object of a client that has gone. The longest request does not fit into the buffer, which
  exercises `ReadOverflows`. `wire` is cut at two responses, enough for one sent twice.
* *ProcessPool*: with two children, one can be gone, or going, while the parent sends to, kills
  or waits for the other, and both can go under one `SIGCHLD`, or one or both before the parent listens. Two clients make two notices. The pipe holds as many
  notices as there are clients, so `SendNotice` does not block for good in these instances.
* *LineReader*: eight bytes hold a request line, a header and the empty line, or a line end cut three ways and a full buffer.
* *TimeHeap*: five timers are a heap of three levels, with a parent of one and of two children; three different times make
  ties, and capacities from 0 make `resize` run at every size and fail at 0. A timer gets any of the times whatever the clock says. `MaxCapacity` bounds
  the capacity of construction.
* *ChatRoom*: two users fill the table; the first leaves, the second is moved, and the next client gets a
  number that is in use. One notice fills a pipe.
* *PollChat*: two entries are enough for the last to take the place of another and to be removed itself; a third client is turned away.
* *InactiveConn*: a lifetime of two ticks on a wheel of two slots, and of three in `inactive_conn_live`, gives timers with and without turns to
  wait, in the slot under the hand too. Three timers on a list reach head, middle and tail at once: two
  connections and one for the -1 of a failed `accept`. `TimeSlot` 1 gives a lifetime
  of three ticks and so equal, adjacent and distant expiries. Two pieces of input on one
  connection (in `inactive_conn_live`) let one `recv` take what a second event announces. `Connect` waits while every timer is in use or
  spoken for: `new` never runs out in the code.

Symmetry is used where values are only compared for equality: clients and workers, descriptors
and timers of `InactiveConn`, timers of `TimeHeap`, pids of `ChatRoom`; descriptors of `WebServer` are numbers, because the kernel
gives the lowest free one. The liveness runs use none.

### Fairness

Weak fairness says that a thread or process that can run is scheduled: each producer inside
`append` and each worker (`ThreadPool`), the main thread and each worker (`WebServer`), the parent and each child (`ProcessPool`),
the loop, the clock and the delivery of a raised signal (`InactiveConn`), the server (`PollChat`, where
accept does not fail for ever). `DueIsSent` needs that the receiver does not write for ever itself, which it says. Nothing obliges a client to
connect, send or hang up, a caller to append, an operator to send `SIGTERM`, or a failure to happen:
`AppendCall`, `CreateThread`, `RunWaitInterrupted`, `ForkFails`, `ChildCrashes`, `ChildAcceptFails`,
`Terminate` and the clients' actions have no fairness. A mutex is handed over by `WF` on each thread's next step; no schedule of
the checked properties needs strong fairness.

## 4. What the runs show

The pool is right while it lives: the semaphore outside the lock neither loses nor
duplicates a request, with interrupted waits too. The one-shot registration gives each
connection to one thread at a time; two exceptions are in the statement of the
properties because the code has them, a request that `append` refuses and a descriptor reused under a
worker. The pointers of the timer list stay right in every order of operations, and
stopping at the first timer that is not due is enough because the list is sorted. Once the parent has its handlers, the process pool never overlooks a child
that ends, although signals and edges coalesce.

The two containers of timers make no difference to the connections; the
heap survives percolating with a size that is one too large, and keeps its promise under callbacks that change it as long as none adds a timer due before its own. In both chat rooms the tables stay right
under removal by moving the last user. How the input is cut makes no difference to the analyser and to the CGI server.

One run expects a violation of a sentence of the repository's comments (quoted in `PROJECT.json`):
`chatroom_number`. A child whose user was moved keeps its number, and the next client's child gets the same:
two children share one part of the shared memory (`chatroom_server.cpp:308`).

Other places where the models follow the code although a reader may expect something else; no property claims the expectation:

* `m_stop` does not end a worker that waits on the semaphore (`threadpool.h:76`).
* `m_user_count` is updated by two threads without a lock, and an update can be lost (`http_conn.cpp:111`).
* A body that arrives in two pieces is never complete, because `parse_line` walks over the first (`http_conn.cpp:255`);
  `IsAnswered` excepts exactly this.
* After a short `writev` the response is truncated or repeated (`http_conn.cpp:182`); `WholeUnlessCut` excepts it.
* `close_conn` does not unmap the file of a response that is under way (`http_conn.cpp:107`); `MappedWhileSent` excepts it.
  The next client's response unmaps it, with the size in `m_file_stat`, which may be that of another file (`http_conn.cpp:485`); the model counts mappings, not their sizes.
* `do_request` does not ask whether `open` and `mmap` have worked (`http_conn.cpp:473`): the client gets the headers at most, and the connection is
  closed when `writev` meets `MAP_FAILED`.
* A child of the process pool that ends before the parent has its handler is not announced, and is waited for when another ends; when all do, the parent
  never stops, not for `SIGTERM` either (`processpool.h:206`). `ZombieSeen` and `TermStops` except this.
* A request with a line that does not end with CR LF is waited for, not refused (`http_conn.cpp:264`).
* A timer that a callback adds is popped uncalled, and the callback called again, when it is due before the callback's own (`min_heap_timer.h:132`);
  a heap of capacity 0 has no room after `resize` (`min_heap_timer.h:165`). `ImplementsTimerService` and `HeapOrdered` except these.
* Two clients in one edge get one notice, or one call of `accept` (`processpool.h:331`, `chatroom_server.cpp:240`).
* A child of the chat room that is told to stop between its test of `stop_child` and `epoll_wait`, or before its handler is installed,
  goes on until its client leaves, and the server with it.
* In the chat room on poll a pointer leads to a buffer that is overwritten by the next text, and by another client when its owner leaves
  (`server.cpp:117`): what is sent may be a later text, or the receiver's own.
* The wheel counts ticks, so a tick that is late delays every connection behind it.

## 5. Proofs

The theorems hold for every value of the constants that the assumptions of the modules allow. The assumptions are what the code
demands of its parameters, and that names are different from each other; TLC evaluates them in every run. `RequestAssumption` of
`HttpConn` is about the client, see section 2.

| Module | Theorem | Establishes `Spec =>` | For any |
|---|---|---|---|
| `ThreadPoolProofs` | `TypeCorrect`, `Exclusion`, `OnceEach`, `NoWakeupLost` | `[]TypeOK`, `[]MutualExclusion`, `[]ExactlyOnce`, `[]NoLostWakeup` | producers, workers, requests, capacity |
| | `Refinement` | `ImplementsTaskQueue` | |
| `WebServerProofs` | `TypeCorrect`, `OneHand`, `SocksAreDescriptors`, `NobodyHoldsClosed` | `[]TypeOK`, `[]OneResponsible`, `[]SockIsDescriptor`, `[]NothingStale` | clients, descriptors, workers, size of a request, limits |
| `HttpConnProofs` | `TypeCorrect`, `MappedWhenNeeded` | `[]TypeOK`, `[]MappedWhileSent` | input at all, sizes of buffer, body, headers and file |
| | `NeverAnsweredEarly`, `AnswersAreRight`, `RequestsAreAnswered`, `ResponseIsWhole` | `[]NotAnsweredEarly`, `[]AnswerIsRight`, `[]IsAnswered`, `[]WholeUnlessCut` | well-formed requests of any length |
| `ProcessPoolProofs` | `TypeCorrect`, `PidsAreOurs`, `ParentIsLast`, `ZombiesSeen`, `NoticesAreCovered` | `[]TypeOK`, `[]PidIsOurs`, `[]ParentLast`, `[]ZombieSeen`, `[]NoticesCovered` | children, clients, size of the pipes |
| `LineReaderProofs` | `CutsAreIgnored`, `CgiRunsTheFirst` | `[]AnalyserIgnoresCuts`, `[]CgiRunsFirstLine` | buffer, pieces |
| `TimerProofs` | `TypeCorrect`, `TimersBelong`, `AlarmNeverLost` | `[]TypeOK`, `[]TimerPerConnection`, `[]AlarmAlive` | descriptors, timers, times, size of the signal pipe, list or wheel |
| | `ContainersWellFormed`, `ServerRefines` | `[]ContainerWellFormed`, `ImplementsIdleConnections` | |
| | `HeapStaysOrdered`, `HeapServes` | `HeapSpec => []HeapOrdered`, `HeapSpec => ImplementsTimerService` | timers, times, capacities |
| `ChatRoomProofs` | `TypeCorrect`, `UsersChildren`, `ZombiesSeen` | `[]TypeOK`, `[]UsersAreChildren`, `[]ZombieSeen` | pids, `USER_LIMIT`, size of the pipes |
| `PollChatProofs` | `EntriesOpen`, `PointersAreOthers` | `[]EntriesAreOpen`, `[]PointerIsAnothers` | descriptors, `USER_LIMIT` |

In each module one lemma says that `Init` implies the inductive invariant and one that `[Next]_vars` preserves it, from one lemma or step per
action. Where there are two invariants, the second is inductive relative to the first. What has to be added to the properties, and why:

**ThreadPool.** `TypeOK` is not inductive: `run` puts what it reads from the queue into `request`, and `pop`
needs a queue that is not empty. `LockInv` adds what makes it so: `request` is in scope where the
code has it (`RequestInScope`), the thread between `lock` and `unlock` owns the
mutex (`Owned`), what it tested under the lock still holds when it acts on it (`Tested`), and `append`
runs on a constructed pool only (`LivePool`). Mutual exclusion follows from `Owned` at once. `ExactlyOnce` is proved relative to
`LockInv` with `Ledger`, which adds that a request in the hands of a producer is in no
other place and in no other producer's hands; `PushElements` and `PopElements` say what
`Append` and `Tail` do to the elements of the queue. `NoLostWakeup` is a count: each
lemma shows that a step that takes a token or a worker from one side puts one on the
other (`OneMore`, `OneLess`). `Refinement` shows that push, pop, finish and the freeing
of the object are the steps `Submit`, `Take`, `Finish` and `Close` of `TaskQueue`, that a
worker that runs into the freed object is `Abandon`, and that every other step is a stutter.

**WebServer.** That `read` never overflows the buffer of a request is part of `TypeOK` and rests on `Input`: what has been read, what waits in
the socket and what the client has still to send are one request. `Input` needs `Sockets`: a client is behind one descriptor at most.
`HandsInv` says for each descriptor which of five has it - epoll, the batch, the pool's queue, a worker, the thread that closes
it - that no two do (`Exclusive`), and what its registration and `m_sockfd` are in each case; there are three, a free
descriptor, one in `init`, and one being served. It holds until `raced`, like the properties, which follow from it.

**HttpConn.** `ConnInv` adds to the types how many files can be mapped, and that `m_file_address` leads to one of them or is `MAP_FAILED` (`Mapping`). `ParserInv` relates the parser to the request as a whole:
`m_start_line` is after a line end, there is none from there to `m_checked_idx`, and `m_content_length` and `m_linger` say what the lines before
it say (`HeadInv`); in the body, how far `parse_line` has walked over it (`BodyInv`); once it is answered, that all was read (`AnswerInv`). `LineFound` says what
`parse_line` finds from any index, from the least index of a line end. `WireInv` adds that the client has nothing of a response before `write`.

**LineReader.** The code keeps indices into a buffer and the property compares it with a machine that is fed single bytes, so
`AnalyserInv` says where the machine is at `start_line`, and lemmas (`RunText`, `FirstLineEnd`, `CompleteLine`) move it over text without a line end
and over CR LF. The machine is a recursive function; a fact about all its values is shown by taking the least index where
it fails (`LeastExists`), so this induction is within reach. For `cgi_conn`, `NewLineEnds`: looking again at the last byte before the new ones finds every line end.

**ProcessPool.** `PoolInv` holds types, and with them that the clients a child serves came from the backlog (`Counted`, `ClientHasUser`); that
children are born in order and all of them (`Born`); that before the parent watches the listening socket a child can only have been set up, or have ended and be in `early` (`Early`);
that `epoll_wait` is called with the batch before done (`BatchDone`), and `m_stop` set with no child left (`NobodyLeft`). `NoticesCovered` is relative to it, with
`EdgesBacked`: behind every edge a child has been told of there is a notice in its pipe.

**InactiveConn.** `ServerInv` needs to know nothing of how a container is linked, only which timers are put in and taken out:
that a timer that is not in use belongs to nobody (`FreeTimers`), since what a tick finds is not known to be in use, and that only
open descriptors are reported (`Reported`), as `ready` is the next batch. `AlarmInv` adds to the property that a pipe with something in it is reported (`PipeSeen`): a signal
that finds the pipe full is lost, but then the alarm in it is not.

`ContainerInv` says how the container is linked. The list (`ListInv`), and each slot of the wheel (`WheelInv`), has a sequence of its nodes, each
once, from which every link is read off (`Linked`); the timers in use are these nodes, and the `next` of all others is null, so that a walk that starts
off the chain ends. Each member function is a lemma about the sequence: a node inserted before the first that is later (`AddTimerInv`), moved to the right
(`AdjustTimerInv`), taken out (`DeleteTimerInv`, `UnlinkWheelInv`), a front cut off (`AfterTickInv`), some taken out and the rest counted down
(`AfterTickWheelInv`). The walks are recursive functions over pointers, which nothing says are finite; that a function with the equation exists, and what it
returns, is shown along the sequence by the least place where it would fail (`Backwards`, `Forwards`). That the list may stop at the first timer that is not
due is `ExpiredInv`: what precedes a due timer is due.

In `ServerRefines`, `Accept` is `Open`, `recv` of data `Input`, of the end `Close`, `SIGALRM` in the loop `Ask`, `timer_handler` `Sweep`, and the death of
the process `Stop`; `Second` is a step of the promise with the list only, since the wheel counts ticks. Each needs what a container says of the time
a timer has left: on the wheel, that a new timer has the ticks of `Ticks` to go (`NewRest`), and that a tick brings the hand one slot nearer to
a timer or, in its slot, takes one of its turns (`TickRest`).

**TimeHeap.** `HeapInv` is the order, that each timer is in the array once, and what is true in the call of a function: the top is still the one that is called
(`TopCalled`), until a function has added a timer due before its own: percolating up stops at equals, so one due at the same time stays below.
All of it holds until something was written outside of the array. Both ways of percolating are recursive functions
that carry a hole from place to place, so there is one argument for both: each step has a rank below the last (`Ranked`), so the function exists
(`SiftExists`); and there is a permutation that says where each place has its timer from and fixes the places that are not stepped on (`SiftSteps`, `Moves`).
The order then follows from the end of the way to its beginning (`SunkOrder`, `RisenOrder`). For `pop_timer`, which goes down while `cur_size` still counts the
last place and its timer is in the array twice, the point is that this place is never stepped on: the timer in it does not expire before the
one that sinks (`Popped`). In `HeapServes` the call of the top is `Fire`, and popping a stutter: what is popped has been called or was deleted.

**ChatRoom.** `RoomInv` adds to the types that behind a reported edge there is a client or a number (`Edges`) and that the places in use hold
pids (`PlacesUsed`). `UsersAreChildren` is part of it, because `Reap` looks up the place of the child that ended. `ZombieSeen` is inductive relative to it.

**PollChat.** `EntriesAreOpen` is inductive with types that keep the loop inside the entries (`RoomInv`): after `Remove` the entry that took the place is handled
next. `PointerIsAnothers` is inductive relative to it.

Only checked by TLC:

* All liveness properties (`AcceptedIsFinished`, `InputIsSeen`, `TermStops`, `IdleIsClosed`, `LeftIsRemoved`, `DueIsSent`): fairness and
  `ENABLED` are out of the prover's reach.

## 6. Not modelled

* Chapters 5, 6, 7 and 12, and the demonstrations of 9, 10 and 13: straight sequences of system calls.
* The programs of ch-14 (lock order, fork with a held mutex, a thread for signals) and `cond` of `locker.h`:
  each shows one effect whenever it runs, and no program uses `cond`. The server with a thread per event of ch-09 registers its sockets as `WebServer` does.
* The clients (`ch-09/chat_room/client.cpp`, `ch-16/stress_test.cpp`), except as the environment of the servers.
* The text of HTTP requests and responses, the document root, the response buffer at its limit.
* The text in the buffers of the two chat rooms; short and failing sends in `PollChat`.
* Event loops after `epoll_wait` or `poll` itself fails, and closing of descriptors at exit.
* Pipelined requests: the client of `HttpConn` waits for its response.
* What happens after a race on one object or on freed memory: C++ promises nothing.
* `SIGCHLD` in a child of the process pool: it reaps what `T` forked.

## 7. Plan

Done: models of all the systems of section 1, and proofs of every invariant and every refinement the runs check. To come:

1. `WebServer`: what is left of a connection whose descriptor was reused under a worker.
2. Lock order and fork of ch-14; the event per thread of `test_epolloneshot.cpp`.
