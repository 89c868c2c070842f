# A TLA+ model of RyanNetworkLibrary

TLA+ modules for RyanNetworkLibrary, TLC configurations that check them on small
instances, and TLAPS proofs of every safety invariant the runs check, for all
values of the constants.  Paths below are relative to `src/ryan_network/`.

## 1. Inventory

### 1.1 The system

The library is a reactor network library.  A thread owns at most one
`EventLoop`; an `EventLoop` owns a `Poller` (epoll or poll), a `TimerQueue` and
an eventfd.  `TcpServer` runs an `Acceptor` on the base loop and spreads the
accepted `TcpConnection`s over the loops of an `EventLoopThreadPool`.  Every
handler of a connection runs on the thread of its loop; other threads reach it
only by queueing functors (`RunInLoop`, `QueueInLoop`) and by writing the
eventfd.  Around this core stand a blocking `ThreadPool`, asynchronous logging,
an HTTP server, a MySQL connection pool and a memory pool.

### 1.2 Components

| Component | State | Operations | Interacts with | What is hard | What makes it correct |
|---|---|---|---|---|---|
| `EventLoop` (`net/event_loop.*`) | `quit_`, `looping_`, `calling_pending_functors_`, `pending_functors_` (under `mutex_`), eventfd, `active_channels_` | `Loop`, `Quit`, `RunInLoop`, `QueueInLoop`, `Wakeup`, `HandleRead`, `DoPendingFunctors` | any thread; poller; channels | the wakeup decision is taken after the unlock; functors queue functors | no functor is stranded behind a blocked poll; FIFO; exactly once; `Quit` ends the loop |
| `EventLoopThread`, `Thread` | `loop_`, `mutex_`, `cond_`, the start semaphore, `joined_` | `StartLoop`, `ThreadFunc`, destructor; `Start`, `Join` | owner thread and new thread; the `EventLoop` on the new thread's stack | two handshakes (semaphore, condition); the loop's life is the thread's stack frame | the owner only gets a live loop; the destructor waits for the thread |
| `EventLoopThreadPool` | `threads_`, `loops_`, `next_` | `Start`, `GetNextLoop`, destructor | `EventLoopThread`, `TcpServer` | order of construction and destruction | every loop handed out is live; round robin |
| `Channel` | `events_`, `revents_`, `index_`, `tie_` | `Enable*`, `Disable*`, `Remove`, `Tie`, `HandleEvent` | poller, owner of the channel | an event handled after its owner died | poller, kernel and channel agree on the registration |
| `EpollPoller`, `PollPoller` | `channels_`; epoll set / `pollfds_` array | `Poll`, `UpdateChannel`, `RemoveChannel` | channels | three-valued index; swap-and-pop of the array | the asserts hold; a removed channel is never reported |
| `TcpConnection` | `state_`, `reading_`, buffers, channel, socket, callbacks | `Send`, `Shutdown`, `ForceClose`, `ForceCloseWithDelay`, `StartRead`, `StopRead`, `ConnectEstablished`, `ConnectDestroyed`, `HandleRead/Write/Close/Error` | user code on the loop and on other threads, `TcpServer`, poller | `state_` tested and set by several threads; reference counting; close while output is pending | byte order, graceful shutdown, each connection closed and destroyed once |
| `TcpServer` | `connections_`, `started_`, `next_conn_id_` | `Start`, `NewConnection`, `RemoveConnection(InLoop)`, destructor | base loop and I/O loops | removal crosses two loops; the server may be destroyed meanwhile | every closed connection leaves the map and is freed |
| `Acceptor` | `listenning_`, listening channel | `Listen`, `HandleRead` | `TcpServer` | descriptor exhaustion | one accept per event; a client that came without a free descriptor is accepted later |
| `TimerQueue`, `Timer` | ordered set of (expiration, timer), timerfd | `AddTimer`, `HandleRead`, `GetExpired`, `Reset`, `Insert` | loop; callbacks that add timers | re-arming after callbacks; clock changes | the timerfd is armed for the earliest timer |
| `Buffer` | reader and writer index, the vector | `Append`, `Retrieve*`, `Prepend`, `EnsureWritable`, `MakeSpace`, `ReadFd`, `WriteFd` | `TcpConnection` | moving data inside the vector; the second iovec | a FIFO of bytes |
| `ThreadPool` | `queue_`, `running_`, two conditions | `Start`, `RunTask`, `Take`, `Stop` | producers and workers | bounded queue, stop while blocked | each accepted task runs at most once; `Stop` returns |
| `CountDownLatch` | `count_` | `Wait`, `CountDown` | any threads | notification before the wait | `Wait` returns when the count is 0 |
| `AsyncLogging`, `FixedBuffer` | current, next and full buffers under `mutex_` | `Append`, `ThreadFunc`, `Start`, `Stop` | logging threads, back end | exchange of buffers; the last lines at `Stop` | every line is written once, in order |
| `LogFile` | bytes and appends since the last roll, the day | `Append`, `Flush`, `RollFile` | back end | rolling by size and by day | a line is in exactly one file |
| `HttpServer`, `HttpContext` | parse state, request | `OnMessage`, `ParseRequest`, `OnRequest` | `TcpConnection` | a request in several fragments, several requests in one read | responses in order, each request answered at most once |
| `MemoryPool` | list of blocks, large blocks, failure counts | create, `malloc`, `Free`, `Reset`, destroy | one thread | lists of blocks whose fields are read before they are written | live allocations never overlap |
| `MysqlConnPool` | queue of connections, count, limits | constructor, producer, recycler, `GetConnection`, destructor | clients, two background threads | counting; timeouts; stop of detached threads | at most `max_size_` connections; a returned one is handed out again |
| Wrappers | none of their own | `Socket`, `InetAddress`, `Timestamp`, `CurrentThread`, `Logger`, `LogStream`, `HttpRequest`, `HttpResponse`, `MysqlConn` | | | |

The hazards this code is exposed to, each at its line, are listed in
`PROJECT.json` under `hazards`, with the properties that catch them.  Where the
code gives way to a hazard, the property excepts the case and the entry says so,
or no property is listed; section 6 collects these cases.

## 2. Modules

| Module | Models | Kind |
|---|---|---|
| `FunctorQueue` | what the loop promises its callers: one FIFO of functors | abstract specification |
| `EventLoop` | `EventLoop` | component, implements `FunctorQueue` |
| `EventLoopThread` | `EventLoopThread` and `Thread` around an `EventLoop` | composition: extends `EventLoop` |
| `EventLoopProofs` | theorems about `EventLoop` and `EventLoopThread` | proofs |
| `TcpConnection` | `TcpConnection`, its `Channel`, `EpollPoller`, the connection map of `TcpServer`, user threads and the peer | composition |
| `TcpConnectionProofs` | theorems about `TcpConnection` | proofs |
| `TimerQueue` | `TimerQueue` and `Timer` on one loop, with the two clocks and the timerfd | component |
| `TimerQueueProofs` | theorems about `TimerQueue` | proofs |
| `ThreadPool` | `ThreadPool` with its owner, workers and producers | component |
| `ThreadPoolProofs` | theorems about `ThreadPool` | proofs |
| `Buffer` | `Buffer`, beside the byte sequence its callers believe in | component, pure operators |
| `LogFile` | `LogFile` and the byte count of `FileUtil` | pure operators |
| `AsyncLogging` | `AsyncLogging` with its `FixedBuffer`s, writing to a `LogFile` | composition: extends `LogFile` |
| `AsyncLoggingProofs` | theorems about `AsyncLogging` and `LogFile` | proofs |
| `Poller` | what a `Poller` promises the loop: the kernel watches what each channel asked for last | abstract specification |
| `PollPoller` | `PollPoller` and the life of the channels it serves | component, implements `Poller` |
| `TcpServer` | `TcpServer`, `Acceptor` and `EventLoopThreadPool`: many connections on many loops | composition |
| `NetProofs` | theorems about `PollPoller` and `TcpServer` | proofs |
| `HttpServer` | `HttpServer`, `HttpContext`, `HttpRequest` and `HttpResponse` on one connection | component, pure operators |
| `BufferProofs` | theorems about `Buffer` and `HttpServer`, which reads from one | proofs |
| `MysqlConnPool` | `MysqlConnPool` with producer, recycler and clients | component |
| `MemoryPool` | `MemoryPool`, with the memory it reads uninitialised | component |
| `PoolProofs` | theorems about `MysqlConnPool` and `MemoryPool` | proofs |
| `MC*` | instances for TLC | model checking |

### 2.1 `EventLoop`

Variables have the names of the members.  `functors` is the local vector of
`DoPendingFunctors`; `eventfd` says whether the counter of `wakeup_fd_` is
non-zero; `ready` is what the kernel would report for the other channels;
`loop_pc` is where the loop thread is; `call[t]` is the call thread `t` is in the
middle of.  A critical section of `mutex_` is one action; what `QueueInLoop` does
after the unlock (`QueueInLoopWakeup`) and what `Quit` does after its store
(`QuitWakeup`) are actions of their own, so that every other thread can run in
between.  User code on the loop thread (channel callbacks, functors, the code
around `Loop()`) is represented by the calls it may make.  Each functor object is
handed over at most once, so a functor stands for one submission.

`EarlyQueue` says whether the loop thread itself calls `QueueInLoop` outside
`Loop()`; see section 6.

### 2.2 `EventLoopThread`

Extends `EventLoop` with the owner thread, which starts the thread, waits on the
semaphore and then on the condition variable, uses the loop, and destroys the
object, and with the worker that posts the semaphore, constructs the loop, runs
the init callback, publishes `loop_`, loops, clears `loop_` and lets the loop go
out of scope.  `LoopQuits` says whether code on the loop may call `Quit()`
itself; the ghost variable `self_quit` records that it did.

`DanglingUseOnlyInQuit` says which uses of a destroyed object are left when only
the owner ends the loop: one, the read of `thread_id_` in `Quit()` after its store
(`call[Owner] = "quitting"`).  `QuitReadsLiveLoop` would exclude that one too; it
does not hold (section 6).

### 2.3 `TcpConnection`

One connection with everything that touches it.  The I/O loop keeps the phases
of `EventLoop` (poll, handle, run) over one FIFO of functors, which is what
`EventLoop` is shown to implement.  A handler is one action up to the user
callback it makes; the callback is a step in which user code may call the
connection, and what the handler does afterwards is in `todo`, in the order of
the code.  Calls of user threads are cut at each access to `state_` and to the
queue.  `Alive` is the reference count: the server's map, the functors bound to
a `shared_ptr` (alive until their batch is cleared), the handler in progress
(the tie) and the user threads.  Functors bound to the raw `this` (`RawTasks`)
keep nothing.  A failed `assert` and a use of a destroyed object end the process
and are recorded in `fault`.  Payload is numbered chunks; a message has two, so
that a write can be partial.  `io_loop` is fixed initially: `"base"` is a server
without threads, whose handlers share the server's loop, `"sub"` a loop of its
own.  What the program around the connection does is fixed initially as well:
`Programs` is a set of records that say which operations are called on the loop,
which by other threads, how many, and whether the server may be destroyed
meanwhile.  `Disciplined` names the programs that use the connection on its loop
only, keep the server, call `StartRead` only while `Connected()` and never call
`StopRead`; the properties that the code gives to these alone say so, the others
hold for every program.  The last condition was found by the proof of `NoFault`:
`HandleClose` of a channel that `StopRead` has taken out of the epoll set puts it
back (`epoll_poller.cc:73`, section 6).

### 2.4 `TimerQueue`

`timers_` is the ordered set of entries (a set of records with `when` and
`timer`), `expiration_` the member of each `Timer`, `life` the allocation of
each.  Two clocks are kept apart, as in the code: timers are compared with
`Timestamp::Now()` (`wall`), the timerfd runs on `CLOCK_MONOTONIC` (`mono`) and
is armed relative to now.  Its minimum of 100 us is below a tick: a timer that is
due fires in the current tick.  `HandleRead` is cut where it calls a callback and
where it reads the clock (`HandleRead`, `RunTimer`, `BeginReset`, `Reset`), so
time passes and callbacks add timers in between.  The loop around it has the
phases of `EventLoop`, and timers added by other threads go through a FIFO of
functors.  `calling_expired_timers_` is written and never read, and is left out.

### 2.5 `ThreadPool`

A thread's steps are cut where it takes or releases `mutex_`: what it does from
the lock to the unlock or to `wait()` is one action.  `notify_one` moves any one
waiter to the place where it competes for the mutex again (`Notified`),
`notify_all` moves all, and `SpuriousWakeup` is possible at any time.  Tasks may
call `RunTask` themselves (`Parent`), so a worker can wait for room in its own
pool, and a pool without threads runs a task in place: `stack` holds the tasks a
thread is in.  `accepted`, `taken` and `backlog` are history.  A worker reads
`running_` without the mutex at the head of its loop; the store is a step and the
read is a step.  Exceptions thrown by tasks, which end the process, are left out.

### 2.6 `Buffer`

A buffer is a record of the vector (`mem`, `size`) and the two indices, and each
method is an operator that returns the buffer after the call, so that `Shrink`
can build a second buffer and `ReadFd` can append to one it has half filled.
`std::copy` inside the vector reads all its source before the model writes
(the ranges of `MakeSpace` overlap; since `std::copy` goes upwards and the bytes
move down when the reader index is beyond `kCheapPrepend`, and since glibc copies
characters with `memmove` otherwise, the outcome is the same).  Integers are
appended, prepended and retrieved as sequences of bytes.  Three byte values are
told apart: CR, LF and the zero of a fresh vector.  The asserts of `Peek*` and
`Prepend` are the duty of callers and are guards.  `content` is what the callers
believe to be in the buffer.

`EnsureWritableBytes` hands its `size_t` to `MakeSpace(int len)`: `ToInt` is that
conversion, and `IntLimit` stands for 2^31.  A negative `len` makes `resize` throw
(`Throws`: nothing has changed), cut the vector short of the writer index, or the
test of `MakeSpace` move the bytes as if there were room; a `len` beyond 2^32 comes
out too small.  What happens after the writer index has left the vector is
undefined, and the model stops there (`InBounds`); `huge` records that a call asked
for 2^31 bytes or more.

### 2.7 `LogFile` and `AsyncLogging`

`LogFile` is a record whose operators are the methods.  It is used by one thread,
through `AsyncLogging`.  Sizes are counted in appends, because the back end
appends whole buffers of one size; `late`, a history field, counts the appends to
a file after its period has ended.

In `AsyncLogging` a critical section of `mutex_` is one action, so it does not
matter which thread calls `Append`.  The front end has the two branches of
`Append`; the owner `Start` and the three steps of `Stop` (store, notify without
the mutex, join); the back end the steps of `ThreadFunc`: the test of `running_`,
the wait, the swap, one step per written buffer, and the return of buffers.  A
`unique_ptr` that was moved from is `Null`.  `Logger` hands over its whole
`FixedBuffer<kSmallBuffer>`, since `Length()` is the size of a buffer, so every
line takes the same room, one slot.  A slot keeps its line after `Reset`, as
`data_` does; `written` records a line the first time it is written (`NewLines`
is what a buffer adds to it).

### 2.8 `PollPoller` and `Poller`

`poll_fds_` is a sequence of records, `channels_` the map from descriptors,
`index_` and `events_` members of each channel.  Channel objects are storage that
is used again, and the kernel gives a descriptor out again once its channel is
gone, so stale indices and descriptors can do harm.  `AddChannel` and
`UpdateChannel` are the two branches of `UpdateChannel`; `RemoveChannel` contains
the swap with the last `pollfd`, ignored (negative descriptor) or not.  `Poll`
lets the kernel report any of the pollfds that are not ignored.  The asserts are
evaluated (`Found`, `MayRemove`, `Known`): when one fails, `failed` names the call
and the channel and nothing more happens.  A channel whose first update asks for
nothing is `"silent"`: it is in the array and not ignored, and `RemoveChannel` fails
on it.  The library makes one in `~Acceptor` before `Listen()`, which removes it at
once, so no `Poll` comes in between.

### 2.9 `TcpServer`

The other half of what `TcpConnection` models: many connections, of each only
the part the server takes part in.  `ThreadNums` are the numbers of threads a run
tries, none above `MaxThreads`.  A loop is a FIFO of functors (`FunctorQueue`)
that runs events between functors; `Start()` is cut at the fetch-and-add of
`started_`, at each `StartLoop()` and at the `RunInLoop` of `Listen`, and may be
called by several threads; `NewConnection` and `RemoveConnection` contain what
`RunInLoop` does in place when the loop is the caller's own.  The destructor hands
out `ConnectDestroyed` one connection at a time, then the members go: the thread
pool (each thread told to quit and joined), then the acceptor.  It runs on the
base loop's thread outside `Loop()`, as for a server on the stack of `main()`; one
destroyed inside a callback is in `TcpConnection`.  A thread of the pool is
`"starting"` when `StartLoop()` returns, and in `Loop()` after `ThreadEntersLoop`,
which resets its `quit_`.  The destructor tells the threads one after the other
(`told`) and joins each before the next; a `Quit()` that came too early
(`QuitTooEarly`) is erased, and the destructor hangs in the join (`JoinHangs`).
Connections are closed by their peers; a half-closed one is in `TcpConnection`.

### 2.10 `HttpServer`

A peer's stream is a sequence of lines, and a read ends in the middle or at the
end of any of them.  `ParseRequest` is given by what it takes out of the buffer
(`Retrieved`) and by its two results, the return value and `GotAll()`.  Each read
starts a new context, as `OnMessage` does.  A line is what the parser tells apart:
the number of words, the method, the version, whether there is a colon.
`GoodStream` says that the peer's lines are a sequence of requests as the parser
wants them: a request line that is not the last line of its request, headers with
a colon, a line without one.

### 2.11 `MysqlConnPool`

A critical section of `mutex_` is one action; waiting on `cond_` ends it.
Returns from a wait without notification are possible at any time.  `idle` is the
time since `RefreshAliveTime()`, cut off at `max_idle_time_`.  The counter
`current_size_` is kept as the code keeps it, `live` is the set of connections
that exist.

### 2.12 `MemoryPool`

Sizes are bytes, with the code's record sizes and alignment, on small pages.
`chunks` is what `malloc` has given out, the pool's own `LargeNode`s included.
Fresh memory holds anything in `Garbage`: where the code reads a field before it
writes it, the model chooses; `sane` records whether `quote_` of every fresh page
held zero.  Following a pointer that was never written, or was read from a page
already freed, ends in `"fault"`.  `PageAssumption`
says of the sizes what the code's are: the records fit in a page, pages and
`SmallNode`s are multiples of the alignment, and `quote_` can count as many
chunks as a page has aligned places (4096 / 16 against 2^32).

## 3. Runs

Every run is exhaustive within its bounds.

| Run | Instance | Shows |
|---|---|---|
| `EventLoop` | 2 foreign threads, 3 functors, 1 channel | no lost wakeup, FIFO (refinement), every queued functor runs, `Quit` ends the loop |
| `EventLoopThread` | owner, worker, 2 functors, the loop may quit by itself | the start handshake, the destructor, and what is touched when |
| `TcpConnection` | 3 calls on the loop of all operations but `StopRead`, or 2 calls of all six operations on the loop and from a user thread with the server destroyed at any time; 1 arrival, close and reset, both placements of the loop | asserts, life time, graceful shutdown and reaping for the first program; byte stream and registration for both, in all states before a failed assert |
| `TimerQueue` | 3 timers (one repeated), 3 ticks, the wall clock may be set back once per tick | the timerfd is armed for the earliest timer, ownership of `Timer` objects, due timers run |
| `ThreadPool` | up to 2 workers, 2 producers, 4 tasks, one of which calls `RunTask`; queue unbounded or of one slot | no lost wakeup on either condition, bounded FIFO, `Stop` returns, accepted tasks are taken |
| `Buffer` | all sequences of up to 3 bytes and one of 4, up to 4 in the buffer, areas of 2 bytes, `int` from -3 to 2, arguments to 7 | bytes kept in order, inside the vector below 2^31, lines found where they are |
| `AsyncLogging` | 5 lines, buffers of 2, files of 3 appends, a check every 2, periods of 2 s, 3 s | no line lost or overtaken, no full buffer left waiting, buffers to hand out, files roll in time, `Stop` returns |
| `PollPoller` | 3 channel objects, 3 descriptors, 2 events | array, map and indices agree, which asserts can fail; refinement of `Poller` |
| `TcpServer` | 5 clients, 3 descriptors, 0, 2 or 3 threads, 2 callers of `Start` | one teardown per connection on its loop, no client forgotten, the destructor joins and frees unless its `Quit` is erased |
| `HttpServer` | 125 streams of 3 requests, reads at every half line | responses in order; whole good requests handled and answered |
| `MysqlConnPool` | 2 clients, 1 to 6 connections, idle times to 2 | ownership and limits, no sleeping producer, recycling order, clients are served |
| `MemoryPool` | 3 pages of 112 bytes, 3 areas, sizes 17, 80 and 81 | with `quote_` zero in fresh pages: live chunks apart, counts and lists right |

**Bounds.**  Two foreign threads and three functors let two calls overlap the
swap of a third functor, and let a functor queue another; a third thread would
repeat what the second can do, because threads interact only through the queue
and the eventfd (the theorems of section 5 hold for any number).  Three calls on
a connection let a `Send` leave output behind, a `Shutdown` follow it and a
`ForceClose` interrupt both; `HighWatermark` is 3 chunks, so that it is crossed
by the second message and not by the first.
Three timers and three ticks let a timer be added while two others, one of them
repeated, are due, and let the clock pass a due time inside `HandleRead`.  Two
workers and two producers let a notification reach one thread while another takes
the task or the slot; four tasks with a queue of one slot let both producers and
a task wait for room.  In `Buffer` the areas are scaled down to two bytes each,
so that every comparison of sizes is met from both sides: a message may fit, fill,
exceed the free space, or go to `extrabuf` in part.  With `IntLimit = 3`, messages
of three and four bytes and arguments up to seven are those of 2^31 bytes, more,
and more than 2^32: a throw, a vector cut short, and a copy behind its end all
occur.
Five lines fill both buffers of the front end and make `Append` allocate a third
while the back end is anywhere in its loop, and more than one round of the loop
recycles buffers; the first period ends after one second, so that rolls by
size, by period, by both and by neither occur.
Three channels and three descriptors let a removal hit the first, a middle or the
last pollfd, with the last ignored or not, and let descriptors and channel storage
be used again.  Five clients on three descriptors exhaust them and free them
again; two and three threads let the round robin wrap with connections on every
loop.  Three requests let a second and a third be pipelined behind one that is
cut or refused.  `MaxSize = 6` lets the pool grow, recycle and use its counter
up, which takes half as many connections.  A page of 112 bytes has room for two
small chunks after its header (one, in the first page) and the size 80 fills one exactly, while
81 is the smallest large one; `MaxFailed` and `MaxTries` are 1 and 2 instead of 5
so that both limits are met, and `QuoteMod` 8 instead of 2^32 is never reached
by the counts.  For the safety invariants the proofs of section 5 lift all these
bounds; they remain for the liveness properties.

**Deadlock** is checked in every run except `TcpConnection`, where the calls are
bounded and the process may end in a failed assert, `MemoryPool`, where a
followed wild pointer ends it, in `TimerQueue`, where time is
bounded and the queue may be destroyed, in `ThreadPool` and in `AsyncLogging`, which are
over when `Stop` has returned.  `PollPoller` after a failed assert, `Buffer` after a
write outside the vector and `TcpServer` when the destructor is done, or hangs in
a join, stutter by an action of their own.

**Environment.**  Nothing under `src/` ignores `SIGPIPE`.  A write to a connection
that the peer has reset fails with `EPIPE` in the model and the process goes on, as
in `SendInLoop` and `HandleWrite`; this assumes that the program ignores the
signal.  Otherwise the process ends there, and the liveness properties of
`TcpConnection` say nothing of it.

**Fairness.**  Weak fairness of the loop's own steps and of the second half of
each call stands for the OS scheduling every thread.  Callbacks and functors are
assumed to return after finitely many calls (strong fairness of the return,
because a callback that calls `RunInLoop` again and again leaves and enters the
state in which it can return).  `PollTimesOut` has no fairness: what the loop
promises must not wait for the 10 s timeout; only `QuitEndsLoop` assumes it,
inside the formula, because the code relies on it (section 6).  In
`TcpConnection` weak fairness of the I/O loop and of the base loop's functors is
what `QueuedFunctorRuns` establishes of `EventLoop`; the peer, the users and the
timer of `ForceCloseWithDelay` have none.
In `TimerQueue` weak fairness of the loop thread, of `Tick` and of `TimerfdFires`
stands for the scheduler and the kernel; other events and the poll timeout have
none, so nothing is owed to them.  In `ThreadPool` every thread has weak fairness
of its own steps (tasks return), the owner finishes `Start` and `Stop` once
called, and nobody is obliged to call anything; `SpuriousWakeup` has no fairness,
so no progress rests on it.  `AcceptedIsTaken` excepts the state in which every
worker waits for room inside a task: the code has no way out of it but `Stop`
(section 6).  In `AsyncLogging` the back end is scheduled and its `wait_for` ends
after three seconds, and the owner finishes a `Stop` it has begun; `Append` and
the clock have no fairness.  In `TcpServer` loops run their functors and events,
threads enter `Loop()` once started and leave it when `quit_` is set, the destructor goes on once begun,
and connections are closed by their peers in the end, which is what frees
descriptors; nobody is obliged to connect or to destroy the server.  In
`MysqlConnPool` the producer is scheduled, waits of clients time out, and clients
give connections back; nothing is assumed about who gets the mutex, so
`PoolServes` promises that somebody is served, not everybody: the code promises no
more.  `TcpServer`'s and `MysqlConnPool`'s fairness of timeouts is what
`wait_for` and the level-triggered pollers guarantee.

Each property has a mutant: a definition of the model changed the way a
plausible bug would change the code, on which TLC finds the property violated
(`PROJECT.json`, `mutants`).

## 4. Abstract specifications

`FunctorQueue` has one variable for the queue and one for what has run:
`Submit` appends, `Execute` takes the head, `RunDirect` runs a functor in place.
`EventLoop` implements it with `queue <- functors \o pending_functors_`: the
swap is a stuttering step, and a functor queued while a batch runs comes after
the rest of the batch.

`Buffer` carries its abstract specification as `content`: each action says what
the call does to a sequence of bytes, and `KeepsBytes` is the refinement.
`ThreadPool` does the same with `accepted` and `taken` for a bounded FIFO.

`Poller` has the events each channel asked for last (`wanted`, or that it is
unregistered), the events the kernel watches for it (`watch`) and the channels the
last `Poll()` reported; an update changes the first two together.  `PollPoller`
implements it with `wanted` read off the channel (`events_`) and `watch` off the
array: the events in the pollfds that carry the channel's own descriptor.  An
ignored pollfd carries a negative one, so it watches nothing.

## 5. Proofs

Every safety invariant of the runs is stated by a theorem, and so are the two
refinements.  A property that is not inductive is proved from a stronger one,
which TLC checked on the run's instance before it was proved; what it adds, and
why, is said below.

`EventLoopProofs` proves, for every set of threads, functors and channels
(assuming only that the loop thread is not one of the others and that
`EarlyQueue` is a Boolean):

* `TypeCorrect`: `Spec => []TypeOK`.
* `WakeupInvHolds`: `Spec => []WakeupInv`.  `NoLostWakeup` is not inductive: it
  speaks of the loop thread in `Poll`, and the reason why a functor queued
  earlier is covered lies before.  `WakeupInv` adds that from the swap to the
  return of `Poll` a non-empty `pending_functors_` is covered by the eventfd, by
  a foreign thread between its unlock and its write, or by a functor body
  between the two (for which `calling_pending_functors_` is set); that the flag
  is set exactly while functors run; and where the loop thread can be when it is
  inside a call.  `HandleRead` may clear the eventfd because the swap follows
  before the next `Poll`.
* `NoLostWakeupHolds`: from `WakeupInv`, when `EarlyQueue` is `FALSE`.
* `Refinement`: `Spec => FQ!QSpec`, step by step; the swap and the loop's control
  steps stutter.
* `ExactlyOnceHolds`: the queue holds no functor twice and none that has run.
* `ThreadImplementsLoop`: `ThreadSpec => Spec`, every step of owner and worker is
  a step of the loop or leaves it alone, so that all theorems about the loop hold
  of one on another thread's stack.
* `DanglingUseOnlyInQuitHolds`: while only the owner ends the loop, the owner calls
  no loop that is gone, except that the tail of its `Quit()` may read one, and the
  worker never touches a destroyed `EventLoopThread`.  The inductive invariant,
  `LifeInv`, says where the worker may be for each place of the owner: not started
  before `Start()`, at or in `Loop()` from the return of `StartLoop()` to the
  destructor's `Quit()`, and gone after `Join()`; that the loop exists, and `loop_`
  names it, exactly at certain places of the worker; and that `quit_` is set in a
  running loop only once the owner is past the store in `Quit()`.

`TcpConnectionProofs`, for every set of user threads, every set of programs, any
number of calls and arrivals and every high-water mark:

* For every program, with calls from other threads and the server destroyed at
  any time, up to the step in which an assert fails: `TypeCorrect`;
  `RegistrationHolds` (channel, poller and kernel agree); `StreamInOrderHolds`:
  what the kernel took and what is buffered are together what `SendInLoop` took,
  in order and without gaps, although direct writes, partial writes and other
  threads' messages mix.
* `ConnLifeHolds`, for `Disciplined` programs: what may be queued and what a
  handler may have left to do (`QueueInv`, `TodoInv`) before the connection is
  established, while it is open and after `HandleClose` (`ConnectingInv`,
  `OpenInv`, `ClosedInv`).  After `HandleClose`, and until the channel has left the
  poller, the teardown is under way in exactly one place: in what the handler
  still does, in the base loop's queue or in the I/O loop's.  `NoFaultHolds`
  follows: a second close, a second removal or a functor on a destroyed connection
  would need a second teardown.
* `OutputInvHolds`, from `WriteInv`: `EPOLLOUT` is asked for exactly while an open
  connection has output, so a pending message leaves and an idle connection does
  not spin; the write side is shut only after `Shutdown` and only with the output
  gone.

`TimerQueueProofs`, for every set of timers, every interval and every length of
time:

* `TypeCorrect`, `OneOwnerHolds`: `OneOwner` is strengthened by the shape of the
  loop's phases, and rests on lemmas about sequences without repetition.
* `ArmedInvHolds` and, from it, `ArmedForEarliestHolds`.  `ArmedForEarliest` is
  not inductive: after the timerfd has fired, its arming again depends on
  `HandleRead` finding an expired timer, because `Reset` arms it only inside its
  loop.  `ArmedInv` says that the timerfd is never armed *before* every timer's
  due time, so that firing implies a due timer, as long as the clocks are in
  step (section 6).

`ThreadPoolProofs`, for every finite set of workers and producers, every nesting
of tasks and every bound of the queue:

* `TypeCorrect` (with the agreement of places, stacks and `running_`).
* `NoLostNotifyHolds`, from `NotEmptyHolds` and `NotFullHolds`, counts: a push
  adds one task and moves one waiter (if there is one) to the takers, a take
  removes one of each.  Both are inductive only together with the fact that a worker waits only while
  `running_`, which is `WaitsHold`.
* `FifoHolds`, `WaitsHold` (with `StopWakesAll`), and `StopIsPromptHolds`, whose
  inductive form (`PromptInv`) bounds tasks taken since `Stop` plus the workers
  that have already passed the test of `running_`.

`BufferProofs`, for every size of the three areas, every data and every argument:
one lemma per operator says what it does to the content (`EnsureKeeps`,
`WriteAppends`, `AppendAppends`, `PrependPrepends`, `RetrieveDrops`,
`ShrinkKeeps`, `ReadAppends`), byte by byte, if the result is inside the vector,
and that it is when less than `IntLimit` is asked for.  The invariant is `TypeOK`
and `KeepsBytes`; `TypeOK` contains `kCheapPrepend <= writer`, without which
`RetrieveAll` could move the writer index past the end, and `MakeSpace` with a
negative `len` could cut the vector short of `kCheapPrepend`.  `ReadFd` never asks
for more than `ExtraSize`, so that it is safe whatever its caller does.  The
theorems are
`TypeCorrect`, `KeepsBytesHolds`, `EnsuresSpaceHolds`, `FindsFirstLineHolds` and
`CheapPrependHolds`.

The same module, for every set of streams `HttpServer` may be sent and every way
to cut them into reads: `HttpTypeCorrect`; `AnswersInOrderHolds`, from
`AnswersInv` (requests handled lie before what was taken out of the buffer, and
an open connection was sent responses with a length only); and
`WholeIsAnsweredHolds`, from `WholeInv`: as long as good requests arrive one per
read, the buffer is empty between reads and the next line begins a request.
`WholeRead` shows that such a read brings exactly one line that ends the headers,
the last one of the request.

`AsyncLoggingProofs`, for buffers, files and periods of every size and any number
of lines: `TypeCorrect`, `BackEndReadyHolds`, `RollsAfterPeriodHolds` and
`LinesInOrderHolds`.
`TypeOK` is not inductive, because `ReturnBuffers` takes one or two buffers off a
vector whose length it does not test.  `Shape` adds that a front end without a
spare buffer has a non-empty queue, so that the swap that gives away both
buffers gets at least two.  `RollsAfterPeriod` rests on `FileInv`: late appends
are at most `count_`, and a file with late appends is in an earlier period than
now (`PeriodMonotone`), so that neither a roll by size nor a check can leave it
open.  `LinesInOrder` says that the files hold the first lines in order and that
the buffers on the way to them hold exactly the later ones, in order.  `LineInv`
adds what the recycling of buffers puts at risk: a slot beyond the fill of a
buffer keeps an old line, which `NewLines` may only skip if it was written
already (`Stale`); buffers before the last are full (`Full`), so that no line is
between two; a spare buffer carries nothing (`Spare`); and what the back end has
written of its batch ends where the rest begins (`AfterWrite`).

`NetProofs`, for every set of channels, descriptors and events:
`TypeCorrect`, `IndexInvHolds` and `Refinement`.  `IndexInv` has three parts: the
places of the registered channels (`PlacesInv`), the array (`ArrayInv`) and the
asserts (`AssertsHold`: none failed, or `RemoveChannel`'s on a channel that asked
for events or was silent).  It is not inductive: the
swap of `RemoveChannel` finds the channel of the last pollfd through the map, so
the invariant adds that the map names registered channels only, under their own
descriptor (`MapInv`), and that channels that exist have different descriptors
(`FdsDiffer`).  One lemma per call derives its asserts from the invariant of the
state before (`AddSucceeds`, `UpdateSucceeds`, `RemoveOutcomes`, `PollSucceeds`).  The refinement shows that each step changes what is watched for
at most the channel it is about; the swap moves pollfds and changes nothing.

The same module, for any number of clients, descriptors and threads and every set
of callers of `Start`: `ServerTypeCorrect` and `OneTeardownHolds`.  `OneTeardown`
is not inductive: that `ConnectDestroyed` runs once, on the connection's loop,
depends on who may still queue it.  `ServerInv` says where the server is in its
life (`Phases`; only the destructor makes the threads of the pool quit), that a functor is in one queue at most once (`Once`) and, of a
connection, in the order of the code (`Ordered`), on the queue it belongs to
(`Routed`), and which of them each stage of a connection allows (`ConnOk`).

`PoolProofs`, for every number of clients and all sizes:
`AccountingHolds`, `ProducerStockedHolds`, `OldestFirstHolds`, `TypeCorrect` and
`UsedUpHolds`.  The bound of `max_size_` rests on the exact relation between the
counter and the truth, `current_size_ = created + Cardinality(live)`: the producer
adds below the limit only, and then at least as many were made as exist.
`UsedUp` says that the pool makes at most `max_size_` connections in its life.
`ProducerStocked` needs the recycler's bound: it leaves at least `min_size_`
connections of those it found.

The same module, for all page and record sizes that meet `PageAssumption`, every
set of areas and sizes, and whatever fresh memory holds: `MemTypeCorrect`,
`ChunksApartHolds` and `AccountedHolds`.  The last two are conditional: `quote_` of
every fresh page held zero (`sane`), which the code does not see to.  `MemInv` has
two halves.  `PoolInv` holds whatever was read: types, and which pages exist when.
`SaneInv` holds under the condition: every chunk lies between the header
and `last_` of its page and overlaps no other; the `LargeNode`s hold each large
area once; and `quote_` counts the chunks of its page, so that a page whose
`quote_` falls to 0 and is used again has none left.  What `next_` and `failed_`
held does not matter to it.  The count does not wrap (`FewChunks`), because chunks that do not overlap begin at
different multiples of the alignment, and there are fewer of those than
`QuoteMod`.

The assumptions are the named `ASSUME`s of the modules, all evaluated by TLC: the
types of the constants; disjointness of workers and producers, finiteness of the
set of threads; that the allocator has a connection for each the pool may make
(`ConnsAssumption`); that streams are sequences of lines (`StreamsAssumption`);
and `PageAssumption`.

Only model-checked: the liveness properties `QueuedFunctorRuns`, `QuitEndsLoop`,
`StartLoopReturns`, `DtorOfRunningLoopReturns`, `ClosedIsFreed`,
`PeerCloseIsSeen`, `DueTimerRuns`, `StopEnds`, `AcceptedIsTaken`, `LineIsWritten`,
`StopReturns`, `PoolServes`, `PendingIsAccepted` and `DtorFreesAll`, because
fairness and `ENABLED` are outside the prover's reach.

## 6. What the code does not promise

Eight formulas say what a comment or a test of the repository says, or a reader
would expect, and the code does not do; no run lists them, and TLC refutes each
when it is added to the run of its module (as an `INVARIANT`, the ones with `~>` as a
`PROPERTY`):

* `EventLoop.QuitWakesLoop`: `Quit()` calls `Wakeup()` only
  when the caller *is* the loop thread (`net/event_loop.cc:113`), so a quit from
  another thread does not wake a loop blocked in `Poll`; the comment at
  `net/event_loop.cc:109` says that this case wakes it.  `QuitEndsLoop` is what
  is left: the loop ends when its 10 s timeout expires.
* `EventLoopThread.DtorReturns`: `Loop()` resets `quit_` on entry
  (`net/event_loop.cc:80`), so the `Quit()` of a destructor that runs after
  `ThreadFunc` published `loop_` and before `Loop()` began is lost and `Join()`
  never returns; `net/test/event_loop_thread_test.cc:29` says "dtor calls
  quit()".  `DtorOfRunningLoopReturns` is what is left.
* `TcpServer.DtorAlwaysFreesAll`: the same erased `Quit()` hangs the destructor of a
  server that goes right after `Start()`.  `DtorFreesAll` is what is left.
* `EventLoopThread.QuitReadsLiveLoop`: `Quit()` reads `thread_id_`
  (`net/event_loop.cc:113`) after its store to `quit_`, and the worker may have seen
  the store, left `Loop()` and destroyed the loop by then.
* `Buffer.AlwaysEnsuresSpace`: `MakeSpace` takes an `int` (`buffer/buffer.h:295`) and
  `EnsureWritableBytes` gives it a `size_t`; from 2^31 bytes on the room asked for is
  not there, and `Append` copies behind the end of the vector, unless `resize`
  throws.
* `MemoryPool.ReturnsAll`: `DestroyPool` reads the `next_` of a page it has freed
  (`memory_pool/memory_pool.cc:50`; the line after the loop says "TODO:有错误",
  there is an error), so that it may follow a wild pointer or leave pages behind,
  whatever fresh pages held.
* `TimerQueue.RunsAtTime`: timers are compared with the wall clock and the
  timerfd runs on the monotonic one; when the wall clock is set back the timerfd
  fires early, nothing is found expired, and `Reset` arms it again only inside
  its loop over expired timers (`timer/timer_queue.cc:147`): a waiting timer may
  never run.  `net/event_loop.h:71` says "Runs callback at 'time'."
* `TcpConnection.NoFault` without its condition `Disciplined`: `ForceClose` tests
  `state_` and sets it in two steps (`tcp_connection/tcp_connection.cc:181`; the
  FIXME above asks for a compare and swap).  When the loop closes the connection
  in between, it is revived, closed a second time and removed twice, which fails
  the assert at `net/epoll_poller.cc:125`.

The same models show, with other values of the constants, further states in
which an assert fails or a destroyed object is used.  Most are
listed among the hazards; the properties exclude them by the constants named
here (of `TcpConnection`, the fields of a member of `Programs`):

* `EarlyQueue = TRUE` in `EventLoop`: a functor queued by the loop thread before
  `Loop()` (an init callback) does not wake the first poll, `NoLostWakeup` fails
  (`net/event_loop.cc:145`).
* `LoopQuits = TRUE` in `EventLoopThread` with `OwnerCallsLiveLoop` or
  `WorkerUsesLiveObject`: when the loop quits from inside, the destructor reads
  `loop_` without the mutex and may call a destroyed loop, and `ThreadFunc` may
  unlock the mutex of a destroyed object (`net/event_loop_thread.cc:19,66`).
  `DanglingUseOnlyInQuit` is the part that holds, as long as only the owner ends
  the loop.  A loop that quits before the owner
  looks at `loop_` again leaves `StartLoop` waiting for ever
  (`net/event_loop_thread.cc:40`).
* `server_dies |-> {"run"}` in `TcpConnection`: a half-closed connection destroyed
  with its server fails the assert of `RemoveChannel`, because
  `ConnectDestroyed` disables the channel only in `kConnected`
  (`tcp_connection.cc:271`); `RemoveConnectionInLoop` may run on a destroyed
  `TcpServer` (`tcp_server.cc:107`).
* `server_dies |-> {"handle"}`: a channel already in the active list is handled
  after its connection is gone, so that `tie_` itself is (`channel.cc:48`).
* `cross_ops |-> {"Send"}`: `SendInLoop` refuses only `kDisconnected`, so a `Send`
  of another thread that passed its test before `Shutdown` is written after the
  write side was shut, and `OutputInv` would fail (`tcp_connection.cc:118`); the
  comment above that line says that nothing may be sent any more.
* `cross_ops |-> Ops`: a `Send` bound to the raw `this` runs
  on a destroyed connection (`tcp_connection.cc:85`).
* `loop_ops` with `StartRead` and `StopRead`, `careful |-> FALSE`: `StartRead`
  between `HandleClose` and `ConnectDestroyed` registers a channel that is about
  to be removed (`tcp_connection.cc:232`).
* The same with a close instead: `DisableAll` on a channel that `StopRead` has
  taken out of the epoll set takes the `EPOLL_CTL_ADD` branch of `UpdateChannel`
  and registers the descriptor with no events (`epoll_poller.cc:73`); the kernel
  still reports a hang-up, and `HandleClose` runs a second time and fails its
  assert.  `tcp_connection.cc:335` says of the call that it deregisters all
  events.
* In `ThreadPool`, tasks that call `RunTask` on a full queue from every worker
  wait for each other for ever (`thread_pool.cc:58`); `WorkersBlocked` names the
  state.
* `AsyncLogging`: lines appended after the back end's last swap are not written
  when `Stop` comes: the loop ends at the test of `running_`
  (`async_logging.cc:56`), and only `LineIsWritten`'s exception of a stopped
  logger makes it hold.
* `FixedBuffer::Length()` (`fixed_buffer.h:28`) is the size and not the fill, so
  `async_logging.cc:78` writes the lines left from a buffer's last use again;
  `written` counts a line once.
* `Buffer`: the comment above `ReadInt64` (`buffer.h:175`) asks for
  `sizeof(int32_t)` readable bytes, the assert of `PeekInt64` for eight.
* `MysqlConnPool`: every connection that is made is counted twice
  (`mysql_conn_pool.cc:18,67,101`) and one that is deleted once, so the pool stops
  growing at about half of `max_size_`, and each recycled connection costs one
  for ever: in the end the pool cannot make another (`UsedUp`).  While the queue
  is empty at the limit the producer does not wait but spins on the mutex.  With
  `min_size_ = 0` the recycler may empty the queue and leave the producer asleep:
  clients then wait until a held connection comes back, and for ever if none is
  held.  The deleter notifies nobody (`mysql_conn_pool.cc:125`).  The detached
  threads may use the static pool after its destructor at exit.
* `HttpServer`: a context lives for one read (`http_server.cc:47`).  A request line
  that has not arrived whole is refused with 400; a request cut later is taken out
  of the buffer and forgotten, and its rest is taken for a request line; the
  second of two requests in one read waits for another read.  `WholeIsAnswered`
  is the case that works.
* `PollPoller`: an `Acceptor` destroyed before `Listen()` calls `DisableAll()` on a
  channel that was never added: it is added with no events and its descriptor not
  negated, and the assert in `RemoveChannel` fails (`poll_poller.cc:94`).  The model
  reaches it (`failed`, a `"silent"` channel), and `AssertsHold` names it as one of
  the two ways an assert can fail.
* `MemoryPool`: `quote_` and `next_` of the first page, and `quote_` of every later
  one, are read before they are written (`memory_pool.cc:45,112,152,157`).  With
  another `quote_` than zero a page may be used again while chunks of it are in
  use, which `ChunksApart` and `Accounted` except; with another `next_` a wild pointer
  is followed; `failed_` of a later page is not written either, which only moves
  `current_` earlier or later.
* `TcpServer`: connections that are half closed when the destructor runs fail the
  assert named above; the destructor's `Quit()` is seen by a blocked loop only
  after its poll timeout (10 s per thread, one after the other).  When accept
  fails with `EMFILE` the listening socket stays readable and the base loop spins
  (`acceptor.cc:79`).

## 7. Not modelled, and why

`Socket`, `InetAddress`, `endian.h`, `Timestamp`, `CurrentThread`, `Logger` and
`LogStream` are wrappers of a system or library call, or formatting, without a
protocol of their own; the effect of the calls that matter (`ShutdownWrite`,
`accept`, `epoll_ctl`) is in the models of their callers.  Of `MysqlConn` only the
idle time is modelled; the rest is one call of the MySQL client library per
operation.  Of `HttpRequest` and `HttpResponse` the setters and the text are left
out.  `CountDownLatch` is a counter with one condition variable that only tests
use.  `LogFile::Flush` decides when the kernel sees bytes and changes nothing the
model keeps.  The examples and tests are programs that use the library and were
read for how it is used.

`mysql/nlohmann_json.hpp` is third-party code, and by far the longest file of the
repository: 21045 of 29069 lines.  The modules map about half of the library's
own lines (two thirds of its `.cc` files); the rest of the repository is that
file, examples, tests and declarations.

## 8. Plan

1. Done: every component of the library with a state and a protocol of its own;
   proofs of all the safety invariants the runs check.
2. Left: `CountDownLatch`; the examples that have logic of their own (the sudoku
   servers' request counting); a server destroyed inside a callback in
   `TcpServer`, with half-closed connections.
3. Abstract specifications still to state: a `Poller` for `EpollPoller` as well,
   shown from `TcpConnection`'s channel; a parser of the whole request for
   `HttpContext`, which the code implements only for requests that arrive whole.
4. Theorems still to prove: what is left are action properties (what a step of
   `TcpConnection` or `TcpServer` may never do) and the refinement of `Poller` by
   the channel of `TcpConnection`.
