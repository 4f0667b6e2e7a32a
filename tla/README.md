# A verification development for AntEngineEx

TLA+ modules, TLC runs and TLAPS proofs about the core of AntEngineEx: a C++
network engine (event loop, asynchronous TCP/UDP/file requests, timers, a
thread pool, several processes sharing one allocator, KCP, TLS, HTTP and Redis
clients). Paths are relative to the repository's root, `src/`.

Every definition that models code is listed, with the lines it stands for, under
"map" in `PROJECT.json`; every run, mutant, hazard, finding and theorem is listed
there too. This file explains them.

## 1. Inventory of the system

| Part | State it keeps | Operations | Talks to | What is hard |
|---|---|---|---|---|
| **Event loop** `Source/Linux/Loop.cpp`, `Include/Loop.h`, `Include/Handle.h` | lists of active and closing handles, ring of ready requests, timer heap, two reference counts, stop flag | `start`, `run` (timers, epoll, requests, closes), `openHandle`, `closeHandle`, `stop` | calls the application's callbacks, which call back into it | callbacks that close, reopen or post to the handle that is running; edge-triggered events; when a handle may be deleted |
| **TCP handles** `Source/Linux/HandleTCP.cpp` | flags, read and write queues, time-out | `open`, `connect`, `accept`, `read`, `write` | the loop, the kernel | order of pipelined requests, partial writes, lost edges |
| **Cross-thread tasks** `Loop::postTask`, `onRead`, `onTask` | task ring under a spin lock, `mSendCMD` flag, a socket pair | post from any thread, run on the loop's thread | every thread and the loop | lost wake-ups, tasks after stop |
| **UDP handles** `Source/Linux/HandleUDP.cpp` | as TCP, plus a remote address | `open`, `read`, `write` | the loop | datagrams posted while one is blocked |
| **Files** `Source/Linux/HandleFile.cpp`, `IOURing.cpp` | io_uring rings, wait counter | `open`, `read`, `write`, `close`, completion | the loop's tick | submission limit, completion after close |
| **Thread pool** `Include/ThreadPool.h` | task queue, counts of threads (all, idle), stop flag, mutex and condition variable | `postTask`, `start`, `stop`, worker loop | any thread | lost wake-up, join, thread limits |
| **Locks** `Include/Spinlock.h`, `Source/Linux/Futex.cpp` | one word shared by threads or processes | lock, try, unlock, wait, wake | the kernel's futex | missed wakes, owner that dies |
| **Slab allocator** `Source/MemSlabPool.cpp` | runs of free pages, lists of pages by size of chunk, marks and bitmaps, all in shared memory | `allocMem`, `freeMem` | every process | split and merge of page runs, a process that dies inside the lock |
| **Memory hub and pool** `MemoryHub.cpp`, `MemoryPool.cpp` | free lists of one thread | allocate, free | containers | - |
| **Hash table** `Source/HashDict.cpp` | two tables of chains, index of the rehashing, count of iterators | `add`, `remove`, `find`, `resize`, `clear`, `scanAll`, iterators | scripts, tests | a table that moves between two calls of a scan or an iterator |
| **Engine** `Source/Engine.cpp`, `Source/Linux/System.cpp` | processes, command pipe, loop | start, fork workers, restart, post commands, exit | children by socket pair | child exit races with stop; restart |
| **Block ring** `Source/RingBlocks.cpp` | two indexes that wrap, blocks with a head each | `write`, `read` | two threads, without a lock | full and empty, where a block begins |
| **Buffers** `RingBuffer`, `Packet`, `Queue.h` | chains of nodes with a head and a tail position | write, read, resize | TLS, KCP users, the loop | - |
| **Timers** `BinaryHeap.h`, `TimerWheel.cpp` | heap with back pointers; five wheels of lists | insert, remove, cascade, expire | the loop, KCP users | cascade boundaries, removal during expiry |
| **KCP** `Source/Net/KCProtocal.cpp` | send and receive queues, windows, RTO, congestion state | send, receive, import, update, flush | peer by lossy datagrams | loss, duplication, reordering, wrap, window 0 |
| **TLS handles** `Source/Net/HandleTLS.cpp`, `TlsSession.cpp` | four queues of requests, one read and one write of its own, two buffers, a session | `open`, `read`, `write`, `handshake`, the callbacks of its TCP handle | TCP handles, OpenSSL | callbacks that post from inside callbacks; who posts the next transfer |
| **Proxies** `Acceptor.cpp`, `TcpProxy.cpp` | a listening handle; pairs of linked handles | accept, link, forward, unlink | TCP and TLS handles | one side closes while the other writes |
| **Redis clients** `Source/Net/RedisClient/` | pools of connections, request queues, cluster slots | request, response, retry, redirect | TCP handles | requests at a connection that fails; redirect and retry |
| **HTTP** `Source/Net/HTTP/` | parser state, message, page cache | parse, route, send, file | TCP and TLS handles | the parser state machine |
| **Data bases, scripts** `Source/db/`, `Source/Script/` | connection pool; Lua states | tasks on the thread pool | libraries outside the tree | little of its own |
| **Containers, codecs, strings, logger, system** | data structures, tables | pure | everything | boundary arithmetic |
| **Windows port, samples, vendored code** | - | - | - | not the product's core on Linux |

What makes each part correct:

- *Loop*: counts of references and of requests in flight are exact; a handle is
  closed once, after its last request; no request is stranded; `stop()` ends.
- *TCP*: the stream is what was written, in order; no byte is lost, no request
  waits for an edge that has passed; the end of the stream is seen.
- *Tasks*: each accepted task runs once and in order; one wake-up is on its way
  whenever the queue is not empty.
- *Thread pool*: each accepted task runs, no worker sleeps beside work, `stop()`
  returns with nothing left, nodes do not leak.
- *Engine*: a child that dies is replaced unless its exit code says otherwise; a
  SIGTERM reaches every child.
- *Files*: every request is answered once, before its file's close callback,
  although both rings of the kernel can be full.
- *Slab allocator*: blocks are disjoint, freed pages merge, each page is in its list.
  *Block ring*: what one thread writes the other reads. *Hash table*: a scan and an
  iterator return what was there all the time.
- *UDP*: whole datagrams, answered in order. *Locks*: one holder, no lost wake.
  *Buffers*: a FIFO of bytes. *Timers*: each fires once, not early, a removed one never.
- *KCP*: the receiver gets what was sent, once, in order, and in the end.
  *TLS*: the same between two handles, and a closed one leaves no request behind.
  *Proxies*: both halves close, and the pair is freed after both.
  *Redis*: each command is answered once, whatever its connection does.

## 2. Plan

In the order in which the modules are written, and the question each answers.

| | Module | Question | State |
|---|---|---|---|
| 1 | `Loop`, `MCLoop`, `LoopProof` | reference counts, close, stop, with callbacks that do anything they may | checked and proved |
| 1a | `HandleLists` | what becomes of the loop's lists, link by link, when a handle is opened while it is linked | a counterexample (finding 3) |
| 2 | `TcpStream`, `TcpStreamProof` | what `Loop` leaves open: order in the queues, partial writes, edges | checked and proved |
| 3 | `LoopTask`, `LoopTaskProof` | tasks from other threads, nodes by their pointers; refines `Fifo` | checked and proved |
| 4 | `ThreadPool`, `TlsPoolProof` | workers, urgent tasks, idle nodes, stop and restart | checked and proved |
| 5 | `Processes`, `MCApps`, `PartsProof` | forks, deaths, signals between any two steps | checked and proved |
| 6 | `Uring`, `UringProof` | file requests over two bounded rings, an overflow and a sleeping kernel thread | checked and proved |
| 7 | `Kcp`, `MCKcp`, `KcpDictProof` | two ends over a network that loses, doubles and reorders; refines `Fifo` | checked and proved |
| 8 | `Redis`, `MCRedis`, `MCApps`, `PartsProof` | commands over connections that fail, redirection, pools that give up | checked and proved |
| 9 | `Tls`, `MCTls`, `TlsPoolProof` | a handshake and four queues over two TCP handles; refines `Fifo` | checked and proved |
| 10 | `RingBlocks`, `MemSlab`, `HashDict`, `Proxy`, `MCParts`, `PartsProof`, `MemSlabProof`, `KcpDictProof` | the block ring (refines `Fifo`), page runs and chunks, rehashing under a scan, two handles that close each other | checked and proved |
| 11 | `RingBuffer`, `TimerHeap`, `TimerWheel` | a chain of nodes as a FIFO of bytes; order of expiry, cascades | planned |
| 12 | UDP in `Loop`; a table of descriptors in `Uring`; the build without io_uring as a composition of `LoopTask` and `ThreadPool` | stale descriptors, answers after stop | planned |

Every safety property of the passing runs has its theorem; those of rows 11 and 12 come
with their modules.

The abstract specification is `Fifo`, a queue with its two histories; the modules
that implement it name their mapping at the property.

| Property | `put` | `got` |
|---|---|---|
| `LoopTask.TasksInOrder` | tasks linked by `postTask()` | tasks run |
| `RingBlocks.StreamKept` | units the writing thread has stored | cells the reading thread has copied |
| `Kcp.DeliversInOrder`, each direction | messages `sendKCP()` took | lists of fragments `receiveKCP()` returned |
| `Tls.TlsInOrder`, each direction | writes the session took | data handed to a read's callback |

## 3. The modules and the code

### Loop - the event loop and its handles

One thread runs `Loop::run()`; an action is the code between two points at which
control passes between the loop and an application callback. The phase of a tick
is `pc` (`time`, `poll`, `pending`, `closed`), the running callback is `cb`. In a
callback the application may do anything its interface permits, to any handle:
open, connect, read, write, accept, close, stop.

| In the module | In the code |
|---|---|
| `mFlag`, `mGrab`, `mFly` | `Handle::mFlag`, `mGrabCount`, `mFlyRequest` |
| `node` | which intrusive list holds the handle: `mHandleActive`, `mHandleClose`, or the local list of `updateClosed()` |
| `where` | the ring queue a request is linked in; `"lost"` is none at all while it is counted |
| `timeHub` | the members of `mTimeHub` |
| `loopGrab`, `loopFly`, `mStop` | `Loop::mGrabCount`, `mFlyRequest`, `mStop` |
| `due` | history: what epoll has reported of an open socket and no call has found drained since; being edge-triggered it will not say that again |
| `torn` | history: a handle was linked in `mHandleActive` while it was linked already |
| `polled` | what of this tick's timers and events was handled, so that a tick is finite |
| `Open*`, `Read`, `Write`, `Accept`, `Close` | `HandleTCP::open`, `connect`, `read`, `write`, `accept`, `Handle::launchClose` with `Loop::closeHandle` |
| `TimerFire`, `Event`, the actions on `"pending"`, on `"closed"` | `updateTimer()`, the epoll branch of `run()`, `updatePending()`, `updateClosed()` |

`Loop::openHandle()` asks nothing of the handle it is given (`MayOpen`). An application
opens a handle that is in no list, never opened or with its close callback begun. One
caller in the tree does otherwise: when a connect fails later, `updatePending()` closes the
handle (`Loop.cpp:194`), which stays in `mHandleActive` as long as the request is in
flight, and in that request's callback `RedisClient::onConnect()` has its pool open the same
handle again (`ConnectFailed`). The node is then linked a second time and counted a second
time. `node` cannot say what such a ring is, so `torn` becomes true and the behaviour of this
module ends: its invariants hold up to that state and in it, `LoopCountsHandles` with the
one count too many, and `StopTerminates` names it as an exception, for it is false of what
comes after. `HandleLists` goes on from there.

Left open, so that any answer is covered: results of system calls, which timers
are due, the order inside a queue. Not in the module: UDP, file handles (`Uring`),
task messages (`LoopTask`).

### HandleLists - the links of the loop's lists

`links` is `mNext` and `mPrevious` of every node of `mHandleActive`, `mHandleClose` and
the local list of `updateClosed()`; `Delink`, `PushBack`, `PushFront`, `SplitAndJoin` are those
of `Node2`, assignment by assignment. The handles only connect; `Open`, `Close`, `ConnectError`,
`StopWalk`, `CloseCall` are `Loop`'s actions on the counts and on the links. A walk that
arrives at the head of another list is not followed any further (`pc = "undefined"`). The
open that fails, other requests, timers and epoll are left to `Loop`.

### TcpStream - one connection

The queues are sequences, calls move a number of units, and the kernel
(external) has a receive queue, a send buffer, `SOCK_NOSPACE` and a place on
epoll's ready list. `mReadQueue`, `mWriteQueue`, `mRequest` are the code's; `batch` is
what `updatePending()` detached from `mRequest`, `cur` its variable `nd`, `more`
whether its inner loop goes on with the next request after a callback.

### LoopTask - tasks from other threads

Nodes are kept as the code keeps them: `mNext`, `mTaskHead`, and the address
`mTaskTailPos` (here the node it lies in). A critical section of a spin lock is
one action: a post is *take a node* (`mTaskIdleLock`), *pack*, *link*
(`mTaskLock`), *wake*. The command socket is the sequence `pipe`; a receive may
end inside a message (`cut`). `linked` and `ran` are history variables.

### ThreadPool - workers

A critical section of `mMutex` is one action and `mCondition.wait()` ends one.
`notify_one()` picks any waiter, spurious wake-ups included. `ctl` is the thread in
`start()` or `stop()`; `posted`, `taken`, `ran`, `maxSeen` are histories.

### Processes - main process and children

`createProcess()` is cut where a signal handler may run: the slot is marked
(`OpenPair`), the child exists (`Fork`), its id is stored (`StoreID`), the log line
(`SelfDeadlock`: a handler that logs on top of it waits for the logger's mutex).
A handler is one action, for it runs to its end on top of the only thread. The
k-th socket pair, the process forked for it, and its id are all called k. When `fork()`
fails the slot keeps the number of the pair that was closed, as in the code (`ForkFails`).

### Uring - files

The loop's thread and the kernel's polling thread (external) share two rings.
`sqe`, `head`, `tail` are the submission ring with counters that wrap; `tailMem` is
the tail as the kernel sees it, which lags behind the tail as stored, because the
code stores it with `memory_order_release` and then loads the flags with
`memory_order_acquire`, which nothing keeps in this order. `cq` and `backlog` are
the completion ring and what the kernel keeps when that is full. Assumed of the
application: a request outlives its callback and is posted again from there, if
at all, to the same file (see section 7).

### Kcp - two ends of a conversation

`kcp[e]` is the object of end `e`; an operator that takes such a state and returns one
is the method of that name, so that `ImportRaw`, a call of several, is one step. The
lists are sequences, sequence numbers are taken modulo `SNMod`, sizes are in units of
a header. `net` is what is under way: `Import` takes any datagram, or doubles it;
of the datagrams `flush()` sends any set gets under way, the others are lost (`Chosen`).
Time is left out: `Update` chooses which timers have run out.

### Redis - pools and their cluster

Callbacks call one another on one thread, so an operator takes the *world* (the four
variables as a record) and returns the one its method leaves. A connection is
`connecting`, `open`, `closing`, `shut`, as `Loop` promises, and that is what its properties
rest on. Loop breaks the promise where a pool opens a connection again in the callback of its
failed connect (`ConnectFailed`): `cluster.torn` is then true and the behaviour ends.
`NothingLost` and `AliveExact` hold up to that state and in it; `Answered` excepts it.
Nothing that the pools do is missed by ending there, for to them the connection is then in
the very state it was in before, `connecting`; what the loop does is finding 3. The application's callback
inside a connection's close is a parameter (`then`): it may launch a command again or
close the cluster. Loops over all connections of a pool, all pools or all waiting commands
(`OpenPool`, `ClosePools`, `Destroy`) change all of them at once: their rounds do not
touch one another. One slot stands for the 16384. A pool that is deleted while
something still uses it is not described any further.

### Tls - two handles

One record for each handle: the TCP handle below (`tcp`), the handle's own transfers
(`read`, `write`: `"dead"` is one that failed and leaves `mUser` set), the buffers (`in`,
`out`), the queues (`flyReads`, `flyWrites`, `landReads`, `landWrites`) and the place in a
callback chain (`pc`, `then`, `cont`). Every callback of the application is a step, and
between two of them it may read, write and close. The session is a handshake of four
flights, then a record per write.

### RingBlocks, MemSlab, HashDict, Proxy

- *RingBlocks*: `mCache` is an array of cells, a head as large as one of them; copying
  is one cell at a time, so a reader that came too early would see it.
- *MemSlab*: `slab` is the memory of the pool: links, marks, counts, bitmaps as sets.
  `AllocPages` and `FreePages` follow `allocPages` and `freePages` link by link; what the
  code keeps in spare bits of `mPrev` is `type`, what it keeps in `mSlab` is `mark`,
  `count` or `used`. `live` is the history of blocks handed out.
- *HashDict*: tables are functions from buckets to chains; `ReverseBits`, `NextCursor`
  and `NextPower` are the code's arithmetic at `Bits` bits. `scan` and `iter` hold a scan
  and a safe iterator with what they must return and have.
- *Proxy*: an acceptor with its requests, and for each connection the object and its two
  halves; a half is `connecting`, `open`, `closing`, `closed`, as `Loop` promises.

`MCParts` runs these four side by side: they share nothing, so a variable says which of
them a behaviour is about and the others stay as they began. `MCApps` does the same with
*Redis* and *Processes*.

## 4. The runs

| Run | Instance | Distinct states | What it shows |
|---|---|---|---|
| `loop_run` | a client, an acceptor, the command handle; two free requests; connect(2) may fail at once | 940,585 | The close callback comes last (`CloseIsLast`); no request is stranded after its edge has gone by (`NoStrandedRequest`); an edge is remembered or on its way, and never remembered beside a request that waits for it (`NoMissedEdge`); `run()` returns false only when all is handed back (`QuitClean`); a stopped loop winds down, unless a connect failed at once or a handle was opened while it was linked (`StopTerminates`) |
| `loop_connect_fail` | a client and the command handle | violation | finding 1 |
| `loop_reopen` | a client and the command handle, by their links | violation | finding 3 |
| `stream_run` | three writes of two units, all pipelined, a send buffer of three; two reads, three units in, then the peer's end | 113,120 | No unit lost or doubled and no request linked twice (`RequestsWhole`); every write ends and no read sleeps beside data (`NoEdgeMissed`) |
| `task_run` | three threads (one the loop's), three jobs, three nodes, at most one idle, one other command | 392,076 | `TasksInOrder`: the tasks are a queue, by the pointers; `WakeUpComing`, `OneWakeUp`, `TasksRun` |
| `pool_run` | three workers, two tasks and an urgent one, limits 1 and 2, two starts | 347,306 | `NoneSleeps`, `StopDrains`, `BeginInOrder`, `AcceptedRun`, `StopEnds` |
| `uring_run` | one file, three requests, rings of two slots (one usable), a queue of two | 185,688 | `AnsweredBeforeClose`, `SlotsKept`, `PostedAnswered` |
| `kcp_run` | three messages, the first in two fragments, windows of two and three, numbers of four bits that start at 14, one datagram under way to the receiver and two back | 130,426 | `DeliversInOrder`, `ReleasedOnlyWhenHeld`, `WindowsKept`, and all arrives and is acknowledged (`AllArrives`) |
| `apps_run` | two pools, three connections with a password, one command beside CLUSTER SLOTS, one redirection, one failure of `openHandle()`, the cluster closed; apart from them two slots, four processes, deaths of either kind, one SIGTERM | 431,463 | `NothingLost` with exact references, `AliveExact`, `Answered`; `NoRespawnForgotten`, `ChildKnown`, `RespawnComes`, `TermEnds` |
| `tls_run` | two writes one way, one the other, two reads a side, nodes of two records, a refused flight, a goodbye | 1,136,431 | `TlsInOrder`, `AllHandedBack`, `TlsTalksOn` |
| `parts_run` | a ring of four blocks and nine units; five pages, two sizes of chunks; four keys in tables of two to eight buckets; two connections | 601,272 | `StreamKept`; `BlocksDisjoint`, `ListsExact`; `ScanComplete`, `IterateOnce`; `FreedLast`, `PairEnds` |
| `ring_full` | as above, with a write of a whole block | violation | finding 2 |

Each property has a mutant in `PROJECT.json`: a small change of one modelled definition
that it must notice. `TypeOK` of the older modules, and the other invariants of section
5, are proved and were model-checked in these configurations before they were proved;
they are not among the runs' properties, nor are `Loop.HeapIsAlive`,
`LoopTask.NothingLost`, `LoopTask.OneOwner`, `ThreadPool.IdleBounded` and
`Processes.FatalIsFinal`, which hold in them too.

**Bounds, and why they are enough.** The bounds are the sizes of the constant sets;
in addition `Commands`, `Starts`, `Pairs`, `Terms`, `Writes`, `Incoming`, `NetCap`, `MaxAcks`,
`OpenFailures`, `FlyDebt`, `Items`, `MaxReads`, `Total` and `Parts` are guards on things the
environment could otherwise repeat for ever.

- *Loop*: every interaction of the code is between a handle, its requests and the
  loop; two ordinary handles show one handle's callback acting on another, two
  requests show one waiting while the other is in its callback, and handles and
  requests are reopened and reused without bound. The proofs remove the bound.
- *TcpStream*: a write larger than the room left (2 after 2 in 3) is partial; three
  writes are needed for one in `cur`, one pending and one queued.
- *LoopTask*: two posting threads beside the loop's own; with `IdleMax` 1 nodes are
  both kept and deleted, and three nodes give an A-B-A of the lists.
- *ThreadPool*: with three workers one can wait, one be woken and one work; limits 1
  and 2 let the idle list shrink; the second start finds the first one's leftovers.
- *HandleLists*: two nodes are enough for a ring that is cut; with the reopening taken out
  (`MayOpen` of handles that are closed only) the property holds for four handles.
- *Processes*: two slots show a scan that passed a slot and has one to come; four processes
  let both be replaced, one twice (with five, 128,503 states, the same holds).
- *Kcp*: the second message is sent while the first is in flight and the window shut;
  numbers wrap after two segments; a stale datagram lies in the network while newer ones
  pass. `SNMod` is at least twice the windows, as 2^32 is in the code.
- *Redis*: two connections in one pool (one free, one in use) and a second pool to be
  redirected to. `FlyDebt` cuts `mFlyCount`, which no property of the run reads.
- *Tls*: two records of one side and a node that holds two, so that a write leaves the
  second behind or takes both.
- *RingBlocks*: both indexes wrap, and a block is read in parts. *MemSlab*: with five
  pages a run has free neighbours on both sides and more beyond. *HashDict*: four keys
  make the table grow twice, two of them share a bucket at every size, and removals
  shrink it again. *Proxy*: the pairs are independent but for the hub.
- *Uring*: the smallest rings, so both are full and wrap all the time. With two files
  the same properties hold too (3.0 million states); that run is not kept, for it
  takes five minutes.

`CHECK_DEADLOCK FALSE` stands where the system may really stop: all tasks run and
nobody posts (`task_run`, `pool_run`), the main process waits for itself
or a loop's lists are torn (`apps_run`), a wake-up was lost (`uring_run`), all connections are
closed (`apps_run`, `tls_run`, `parts_run`), all messages are through (`kcp_run`).

**Fairness.** In the modules of threads all of it is weak. A thread that can take a step of its own takes one
(`LoopStep`, `PostStep`, `WorkerStep`, `CtlStep`, `MainStep`): the scheduler runs every
thread and callbacks and tasks return; spin locks are held for a few instructions.
Signals that are pending are delivered; a child told to exit exits; the peer reads
(`stream_run`); the kernel consumes what it sees, ends file operations, and a
processor's store becomes visible. Nothing is assumed of what may never come:
network events, time-outs, closes, signals, posts, a wake-up without a reason.

A network that may lose everything promises nothing, so three modules say more:

- *Kcp*: a datagram that is not lost for ever arrives (`Delivery`), and an end that goes
  on having something to say has all of it under way at some time, again and again
  (`Heard`): `update()` is called, timers run out, and not every copy is lost. Both are
  strong fairness of sending and of arrival, said of the state.
- *Redis*: connections that are tried again and again come up in the end, the loop
  calls back what it closes (it does as long as its lists are whole: behaviours in which
  they are torn end there, and `Answered` says nothing of them), and no connection works on one command for ever (an answer
  comes, or the timer of `onTimeout()` runs out).
- *Tls*, *Proxy*: the loop calls back what has ended. A socket that the handle has closed
  by itself gets no event: nothing is assumed of it.

## 5. The proofs

| Module | Obligations | Proved for every value of the constants |
|---|---|---|
| `LoopProof` | 2753 | `TypeOK`, `FlyCounted`, `LoopCountsHandles`, `CloseIsLast`, `NoStrandedRequest`, `NoMissedEdge`, `QuitClean`, `ClosingDrains` |
| `TcpStreamProof` | 1298 | `TypeOK`, `RequestsWhole` |
| `LoopTaskProof` | 1031 | `WakeUpComing`, `OneWakeUp`, `TasksInOrder` (a refinement) |
| `UringProof` | 1511 | `TypeOK`, `AnsweredBeforeClose`, `SlotsKept` |
| `TlsPoolProof` | 4809 | of Tls `TlsTypeOK`, `AllHandedBack`, `TlsInOrder` (a refinement); of the thread pool `TypeOK`, `NodesCounted`, `NoneSleeps`, `StopDrains`, `BeginInOrder` |
| `KcpDictProof` | 9903 | of Kcp `WindowsKept`, `ReleasedOnlyWhenHeld`, `DeliversInOrder` (a refinement, both directions); of the hash table `ScanComplete`, `IterateOnce` |
| `PartsProof` | 6438 | `StreamKept` of the ring (a refinement); `FreedLast` of the proxy; of the main process `TypeOK`, `NoRespawnForgotten`, `ChildKnown`, `FatalIsFinal`; of the redis pools `NothingLost`, `AliveExact` |
| `MemSlabProof` | 7347 | `BlocksDisjoint`, `ListsExact` |

The assumptions are the `ASSUME`s of the modules: finite sets where something is
counted, constants of the right types, in `Loop` that the command handle is a
link with a timer, and in `MemSlab` that the heads of the lists and `Null` are no
pages and `Null` no chunk, as they are different things in the code; so is the `Null` of
`Redis` no command, pool or connection. `HashDict` assumes that
the smallest table's size is a power of 2 above 1 (`G_DICT_MIN_SIZE`) and that a cursor is wide
enough for a table of twice the number of keys, which 64 bits are for any that fit in
memory; `NextPower` then always finds a size. TLC evaluates each of them in the runs. The
theorems of the ring and of `Kcp` have a hypothesis beside them (`ShortWrites` and
`ShortTalk`, below). Every inductive invariant was an
invariant of a TLC run before it was proved.

- **Loop.** `TypeOK` is not inductive: that `mFly - 1` is a natural number needs
  `FlyCounted`. `FlyCounted` needs to know that a request in a callback is counted
  once and that the command handle's only request is free while its callback runs
  (`CmdOwned`). `CloseIsLast` needs `HandleOK`: what the list a handle is in says
  of its flags and counts (only a handle that is alive has its own reference, and
  only a closing one with no request leaves the active list). `QuitClean` then
  follows from `LoopCountsHandles`, since no handle is linked when the count is 0.
  That a remembered edge never stands beside a waiting request is inductive with two facts
  on a client that connects (`EdgeInv`): its connect request is the only one it has,
  and it never stands in the queue that goes on, so the step that remembers an edge
  has no second request to strand. The other half, that an edge once reported is
  remembered or on its way, and that a request which waits for it is then behind one that the
  loop will come to, is `DueInv`: what is in `due` belongs to an open handle (`DueHeld`), an
  open handle that does not connect is ready in both directions (`ReadyKept`), and a client
  that connects waits for the first edge (`ConnectWaits`).
- **TcpStream.** `RequestsWhole` says that no unit of a write is lost or doubled and that
  the queues, the detached batch and `cur` hold each request once. Inductive with
  `Apart` (no queue holds a request twice and no two share one) and `LookInv` (`cur` waits
  nowhere while the loop looks at it, and what waits has been issued).
- **LoopTask.** That a wake-up is coming and that there is only one are each inductive
  only with the other and with `NoneWhenEmpty`: an empty queue has none on its way.
  That is why the first of several posts may send it alone. For `TasksInOrder` the
  invariant `OrderInv` says that the nodes linked and not yet run lie on the path
  along `mNext` from `mTaskHead` to `mTaskTailPos`, one place each; a node taken from the
  idle list is on no such path, so the A-B-A of the lists cannot cut one. Then every
  step is a step of `Fifo` or leaves both histories alone.
- **ThreadPool.** `NoneSleeps` says that the tasks in the queue never outnumber the
  workers on their way to it while another sleeps; a post adds one task and wakes
  one sleeper, a worker takes a task before it leaves. `StopDrains` rests on `ExitOK`
  (a worker ends only with the queue empty) and `Served` (an accepted task is in the
  queue, in a hand, or has been run). `BeginInOrder` needs that a job is posted once
  and that what has begun of a kind is a beginning of what was posted of it.
- **Processes.** The main process takes one off `mProcResponCount` before a scan, and a
  handler may add to it at any step; a slot to be respawned is covered by the count
  or by a scan that has yet to reach it. Inductive only with `DeadIfRespawn` (or the
  scan would pass over the slot) and `LoopAfterStart`. `ChildKnown` needs `KnownInv`:
  a pair is made for one slot and used once, an id is the pair of its slot, and the
  one process that a slot does not know is the one between `fork()` and the
  assignment; an id lags behind the socket of its slot there, but then the process it
  names has been waited for (`IdOfSocket`).
- **Uring.** `AnsweredBeforeClose` needs both counts to be exact (`FlyInv`: a request in its
  callback counts once more, for it may be under way again), and that what waits, or
  is completed and not handled yet, waits there once (`WaitInv`, `DoneInv`). `SlotsKept`
  needs `RingInv`: the slots from `head` to `tail`, modulo their number, are those that
  hold a request, and the tail that the kernel sees lies between the two.
- **Tls.** `TlsInv` says for each stage of a handle (opening, open, closing, closed) which
  transfers may be under way and which queues may hold a request; `AllHandedBack` is its
  last stage. `FlowInv` follows the records: each one in the writer's buffer, in the TCP
  stream or in the reader's buffer is the one of its place in the order of writes, and
  none is missing while the reader's socket is open. A read is then handed the next
  ones, which is the step of `Fifo`.
- **RingBlocks.** `RingInv` says that from the reader's block to the writer's the heads form
  a chain, that the cells a head counts were written and hold the units of their place,
  and where each thread is in its copy. The hypothesis is `ShortWrites`: no write fills a
  block, for which the code is wrong (section 6, 2); without it the property fails.
- **MemSlab.** `PoolInv` says where every page belongs. The pool falls into runs that
  cover it (`Regions`): free ones, blocks of whole pages, single pages of chunks, and only
  the first page of a run says how long it is. Each list is a chain of exactly its
  members, linked both ways (`AllLists`): what `Walk` finds in it is then known without
  the walk. No two free runs touch (`Merged`), the last page of a free run that has a
  page after it tells where it begins (`Tagged`), which is all that `freePages()` has to
  find the run before it, and the blocks handed out are those that the pages tell of
  (`LiveIs`). `Struct(m, L)` leaves out of the lists a set `L` of runs: on its way
  `freePages()` has one that is free and in no list yet, and each join takes another
  out. `NoneEmpty` (a page whose chunks are all free does not stay) is broken in the
  same way inside `freeMem()`. The counters come last, as cardinalities of what they
  count.
- **Kcp.** The state holds numbers that wrap; the invariant speaks of counts. `KcpInv` says
  of each direction that the numbers in a buffer are those of segments that were numbered,
  in order (`QueueInv`, `BufferInv`); that what the sender freed the receiver has (`FreedInv`)
  and what the receiver has the sender numbered, within the window (`EarlyInv`); that
  nothing is left that could be read (`NoneReady`, `ReadInv`); and of each datagram under way
  that what it says is true, or was (`NetInv`). The last is what carries late and doubled
  datagrams: all it claims is a lower bound of what an end knows, and an end only
  learns (`Grown`), so it stays true without a word on how old the datagram is.
  `ShortTalk` bounds the talk by half of the numbers' range (2^31 segments in one direction):
  nothing in the code limits how late a datagram may come, and after that many segments
  an old one would be taken for a new one. `Pack`, `Chosen` and `ImportRaw` go along a sequence as
  recursive functions, not as folds, so that one lemma (`Iterates`) can do the induction; the
  loops of `HashDict` rest on the same one.
  The attempt corrected the property. As first stated, `ReleasedOnlyWhenHeld` had `sendUNA` never
  pass the receiver's `recvNext`. That is false: a doubled header tells of a window that has shut since,
  a segment is sent into the full receive queue, waits in `mReceiveBuffer` and is acknowledged from
  there, and `sendUNA` passes `recvNext`. It is harmless, and TLC reaches it with three
  messages of one fragment and all windows 2; the run's bounds never let the queue be full at that
  moment. The property now says what matters: what the receiver has not got past is kept
  by the sender or waits in the receiver's buffer.
- **HashDict.** `DictInv` has three parts. `KeysOK`: a key is in one chain of one table, once, and
  that is the chain of its hash; the buckets below `mRehashIndex` are empty (`Tidy`). The last
  is what lets `rehashBatch()` free the first table, and what `find()` and `add()` rest on.
  `IterOK`: what an iterator must return it has returned or has `Ahead`, in the rest of its
  chain or in a bucket to come, and no key is both. With an iterator open no entry moves
  (`rehashStep()` does nothing): a step then adds or removes one key, or makes a second table that is
  empty, and `Ahead` loses no key but the one returned or removed. A key added behind the
  iterator is simply not returned. `ScanOK`: what a cursor has passed has been returned,
  where the order is that of reversed bits: `Place(v)` is v read from its other end. In this
  order a table of 2^m buckets parts the cursors in 2^m equal spans, one for each bucket
  (`Begin`, `Span`), whatever the size. `NextCursor` goes from one span to the beginning of the
  next, or to 0 at the end. Hence the loop of `ScanBoth` goes through exactly those chains of the larger
  table that lie in one span of the smaller; a key before the cursor stays before it
  when it moves to another table, since its place is that of its hash, not of its bucket.
- **Proxy.** `PairOK`: a half that is closed or was never opened has nothing in flight, and a
  pair that is gone had both. `HubCounted`: the hub is held once by each pair that is
  bound and once by an acceptor that is not closed.

- **Redis.** `RedisInv` says two things of the world. `Good`: what the queues of a pool say of
  a connection is what its own state says (`Rule`), and each stands once in the queue of
  those that are alive. `Even`: what was asked for, less what was answered, is what
  connections hold and queues have (`Debt` is 0), and the references are the same number
  (`Slack` is 0) unless a pool has given up. Inside a chain of callbacks both are
  broken all the time: a connection is in the pool's hands and in no queue, one that
  ends is shut and not yet put aside, a command has been taken from a queue and not yet
  given to anybody. So the lemmas speak of any world, not of the state: `Good(w, h, x)` has
  one connection in hand (`h`) or about to end (`x`), and `Shift` tells by how much an operator
  moves the debt and the slack of one command. `CallbackMoves` then follows the whole chain of an
  answer: taken from its connection (+1, +1), posted again (-1, 0) or answered (-1, 0), dropped
  (0, -1). A connection that works is not touched by what others do (`Keeps`), which is
  why the one whose answer launches a command is still there to be given back after it.

`BeginInOrder` and `WholeWrites` are stated with positions where a filter of a sequence
would be the shorter text: the provers know nothing of `SelectSeq`.

Only model-checked: all liveness properties (`StopTerminates`, `NoEdgeMissed`,
`TasksRun`, `AcceptedRun`, `StopEnds`, `RespawnComes`, `TermEnds`, `PostedAnswered`,
`AllArrives`, `Answered`, `TlsTalksOn`, `PairEnds`): reasoning about fairness needs
`ENABLED`, which is out of the prover's reach.

## 6. What disagrees with the code's own words

Three runs end in a counterexample; the quotations are under "findings".

1. `loop_connect_fail`, `NoRequestForgotten`: a connect(2) that fails at once leaves its
   request counted but in no queue (`Source/Linux/HandleTCP.cpp:142`); its callback never
   comes and the loop cannot end. `updatePending()` has a branch for such a request.
2. `ring_full`, `StreamKept`: `RingBlocks::open()` takes the head off `mBlockSize`
   (`Source/RingBlocks.cpp:31`), which is also the distance between two blocks. A write
   that fills a block overwrites the head of the next.
3. `loop_reopen`, `EndsUncounted`: a Redis connection whose connect fails later is opened again
   in the callback that says so (`RedisClient.cpp:293`, `RedisClientPool.cpp:92`), while the
   loop has its handle in `mHandleActive` still; `Loop::openHandle()` links and counts it a
   second time (`Loop.cpp:789`, `:791`). From the head the links then lead to that handle, to
   those that stood before it, and to it again: not back to the head, and not to those that stood
   behind it. In TLC's counterexample it was the first and is its own successor, and the
   walk of `stop()` (`Loop.cpp:508`) never ends. Also where the walk ends, one reference of the
   loop is never given back: `run()` never returns false, and what `~Loop()` asserts
   (`Loop.cpp:53`) does not come true.

Five more configurations give behaviour that a reader may want to see; TLC ends each
with a counterexample (`tlc -config <file>.cfg <module>`):

| Configuration | Module, property | What happens |
|---|---|---|
| `TcpStream_order.cfg` | `TcpStream`, `StreamOrder` | with several writes in flight a later one may be sent first (`Source/Linux/Loop.cpp:326`), because the inner loop pops the handle's queue while an earlier write is pending in `mRequest` |
| `TcpStream_eof.cfg` | `TcpStream`, `EndSeen` | data and the end of the stream reported by one edge; after a short read nobody calls recv(2) again (`Loop.cpp:229`; `EPOLLRDHUP` is not asked for) |
| `Processes_early.cfg` | `Processes`, `OnlyFatalGivenUp` | a child that is dead before its id is stored (`Source/Engine.cpp:378`) is never replaced, whatever its exit code |
| `Processes_exit.cfg` | `Processes`, `ExitToldAll` | a scan under way when SIGTERM is handled creates a child that nobody tells to exit (`Engine.cpp:268`) |
| `Redis_fly.cfg` | `MCRedis`, `NoneFliesAtEnd` | `mFlyCount` is counted down for connections that were not counted up (`RedisClientPool.cpp:95`), against the assertion of the destructor (`:53`) |

Behaviour that the models have, that properties name as an exception, and that no
document of the repository denies:

- *A lost wake-up of the kernel's thread* (`WakeupLost`, `IOURing.cpp:304`): the load of
  the ring's flags may be done before the store of its tail is visible. The kernel's
  thread looks once more at the ring after it has asked to be woken, but the store may
  still lie in the processor's buffer. The requests wait until the next post.
- *A task linked after `stop()`* is answered `EE_OK` and never run (`Loop.cpp:820`).
- *A handler that logs while its thread logs* waits for itself (`System.cpp:153`).
- *A SIGTERM before `runMainProcess()`* is overwritten (`Engine.cpp:308`).
- *Data that comes with the peer's last flight* is not given to reads that wait on the
  connecting side until more comes (`LeftOver`, `HandleTLS.cpp:423`).
- *A TLS handle that closes its socket by itself* (`HandleTLS.cpp:179`, `:437`;
  `HandleTCP.cpp:84`) tells the loop nothing: it waits for its timer.
- *A TLS write before the handshake has ended* waits in `mFlyWrites`, which only
  `onClose()` empties (`HandleTLS.cpp:316`).
- *A pool of Redis connections gives up* when its connections have failed `mMaxTCP` times
  in all, for `mFailCount` is never reduced (`RedisClientPool.cpp:121`), and may then be
  deleted in use; if the count has passed that number it never does.

## 7. What is not modelled

The components without a module are in section 1 and, with reasons, in
`PROJECT.json`. Within and beside the modelled ones these points of the code were
noticed and are outside the modules:

| Where | What |
|---|---|
| `IOURing.cpp:401` | `req->mHandle` is read after `req->mCall(req)`; `Test/AsyncFile.cpp:72, 82` delete the request in it. `Uring` assumes callbacks that do not, and that post again to the same file |
| `Loop.cpp:628` | a file's descriptor is closed while an unconsumed entry names it; its number may be another file's by then |
| `IOURing.cpp:354` | `mUsed` is not looked at, unlike in the build without io_uring (`HandleFile.cpp:168`) |
| `HandleFile.cpp:181` | build without io_uring: a request in the thread pool when the loop stops is not answered |
| `Loop.cpp:835`, `Loop.cpp:513` | a wake-up that cannot be sent is not sent again; `stop()` closes `mSendCMD` under other threads' feet |
| `Loop.cpp:522` | `relinkTime()` does not look at `mCallTime`: a connection without a time callback enters the heap after its first request, and closing it does not take it out. The module has this (`RelinkTime`), the runs make every connection timed, as every one in the tree is; `HeapIsAlive` is checked under that condition only |
| `Loop.cpp:215`, `Loop.cpp:283` | the UDP branches use `req`, the first of the requests, where `nd` is the current one |
| `ThreadPool.h:181`, `:199` | `start()` while `stop()` joins; `stop()` from a task |
| `Engine.cpp:404`, `Engine.cpp:83` | a closed pair's number stays in its slot (the module has that): the kernel may give it to another file; a blocking send in a handler |
| `Engine.cpp:190` | a process that dies in the slab allocator's lock leaves it locked (`TODO`) |
| `MemSlabPool.cpp:72` | `G_PageSizeShift` is not reset: a second pool in one process would count on |
| `TimerWheel.cpp` | splitting an empty list of the wheel does not end; the wheel has no user in the tree |
| `TcpProxy.cpp:255` | when the backend's open fails the acceptor's request is deleted in place of the new one, and `Acceptor.cpp:128` posts it again; `Proxy` stops describing that request there |
| `Acceptor.cpp:112` | a request that comes back with an error is not posted again: after `GMaxFly` of them nothing is accepted |
| `KCProtocal.cpp:488` | a message of `WND_RCV` fragments or more is answered `EE_RETRY` for ever |
| `HandleTLS.cpp:150` | an application that writes from every write callback keeps `landQueue()` from ending |
| `RedisClient.cpp:143` | a time-out that was set before a reopen is added to the clock again (`Loop::openHandle`) |

What the modules of section 3 leave out of their own files:

- *Kcp*: the stream mode, round-trip times and the time-outs drawn from them, `mState`,
  changes of windows during a conversation, input that is not KCP.
- *Redis*: the texts of commands and answers, all slots but one, what happens after a
  use of freed memory, commands launched from callbacks while a pool is destroyed.
- *Tls*: certificates, a write the session takes in part, a request given to `open()` of
  an accepted handle, reopening. *Proxy*: TLS on either side, a connect(2) that fails
  at once (finding 1 would keep the pair for ever).
- *MemSlab*: which size falls in which slot, words of bitmaps, pointers that are not
  blocks, the lock. *RingBlocks*: direct users of `getHeadBlock()`.
- *HashDict*: values, unsafe iterators, `clear()` under an iterator, random keys,
  rehashing many buckets at once (`rehashWithTimeout()`, which does not look at
  `mIterators`), changes made from inside the callback of a scan, and the removal of the
  entry that a safe iterator has saved as its next: the comment at `HashDict.cpp:437` allows
  that of the entry returned, and `RemoveKey` leaves the other out (`iter.next # k`).
- *Loop*: what follows once a handle was opened while it was linked (`torn`); `HandleLists`
  has it for handles that connect. *Redis* ends there too.
- *ThreadPool*: the ring of tasks is a sequence; that its tail pointer stays right is not shown.

Not modelled at all: UDP, the locks (one word each, taken for granted in the modules
that use them), memory hub and pool, `RingBuffer`, timer wheel (no user) and heap (a set
in `Loop`); HTTP (a parser over bytes and pages of text); what libraries outside the
tree do (data bases, Lua); codecs and converters (tables and functions of bytes that test
vectors cover, a third of the source's lines with vendored code); the Windows port,
samples, logging and configuration.
