------------------------------- MODULE Redis -------------------------------
(***************************************************************************)
(* The pools of connections to redis servers and their cluster:            *)
(* Source/Net/RedisClient/RedisClientPool.cpp, RedisClient.cpp,            *)
(* RedisClientCluster.cpp and the launching of RedisCommand.cpp.           *)
(*                                                                         *)
(* All runs on the loop's thread, one callback of the loop at a time, and  *)
(* callbacks call one another: a client gives itself back to its pool, the *)
(* pool gives it the next command, the command's answer launches another.  *)
(* So an operator takes a world w, the four variables as a record, and     *)
(* returns the one the method of that name leaves.                         *)
(*                                                                         *)
(* A handle is what Loop promises (see Loop.tla): connecting, open, then   *)
(* closing, and one call at the end.  Loop breaks that promise for a       *)
(* handle that is opened again in the callback of its failed connect, and  *)
(* this is where the program does so: cluster.torn says that it happened,  *)
(* and the behaviour ends there.  (To the pools the client is then as it   *)
(* was before: what they would do next they do in behaviours without it.   *)
(* What becomes of the loop is shown in HandleLists.)                      *)
(* The slots are one: MOVED and the answer to CLUSTER SLOTS say which pool *)
(* serves it.                                                              *)
(***************************************************************************)
EXTENDS Integers, Sequences, SequencesExt, FiniteSets

CONSTANTS Pool,       \* addresses of servers; a pool for each
          Client,     \* the connections, all pools'
          PoolOf,     \* the pool of each client
          Command,    \* commands the application launches
          SlotsCommand,   \* the CLUSTER SLOTS that updateSlots() launches
          Greeting,   \* what a connection must say first: AUTH, SELECT
          MaxRedirect,    \* mMaxRedirect
          OpenFailures,   \* times that openHandle() may fail
          Closes,         \* whether the cluster is closed
          FlyDebt,        \* mFlyCount is counted down to -FlyDebt and no further
          Null

Commands == Command \cup {SlotsCommand}
ClientsOf(p) == {c \in Client : PoolOf[c] = p}

ASSUME RedisConstants ==
    /\ PoolOf \in [Client -> Pool] /\ \A p \in Pool : ClientsOf(p) # {}
    /\ IsFiniteSet(Client) /\ SlotsCommand \notin Command
    /\ Null \notin Commands \cup Pool \cup Client
    /\ Greeting \in Seq({"auth", "select"}) /\ Closes \in BOOLEAN
    /\ MaxRedirect \in Nat /\ OpenFailures \in Nat /\ FlyDebt \in Nat

VARIABLES pool,       \* the pools: counts and queues
          client,     \* the connections
          command,    \* the commands: references, times redirected, asked, answered
          cluster     \* mStatus, the pool of the slot, failures of openHandle(),
                      \* whether the loop's list of handles was torn

redisVars == <<pool, client, command, cluster>>

NewPool == [state |-> "new", fly |-> 0, fail |-> 0,
            alive |-> <<>>, idle |-> <<>>, task |-> <<>>]
NewClient == [conn |-> "shut", fly |-> FALSE, said |-> 0, cmd |-> Null]
NewCommand == [refs |-> 0, tries |-> 0, asked |-> 0, answers |-> 0]

World == [pool |-> pool, client |-> client, command |-> command, cluster |-> cluster]
Become(w) ==
    /\ pool' = w.pool /\ client' = w.client
    /\ command' = w.command /\ cluster' = w.cluster

\* delink(): out of the queue it is in.
Without(s, x) ==
    IF Contains(s, x) THEN RemoveAt(s, CHOOSE i \in DOMAIN s : s[i] = x) ELSE s

\* How often x is in a queue.
Times(s, x) == Cardinality({i \in DOMAIN s : s[i] = x})

IsRunning(w, p) == w.pool[p].state = "open"
Grab(w, q) == [w EXCEPT !.command[q].refs = @ + 1]
FlyLess(w, p) == [w EXCEPT !.pool[p].fly = IF @ > -FlyDebt THEN @ - 1 ELSE @]
Drop(w, q) == [w EXCEPT !.command[q].refs = @ - 1]
\* Nobody asks again how often an answered command was redirected.
Answer(w, q) == [w EXCEPT !.command[q].answers = @ + 1, !.command[q].tries = 0]

-----------------------------------------------------------------------------
(* A client.                                                               *)

\* Loop::closeHandle(): the call at the end comes later.
CloseClient(w, c) ==
    IF w.client[c].conn \in {"connecting", "open"}
    THEN [w EXCEPT !.client[c].conn = "closing"] ELSE w

\* HandleTCP::write() takes a request only of a handle that can be written.
CanWrite(w, c) == w.client[c].conn = "open"

\* RedisClient::postTask(), which leaves all as it was if it cannot write.
ClientPost(w, c, q) ==
    Grab([w EXCEPT !.client[c].cmd = q, !.client[c].fly = TRUE], q)

\* RedisClient::open(), once openHandle() went well.
OpenClient(w, c) ==
    [w EXCEPT !.client[c].conn = "connecting", !.client[c].fly = TRUE, !.client[c].said = 0]

-----------------------------------------------------------------------------
(* A pool.                                                                 *)

\* Broken: nobody holds a command that waits.
PushTaskUnheld(w, p, q) == [w EXCEPT !.pool[p].task = Append(@, q)]

\* postTask(): the queue holds a reference of its own.
PushTask(w, p, q) == [Grab(w, q) EXCEPT !.pool[p].task = Append(@, q)]

\* Broken: the command that cannot be sent is forgotten.
PutBackForgotten(task) == Tail(task)

\* pushTask() of what popTask() took: behind the others.
PutBack(task) == Append(Tail(task), Head(task))

\* Broken: a client that is given back does not look for work.
PushLazily(w, c) ==
    FlyLess([w EXCEPT !.pool[PoolOf[c]].alive = Append(@, c)], PoolOf[c])

\* A client that cannot take the oldest command puts it behind the others.
Push(w, c) ==
    LET p == PoolOf[c]
        task == w.pool[p].task
        again == IF task = <<>> THEN w
                 ELSE [w EXCEPT !.pool[p].task = PutBack(@)]
        told == IF IsRunning(w, p) THEN again ELSE CloseClient(again, c)
    IN  IF task # <<>> /\ CanWrite(w, c)
        THEN Drop(ClientPost([w EXCEPT !.pool[p].task = Tail(@)], c, Head(task)), Head(task))
        ELSE FlyLess([told EXCEPT !.pool[p].alive = Append(@, c)], p)

\* postTask() of a pool that runs.
PostTask(w, p, q) ==
    LET c == Head(w.pool[p].alive)
        taken == [w EXCEPT !.pool[p].alive = Tail(@), !.pool[p].fly = @ + 1]
    IN  IF w.pool[p].alive = <<>> THEN PushTask(w, p, q)
        ELSE IF CanWrite(w, c) THEN ClientPost(taken, c, q)
        ELSE PushTask(Push(taken, c), p, q)

\* RedisClientCluster::onClose(): what waits is answered, and the pool and
\* its idle clients are deleted.  The references of the queue stay.  What
\* those callbacks may launch is left out.
AnsweredBy(cmd, n) == IF n = 0 THEN cmd ELSE [cmd EXCEPT !.answers = @ + n, !.tries = 0]
Destroy(w, p) ==
    LET task == w.pool[p].task
    IN  [w EXCEPT !.pool[p].task = <<>>, !.pool[p].state = "deleted",
                  !.command = [q \in Commands |-> AnsweredBy(w.command[q], Times(task, q))],
                  !.cluster.slot = IF @ = p THEN Null ELSE @,
                  !.cluster.status = IF Times(task, SlotsCommand) > 0 THEN 2 ELSE @]

PushIdle(w, c) ==
    LET p == PoolOf[c]
        w1 == [w EXCEPT !.pool[p].idle = <<c>> \o @, !.pool[p].fail = @ + 1]
    IN  IF w1.pool[p].fail = Cardinality(ClientsOf(p)) THEN Destroy(w1, p) ELSE w1

\* Broken: a client that is not flying stays in the queue it is in.
OnCloseLinked(w, c, ok) ==
    IF IsRunning(w, PoolOf[c]) /\ ok THEN OpenClient(w, c) ELSE PushIdle(w, c)

\* onClose(): mFlyCount is not raised for a client that was alive and is
\* opened again.
OnClose(w, c, ok) ==
    LET p == PoolOf[c]
        again == IsRunning(w, p) /\ ok
        delinked == [w EXCEPT !.pool[p].alive = Without(@, c), !.pool[p].idle = Without(@, c)]
    IN  IF w.client[c].fly
        THEN IF again THEN OpenClient(w, c)
             ELSE PushIdle(FlyLess(w, p), c)
        ELSE IF again THEN OpenClient(delinked, c) ELSE PushIdle(delinked, c)

\* close() of the pools in P that run: clients that work or connect are left
\* to end by themselves.
ClosePools(w, P) ==
    LET stopped == {p \in P : IsRunning(w, p)}
        ends(c) == PoolOf[c] \in stopped /\ Contains(w.pool[PoolOf[c]].alive, c)
    IN  [w EXCEPT !.pool = [p \in Pool |-> IF p \in stopped
                            THEN [w.pool[p] EXCEPT !.state = "shut"] ELSE w.pool[p]],
                  !.client = [c \in Client |-> IF ends(c)
                            THEN CloseClient(w, c).client[c] ELSE w.client[c]]]

\* RedisClientPool::open(), of all its clients.  If none can be opened, the
\* last of them destroys the pool.
OpenPool(w, p, ok) ==
    LET all == ClientsOf(p)
        begun == [w EXCEPT !.pool[p].state = "open"]
    IN  IF ok
        THEN [begun EXCEPT !.pool[p].fly = @ + Cardinality(all),
                           !.client = [c \in Client |-> IF c \in all
                                THEN OpenClient(w, c).client[c] ELSE w.client[c]]]
        ELSE Destroy([begun EXCEPT !.pool[p].idle = SetToSeq(all),
                                   !.pool[p].fail = Cardinality(all)], p)

-----------------------------------------------------------------------------
(* The cluster.                                                            *)

\* launch() on a pool that runs, of a new command.
LaunchAt(w, p, q) ==
    PostTask([w EXCEPT !.command[q].asked = @ + 1], p, q)

\* RedisClientCluster::open(): the pool of the address, made if there is
\* none.  The first takes all slots and is asked for them.
ClusterOpen(w, p, ok) ==
    LET first == \A o \in Pool : w.pool[o].state \in {"new", "deleted"}
        w1 == OpenPool(w, p, ok)
        w2 == [w1 EXCEPT !.cluster.slot = p]
    IN  IF w.pool[p].state # "new" THEN w
        ELSE IF ~first \/ ~IsRunning(w1, p) THEN w1
        ELSE IF w.cluster.status # 0 THEN w2
        ELSE [LaunchAt(w2, p, SlotsCommand) EXCEPT !.cluster.status = 1]

\* close()
ClusterClose(w) ==
    IF w.cluster.status = 0 THEN w
    ELSE ClosePools([w EXCEPT !.cluster.status = 0], Pool)

\* relaunch() after MOVED or ASK: the pool it returns is asked, FALSE when
\* there were too many redirections or the pool does not run.
Relaunch(w, q, to, moved, ok) ==
    LET w1 == [w EXCEPT !.command[q].tries = @ + 1]
        w2 == ClusterOpen(w1, to, ok)
        w3 == [w2 EXCEPT !.cluster.slot = IF moved THEN to ELSE @]
    IN  IF w1.command[q].tries > MaxRedirect THEN [sent |-> FALSE, world |-> w1]
        ELSE IF IsRunning(w3, to) THEN [sent |-> TRUE, world |-> PostTask(w3, to, q)]
        ELSE [sent |-> FALSE, world |-> w3]

\* AppClusterCallback(): the answer to CLUSTER SLOTS names the pool.
UpdateSlots(w, good, to, ok) ==
    IF good THEN [ClusterOpen(w, to, ok) EXCEPT !.cluster.slot = to, !.cluster.status = 3]
    ELSE [w EXCEPT !.cluster.status = 2]

\* callback(): the client is given back, and may fly again, before the
\* command's callback is called.
Callback(w, c, reply, to, ok) ==
    LET q == w.client[c].cmd
        free == [w EXCEPT !.client[c].cmd = Null]
        again == IF reply \in {"moved", "ask"} THEN Relaunch(free, q, to, reply = "moved", ok)
                 ELSE [sent |-> FALSE, world |-> free]
        back == Push([again.world EXCEPT !.client[c].fly = FALSE], c)
        told == Answer(back, q)
    IN  IF again.sent THEN Drop(back, q)
        ELSE Drop(IF q = SlotsCommand THEN UpdateSlots(told, reply = "ok", to, ok) ELSE told, q)

-----------------------------------------------------------------------------
(* The steps.                                                              *)

\* A pool that was deleted while its clients are in use, and a client that
\* is in two queues: what the program does then is not defined.
Queued(p) == pool[p].alive \o pool[p].idle
Defined(p) == pool[p].state # "deleted" /\ IsInjective(Queued(p))

\* Whether openHandle() goes well in a step.
MayOpen(ok) ==
    ok \in IF cluster.failed < OpenFailures THEN BOOLEAN ELSE {TRUE}
Counted(w, ok) == [w EXCEPT !.cluster.failed = IF ok THEN @ ELSE @ + 1]

Targets == {p \in Pool : Defined(p)}

Open(p, ok) ==
    /\ cluster.status = 0 /\ \A o \in Pool : pool[o].state = "new"
    /\ Become(Counted(ClusterOpen(World, p, ok), ok))

MayLaunch(w, q) ==
    /\ w.command[q].asked = 0 /\ w.cluster.slot # Null
    /\ Defined(w.cluster.slot) /\ IsRunning(w, w.cluster.slot)

\* RedisCommand::launch() and the application's own drop().
Launch(q) ==
    /\ MayLaunch(World, q)
    /\ Become(LaunchAt(World, cluster.slot, q))

Close ==
    /\ Closes /\ cluster.status # 0
    /\ Become(ClusterClose(World))

Greeted(w, c) == Push([w EXCEPT !.client[c].fly = FALSE], c)

\* onConnect() without an error.
Connected(c) ==
    /\ client[c].conn = "connecting" /\ Defined(PoolOf[c])
    /\ LET w == [World EXCEPT !.client[c].conn = "open"]
       IN  Become(IF Greeting = <<>> THEN Greeted(w, c) ELSE w)

\* openHandle() of a handle that is in the loop's list still (Loop.cpp:791).
Reopened(w, c) == [w EXCEPT !.cluster.torn = @ \/ w.client[c].conn = "connecting"]

\* onConnect() with one: the loop has begun to close the handle, and the
\* call at its end is still to come unless the handle is opened again.
ConnectFailed(c, ok) ==
    /\ client[c].conn = "connecting" /\ Defined(PoolOf[c])
    /\ LET w == OnClose([World EXCEPT !.client[c].conn = "closing"], c, ok)
       IN  Become(Counted(Reopened(w, c), ok))

\* onPassword(), onSelectDB(): a wrong password closes the whole pool.
GreetingAnswered(c, good) ==
    LET p == PoolOf[c]
        said == client[c].said + 1
        w == [World EXCEPT !.client[c].said = said]
        refused == IF Greeting[said] = "auth" THEN ClosePools(World, {p}) ELSE World
    IN  /\ client[c].conn = "open" /\ Defined(p) /\ client[c].cmd = Null
        /\ client[c].fly /\ said <= Len(Greeting)
        /\ Become(IF ~good THEN CloseClient(refused, c)
                  ELSE IF said = Len(Greeting) THEN Greeted(w, c) ELSE w)

\* onRead() of a whole answer.
Replied(c, reply, to, ok) ==
    /\ client[c].conn = "open" /\ client[c].cmd # Null /\ Defined(PoolOf[c])
    /\ to \in Targets
    /\ Become(Counted(Callback(World, c, reply, to, ok), ok))

\* The server ends the connection, or it fails.
Breaks(c) ==
    /\ client[c].conn = "open" /\ Defined(PoolOf[c])
    /\ Become(CloseClient(World, c))

\* onTimeout(): only a client that waits for an answer is given up.
TimedOut(c) ==
    /\ client[c].conn = "open" /\ client[c].fly /\ Defined(PoolOf[c])
    /\ Become(CloseClient(World, c))

\* What the callback of a command may do: nothing, launch another, close.
Then(w, then) ==
    IF then = "close" THEN ClusterClose(w)
    ELSE IF then \in Command /\ MayLaunch(w, then) THEN LaunchAt(w, w.cluster.slot, then)
    ELSE w

\* RedisClient::onClose(): the command is answered with an error, the
\* client is given back, closed as it is, and opened again after that.
Closed(c, then, ok) ==
    /\ client[c].conn = "closing" /\ Defined(PoolOf[c])
    /\ LET w == [World EXCEPT !.client[c].conn = "shut"]
           told == IF client[c].cmd = Null THEN w
                   ELSE Then(Callback(w, c, "error", Null, ok), then)
       IN  Become(Counted(OnClose(told, c, ok), ok))

RedisInit ==
    /\ pool = [p \in Pool |-> NewPool]
    /\ client = [c \in Client |-> NewClient]
    /\ command = [q \in Commands |-> NewCommand]
    /\ cluster = [status |-> 0, slot |-> Null, failed |-> 0, torn |-> FALSE]

\* A callback called for an answer comes last in its step, so what it does
\* is as well a step of its own; in Closed() it is not.
Callbacks == {"nothing"} \cup Command \cup IF Closes THEN {"close"} ELSE {}

RedisNext == ~cluster.torn /\
    \/ \E p \in Pool, ok \in BOOLEAN : MayOpen(ok) /\ Open(p, ok)
    \/ \E q \in Command : Launch(q)
    \/ Close
    \/ \E c \in Client :
         \/ Connected(c) \/ Breaks(c) \/ TimedOut(c)
         \/ \E good \in BOOLEAN : GreetingAnswered(c, good)
         \/ \E ok \in BOOLEAN :
              MayOpen(ok) /\
              (\/ ConnectFailed(c, ok)
               \/ \E then \in Callbacks : Closed(c, then, ok)
               \/ \E reply \in {"ok", "error", "moved", "ask"}, to \in Pool :
                      Replied(c, reply, to, ok))

RedisSpec == RedisInit /\ [][RedisNext]_redisVars

Ready(c) == client[c].conn = "open" /\ client[c].said = Len(Greeting)

(* Connections that are tried again and again succeed, and so does the     *)
(* greeting; the loop calls what it owes; and no connection works for ever *)
(* on one command: there is an answer or the timer runs out.  Each is the  *)
(* SF or WF of the actions that alone change the state, said of the state. *)
Fairness ==
    \A c \in Client :
        /\ []<>(client[c].conn = "connecting") => []<>Ready(c)
        /\ []<>(client[c].conn # "closing")
        /\ []<>~(client[c].conn = "open" /\ client[c].fly)

RedisFairSpec == RedisSpec /\ Fairness

-----------------------------------------------------------------------------
Holders(q) ==
    Cardinality({c \in Client : client[c].cmd = q})
    + Cardinality(UNION {{p} \X {i \in DOMAIN pool[p].task : pool[p].task[i] = q} : p \in Pool})

(* A command that was asked for is with one connection, or waits in one    *)
(* pool, or has been answered: it is never lost and never answered twice,  *)
(* through closes in the middle of it, redirections and pools given up.    *)
(* Its references count those that use it, so it is freed when it has been *)
(* answered and not before; only a pool that gives up keeps the references *)
(* of its queue.                                                           *)
NothingLost ==
    \A q \in Commands :
        /\ Holders(q) + command[q].answers = command[q].asked
        /\ (\A p \in Pool : pool[p].state # "deleted") => command[q].refs = Holders(q)

(* A connection in the queue of those that are alive has nothing to do and *)
(* one that has nothing to do is in that queue, where the next command     *)
(* finds it; one that is shut has been put aside.                          *)
AliveExact ==
    \A c \in Client :
        LET p == PoolOf[c]
            inAlive == c \in Range(pool[p].alive)
        IN  Defined(p) =>
            /\ inAlive => ~client[c].fly /\ client[c].cmd = Null
            /\ client[c].conn = "open" /\ ~client[c].fly => inAlive
            /\ client[c].conn = "shut" /\ pool[p].state # "new" =>
                   c \in Range(pool[p].idle)

(* As long as its pool is not closed and has given up no connection, what  *)
(* was asked is answered, however often connections break, time out or are *)
(* refused their greeting, and however often it is redirected.  It is not  *)
(* promised once the loop's list of handles is torn: a handle that is      *)
(* opened again in the callback of its failed connect may not be closed,   *)
(* nor called, ever again.                                                 *)
Answered ==
    \A q \in Command :
        command[q].asked > command[q].answers
            ~> \/ command[q].asked = command[q].answers
               \/ \E p \in Pool : pool[p].state \in {"shut", "deleted"} \/ pool[p].idle # <<>>
               \/ cluster.torn

(* DASSERT(0 == mFlyCount) of the pool's destructor, RedisClientPool.cpp.  *)
NoneFliesAtEnd == \A p \in Pool : pool[p].state = "deleted" => pool[p].fly = 0
=============================================================================
