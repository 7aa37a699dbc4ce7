----------------------------- MODULE ThreadPool ------------------------------
(***************************************************************************)
(* muduo::ThreadPool with the Thread and CountDownLatch it starts its        *)
(* threads with, and the Windows build's copy of it.  One caller starts the  *)
(* pool and later stops it; once it is started, producers call run().  A     *)
(* section that holds mutex_ is one step.  Waiting on a condition ends with  *)
(* a notify, or spuriously.                                                  *)
(***************************************************************************)
EXTENDS Integers, Sequences, FiniteSets

CONSTANTS
    Workers,          \* the threads of the pool, 1..n
    Producers,        \* the threads that call run()
    MaxQueueSizes,    \* the values given to setMaxQueueSize
    TasksEach,        \* bound: the tasks of one producer
    PoolBuilds        \* a subset of {"linux", "win"}

ASSUME PoolAssumption ==
    /\ Workers = 1..Cardinality(Workers) /\ Cardinality(Workers) \in Nat
    /\ MaxQueueSizes \subseteq Nat
    /\ TasksEach \in Nat
    /\ PoolBuilds \subseteq {"linux", "win"}

VARIABLES
    poolBuild, maxQueueSize,
    running,          \* running_
    queue_,           \* queue_
    worker,           \* what each pool thread is doing
    tid, latch,       \* Thread::tid_ is set; Thread::latch_'s count
    task,             \* the task a worker took
    producer,         \* what each producer is doing
    next,             \* the number of the producer's next task
    poolOwner,        \* what the thread that starts and stops the pool does
    turn,             \* the thread it is starting or joining
    taken             \* the tasks taken from the queue, or run in place

threadPoolVars == <<poolBuild, maxQueueSize, running, queue_, worker, tid, latch, task,
                    producer, next, poolOwner, turn, taken>>

NoTask == <<>>

PoolInit ==
    /\ poolBuild \in PoolBuilds
    /\ maxQueueSize \in MaxQueueSizes
    /\ running = FALSE
    /\ queue_ = << >>
    /\ worker = [w \in Workers |-> "none"]
    /\ tid = [w \in Workers |-> FALSE]
    /\ latch = [w \in Workers |-> 1]
    /\ task = [w \in Workers |-> NoTask]
    /\ producer = [p \in Producers |-> "idle"]
    /\ next = [p \in Producers |-> 1]
    /\ poolOwner = "new"
    /\ turn = 1
    /\ taken = << >>

\* Broken variant: full once the bound is passed.
isFullLate == maxQueueSize > 0 /\ Len(queue_) > maxQueueSize

isFullLinux == maxQueueSize > 0 /\ Len(queue_) >= maxQueueSize
isFullWin == maxQueueSize > 0 /\ Len(queue_) > maxQueueSize
isFull == IF poolBuild = "linux" THEN isFullLinux ELSE isFullWin

(* Condition::notify: one of the waiting threads, if any, wakes. *)
Notify(state, waiting, woken) ==
    LET W == {x \in DOMAIN state : state[x] = waiting}
    IN  IF W = {} THEN {state} ELSE {[state EXCEPT ![x] = woken] : x \in W}

NotifyAll(state, waiting, woken) ==
    [x \in DOMAIN state |-> IF state[x] = waiting THEN woken ELSE state[x]]

-----------------------------------------------------------------------------
(* start(): running_, then one Thread after another; Thread::start creates    *)
(* the thread and waits for its latch.  The Windows build uses std::thread,    *)
(* whose constructor does not wait.                                            *)
start ==
    /\ poolOwner = "new"
    /\ running' = TRUE
    /\ poolOwner' = "starting"
    /\ UNCHANGED <<poolBuild, maxQueueSize, queue_, worker, tid, latch, task,
                   producer, next, turn, taken>>

StartThread ==
    /\ poolOwner = "starting" /\ turn \in Workers
    /\ worker' = [worker EXCEPT ![turn] = "created"]
    /\ poolOwner' = "latched"
    /\ UNCHANGED <<poolBuild, maxQueueSize, running, queue_, tid, latch, task,
                   producer, next, turn, taken>>

\* Broken variant: does not wait for the latch.
ThreadStartedEarly ==
    /\ poolOwner = "latched"
    /\ turn' = turn + 1
    /\ poolOwner' = "starting"
    /\ UNCHANGED <<poolBuild, maxQueueSize, running, queue_, worker, tid, latch, task,
                   producer, next, taken>>

(* CountDownLatch::wait ends. *)
ThreadStarted ==
    /\ poolOwner = "latched"
    /\ poolBuild = "linux" => latch[turn] = 0
    /\ turn' = turn + 1
    /\ poolOwner' = "starting"
    /\ UNCHANGED <<poolBuild, maxQueueSize, running, queue_, worker, tid, latch, task,
                   producer, next, taken>>

Started ==
    /\ poolOwner = "starting" /\ turn \notin Workers
    /\ poolOwner' = "running"
    /\ UNCHANGED <<poolBuild, maxQueueSize, running, queue_, worker, tid, latch, task,
                   producer, next, turn, taken>>

(* ThreadData::runInThread: the thread id, the latch, then func_. *)
ThreadRuns(w) ==
    /\ worker[w] = "created"
    /\ tid' = [tid EXCEPT ![w] = TRUE]
    /\ latch' = [latch EXCEPT ![w] = 0]
    /\ worker' = [worker EXCEPT ![w] = "loop"]
    /\ UNCHANGED <<poolBuild, maxQueueSize, running, queue_, task, producer, next,
                   poolOwner, turn, taken>>

-----------------------------------------------------------------------------
(* runInThread: `while (running_)` reads running_ without the lock. *)
runInThread(w) ==
    /\ worker[w] = "loop"
    /\ worker' = [worker EXCEPT ![w] = IF running THEN "take" ELSE "exited"]
    /\ UNCHANGED <<poolBuild, maxQueueSize, running, queue_, tid, latch, task, producer,
                   next, poolOwner, turn, taken>>

\* Broken variant: takes from the back.
takeBack(w) ==
    /\ worker[w] = "take"
    /\ IF queue_ = << >>
       THEN /\ worker' = [worker EXCEPT ![w] = IF running THEN "notEmpty" ELSE "loop"]
            /\ UNCHANGED <<queue_, task, producer, taken>>
       ELSE /\ worker' = [worker EXCEPT ![w] = "task"]
            /\ task' = [task EXCEPT ![w] = queue_[Len(queue_)]]
            /\ taken' = Append(taken, queue_[Len(queue_)])
            /\ queue_' = SubSeq(queue_, 1, Len(queue_) - 1)
            /\ producer' \in IF maxQueueSize > 0
                             THEN Notify(producer, "notFull", "run") ELSE {producer}
    /\ UNCHANGED <<poolBuild, maxQueueSize, running, tid, latch, next, poolOwner, turn>>

\* Broken variant: does not notify notFull_.
takeSilently(w) ==
    /\ worker[w] = "take"
    /\ IF queue_ = << >>
       THEN /\ worker' = [worker EXCEPT ![w] = IF running THEN "notEmpty" ELSE "loop"]
            /\ UNCHANGED <<queue_, task, taken>>
       ELSE /\ worker' = [worker EXCEPT ![w] = "task"]
            /\ task' = [task EXCEPT ![w] = Head(queue_)]
            /\ taken' = Append(taken, Head(queue_))
            /\ queue_' = Tail(queue_)
    /\ UNCHANGED <<poolBuild, maxQueueSize, running, tid, latch, producer, next, poolOwner,
                   turn>>

take(w) ==
    /\ worker[w] = "take"
    /\ IF queue_ = << >> /\ running
       THEN /\ worker' = [worker EXCEPT ![w] = "notEmpty"]
            /\ UNCHANGED <<queue_, task, producer, taken>>
       ELSE IF queue_ = << >>
       THEN /\ worker' = [worker EXCEPT ![w] = "loop"]
            /\ UNCHANGED <<queue_, task, producer, taken>>
       ELSE /\ worker' = [worker EXCEPT ![w] = "task"]
            /\ task' = [task EXCEPT ![w] = Head(queue_)]
            /\ taken' = Append(taken, Head(queue_))
            /\ queue_' = Tail(queue_)
            /\ producer' \in IF maxQueueSize > 0
                             THEN Notify(producer, "notFull", "run") ELSE {producer}
    /\ UNCHANGED <<poolBuild, maxQueueSize, running, tid, latch, next, poolOwner, turn>>

RunTask(w) ==
    /\ worker[w] = "task"
    /\ worker' = [worker EXCEPT ![w] = "loop"]
    /\ task' = [task EXCEPT ![w] = NoTask]
    /\ UNCHANGED <<poolBuild, maxQueueSize, running, queue_, tid, latch, producer, next,
                   poolOwner, turn, taken>>

SpuriousWakeup(w) ==
    /\ worker[w] = "notEmpty"
    /\ worker' = [worker EXCEPT ![w] = "take"]
    /\ UNCHANGED <<poolBuild, maxQueueSize, running, queue_, tid, latch, task, producer,
                   next, poolOwner, turn, taken>>

-----------------------------------------------------------------------------
(* run(): in place when the pool has no threads, else queued. *)
CallRun(p) ==
    /\ poolOwner \in {"running", "joining", "done"}
    /\ producer[p] = "idle" /\ next[p] <= TasksEach
    /\ IF Workers = {}
       THEN /\ taken' = Append(taken, <<p, next[p]>>)
            /\ next' = [next EXCEPT ![p] = @ + 1]
            /\ UNCHANGED producer
       ELSE /\ producer' = [producer EXCEPT ![p] = "run"]
            /\ UNCHANGED <<next, taken>>
    /\ UNCHANGED <<poolBuild, maxQueueSize, running, queue_, worker, tid, latch, task,
                   poolOwner, turn>>

\* Broken variant: does not notify notEmpty_.
runSilently(p) ==
    /\ producer[p] = "run"
    /\ IF isFull
       THEN /\ producer' = [producer EXCEPT ![p] = "notFull"]
            /\ UNCHANGED <<queue_, next>>
       ELSE /\ queue_' = Append(queue_, <<p, next[p]>>)
            /\ next' = [next EXCEPT ![p] = @ + 1]
            /\ producer' = [producer EXCEPT ![p] = "idle"]
    /\ UNCHANGED <<poolBuild, maxQueueSize, running, worker, tid, latch, task, poolOwner,
                   turn, taken>>

run(p) ==
    /\ producer[p] = "run"
    /\ IF isFull
       THEN /\ producer' = [producer EXCEPT ![p] = "notFull"]
            /\ UNCHANGED <<queue_, worker, next>>
       ELSE /\ queue_' = Append(queue_, <<p, next[p]>>)
            /\ next' = [next EXCEPT ![p] = @ + 1]
            /\ producer' = [producer EXCEPT ![p] = "idle"]
            /\ worker' \in Notify(worker, "notEmpty", "take")
    /\ UNCHANGED <<poolBuild, maxQueueSize, running, tid, latch, task, poolOwner, turn,
                   taken>>

\* Broken variant: does not notify the workers.
stopSilently ==
    /\ poolOwner = "running"
    /\ running' = FALSE
    /\ poolOwner' = "joining"
    /\ turn' = 1
    /\ UNCHANGED <<poolBuild, maxQueueSize, queue_, worker, tid, latch, task, producer,
                   next, taken>>

(* stop(): running_ and the notification under the lock, then the joins. *)
stop ==
    /\ poolOwner = "running"
    /\ running' = FALSE
    /\ worker' = NotifyAll(worker, "notEmpty", "take")
    /\ poolOwner' = "joining"
    /\ turn' = 1
    /\ UNCHANGED <<poolBuild, maxQueueSize, queue_, tid, latch, task, producer, next,
                   taken>>

join ==
    /\ poolOwner = "joining"
    /\ turn \in Workers => worker[turn] = "exited"
    /\ turn' = IF turn \in Workers THEN turn + 1 ELSE turn
    /\ poolOwner' = IF turn \in Workers THEN poolOwner ELSE "done"
    /\ UNCHANGED <<poolBuild, maxQueueSize, running, queue_, worker, tid, latch, task,
                   producer, next, taken>>

OwnerNext == start \/ StartThread \/ ThreadStarted \/ Started \/ join
WorkerNext(w) == ThreadRuns(w) \/ runInThread(w) \/ take(w) \/ RunTask(w)
ProducerNext(p) == run(p)

PoolNext ==
    \/ OwnerNext \/ stop
    \/ \E w \in Workers : WorkerNext(w) \/ SpuriousWakeup(w)
    \/ \E p \in Producers : CallRun(p) \/ ProducerNext(p)

(* The threads run; tasks end; nobody has to call run() or stop(). *)
PoolFairness ==
    /\ WF_threadPoolVars(OwnerNext)
    /\ \A w \in Workers : WF_threadPoolVars(WorkerNext(w))
    /\ \A p \in Producers : WF_threadPoolVars(ProducerNext(p))

PoolSpec == PoolInit /\ [][PoolNext]_threadPoolVars /\ PoolFairness

-----------------------------------------------------------------------------
(* A bounded queue stays within its bound; the Windows isFull() compares with *)
(* > and lets one task more in.                                                *)
QueueIsBounded ==
    maxQueueSize > 0 =>
        Len(queue_) <= maxQueueSize + (IF poolBuild = "win" THEN 1 ELSE 0)

(* The tasks given to run() so far, each once and those of a producer in order. *)
EveryTaskInOrder(all, given) ==
    /\ \A k \in DOMAIN all : all[k][2] < given[all[k][1]]
    /\ \A p \in Producers : \A i \in 1..given[p] - 1 : \E k \in DOMAIN all : all[k] = <<p, i>>
    /\ \A j, k \in DOMAIN all : j < k /\ all[j][1] = all[k][1] => all[j][2] < all[k][2]

(* Whatever the workers, wake-ups and waits in between, every task is queued   *)
(* or taken exactly once, and the tasks of one producer are taken in order.    *)
TakenInOrder == EveryTaskInOrder(taken \o queue_, next)

(* assert(tid_ > 0) in Thread::start: every thread passed has set its id.      *)
StartedHasTid ==
    poolBuild = "linux" =>
        \A w \in Workers : poolOwner \in {"starting", "running"} /\ w < turn => tid[w]

(* A queued task is run by some worker, unless the pool is stopped first.      *)
QueuedIsRun ==
    \A p \in Producers :
        (\E i \in DOMAIN queue_ : queue_[i] = <<p, 1>>)
            ~> (~running \/ \E i \in DOMAIN taken : taken[i] = <<p, 1>>)

(* stop() returns: no worker sleeps through the notification.                  *)
StopReturns == (poolOwner = "joining") ~> (poolOwner = "done")

(* run() returns, however full the queue is, unless the pool is stopped: then  *)
(* a producer that waits on notFull_ stays there, stop() notifies notEmpty_    *)
(* only.                                                                        *)
RunReturns ==
    \A p \in Producers : (producer[p] # "idle") ~> (producer[p] = "idle" \/ ~running)

(* The pool is a bounded queue: within its bound, each task taken once and each   *)
(* producer's tasks in order, by workers whose ids are set.                        *)
PoolIsQueue == QueueIsBounded /\ TakenInOrder /\ StartedHasTid

(* No wait of a worker, of a producer or of stop() outlasts its cause.             *)
PoolAnswers == QueuedIsRun /\ StopReturns /\ RunReturns
=============================================================================
