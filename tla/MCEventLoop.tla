----------------------------- MODULE MCEventLoop -----------------------------
(***************************************************************************)
(* The parts in which threads hand work to another thread, each on its own:  *)
(* the event loop and its queue of functors, in both builds, the thread pool   *)
(* and the asynchronous log.                                                   *)
(***************************************************************************)
EXTENDS EventLoop, ThreadPool, AsyncLogging, WinLoop

VARIABLE subject    \* the part that this behaviour runs

allVars == <<subject, vars, threadPoolVars, asyncVars, winLoopVars>>

PoolThreads == 1 .. 2

MCInit ==
    /\ subject \in {"loop", "pool", "log", "windows"}
    /\ Init /\ PoolInit /\ AsyncInit /\ WinLoopInit
    /\ subject # "pool" => poolBuild = "linux" /\ maxQueueSize = 0

MCNext ==
    /\ UNCHANGED subject
    /\ \/ subject = "loop" /\ Next /\ UNCHANGED <<threadPoolVars, asyncVars, winLoopVars>>
       \/ subject = "pool" /\ PoolNext /\ UNCHANGED <<vars, asyncVars, winLoopVars>>
       \/ subject = "log" /\ AsyncNext /\ UNCHANGED <<vars, threadPoolVars, winLoopVars>>
       \/ subject = "windows" /\ WinLoopNext /\ UNCHANGED <<vars, threadPoolVars, asyncVars>>

Of(part, step) == subject = part /\ step

\* The fairness of each part, as its module states it.
MCFairness ==
    /\ WF_vars(Of("loop", Loop)) /\ WF_vars(Of("loop", WhileNotQuit))
    /\ WF_vars(Of("loop", PollWakeup)) /\ WF_vars(Of("loop", Handle))
    /\ \A t \in Threads : WF_vars(Of("loop", ThreadWakeup(t)))
    /\ WF_threadPoolVars(Of("pool", OwnerNext))
    /\ \A w \in Workers : WF_threadPoolVars(Of("pool", WorkerNext(w)))
    /\ \A p \in Producers : WF_threadPoolVars(Of("pool", ProducerNext(p)))
    /\ WF_asyncVars(Of("log", BackendNext)) /\ WF_asyncVars(Of("log", asyncJoin))
    /\ WF_winLoopVars(Of("windows", WinLoopThread))
    /\ \A p \in WinPosters : WF_winLoopVars(Of("windows", WinWakeup(p)))

MCSpec == MCInit /\ [][MCNext]_allVars /\ MCFairness
=============================================================================
