------------------------------ MODULE MCClients ------------------------------
(***************************************************************************)
(* The parts in which one thread drives loops that run on others, each on    *)
(* its own: the UDP client, the TCP client and the pool of event loop        *)
(* threads.                                                                   *)
(***************************************************************************)
EXTENDS UdpClient, TcpClient, EventLoopThread

VARIABLE subject    \* the part that this behaviour runs

allVars == <<subject, vars, cnVars, threadVars>>

MCInit ==
    /\ subject \in {"udp client", "tcp client", "loops"}
    /\ Init /\ CnInit /\ ThreadsInit

MCNext ==
    /\ UNCHANGED subject
    /\ \/ subject = "udp client" /\ Next /\ UNCHANGED <<cnVars, threadVars>>
       \/ subject = "tcp client" /\ CnNext /\ UNCHANGED <<vars, threadVars>>
       \/ subject = "loops" /\ ThreadsNext /\ UNCHANGED <<vars, cnVars>>

Of(part, step) == subject = part /\ step

\* The fairness of each part, as its module states it.
MCFairness ==
    /\ WF_vars(Of("udp client", LoopStep)) /\ SF_vars(Of("udp client", RunFunctor))
    /\ WF_vars(Of("udp client", ShutdownSets)) /\ WF_vars(Of("udp client", ForceCloseSets))
    /\ WF_vars(Of("udp client", DestructorReturns))
    /\ WF_cnVars(Of("tcp client", CnHandlers)) /\ SF_cnVars(Of("tcp client", CnFunctors))
    /\ WF_threadVars(Of("loops", StartLoop \/ StartReturns \/ TestLoop \/ Quit \/ Join))
    /\ \A t \in Threads : WF_threadVars(Of("loops", ThreadStep(t)))

MCSpec == MCInit /\ [][MCNext]_allVars /\ MCFairness
=============================================================================
