------------------------------ MODULE MCServers ------------------------------
(***************************************************************************)
(* The parts whose objects several threads use, each on its own: the UDP      *)
(* server with its io loop, the TCP server with its io loops, and a TCP       *)
(* connection.                                                                 *)
(***************************************************************************)
EXTENDS UdpServerEnd, TcpServer, TcpConnection

VARIABLE subject    \* the part that this behaviour runs

allVars == <<subject, endVars, srvVars, tcpVars>>

MCInit ==
    /\ subject \in {"udp server", "tcp server", "connection"}
    /\ EndInit /\ SrvInit /\ TcpInit

MCNext ==
    /\ UNCHANGED subject
    /\ \/ subject = "udp server" /\ EndNext /\ UNCHANGED <<srvVars, tcpVars>>
       \/ subject = "tcp server" /\ SrvNext /\ UNCHANGED <<endVars, tcpVars>>
       \/ subject = "connection" /\ TcpNext /\ UNCHANGED <<endVars, srvVars>>

Of(part, step) == subject = part /\ step

\* The fairness of each part, as its module states it.
MCFairness ==
    /\ WF_endVars(Of("udp server", Serving(LoopStep(Base) \/ BaseFunctors)))
    /\ \A l \in PoolLoops :
          WF_endVars(Of("udp server", BeginLoop(l) \/ PoolStep(l) \/ ThreadExits(l)))
    /\ \A p \in Peers : SF_endVars(Of("udp server", Serving(EraseConnector(p))))
    /\ WF_endVars(Of("udp server", DtorStep))
    /\ WF_srvVars(Of("tcp server", newConnection \/ AcceptFails))
    /\ SF_srvVars(Of("tcp server", removeConnectionInLoop))
    /\ WF_srvVars(Of("tcp server", joined))
    /\ \A l \in IoIds : /\ WF_srvVars(Of("tcp server", io(l)))
                        /\ WF_srvVars(Of("tcp server", quitLoop(l)))
    /\ SF_tcpVars(Of("connection", RunFunctor))
    /\ WF_tcpVars(Of("connection", handleWrite)) /\ WF_tcpVars(Of("connection", HangUp))
    /\ WF_tcpVars(Of("connection", DelayOver))
    /\ \A t \in OtherThreads :
          /\ WF_tcpVars(Of("connection", QueueSend(t) \/ WriteState(t)))
          /\ SF_tcpVars(Of("connection", Release(t)))

MCSpec == MCInit /\ [][MCNext]_allVars /\ MCFairness
=============================================================================
