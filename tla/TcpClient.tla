------------------------------ MODULE TcpClient ------------------------------
(***************************************************************************)
(* TcpClient and its Connector: a non-blocking connect() watched through a    *)
(* channel, retried with a growing delay, restarted when the connection       *)
(* closes.  One thread calls connect(), stop() and the destructor; the loop   *)
(* thread alternates handlers and batches of functors.  The connection is     *)
(* kept to its existence (TcpConnection has the rest; UdpClient shows          *)
(* disconnect() and a destructor that finds a connection).                     *)
(***************************************************************************)
EXTENDS Integers, Sequences, FiniteSets

CONSTANTS
    TcpRetry,                   \* retry_
    MaxTcpConns, MaxTcpConnects, MaxTcpStops  \* bounds: connections and calls

kTcpInitRetryDelayMs == 500
kTcpMaxRetryDelayMs == 30000

VARIABLES
    clientConnect,   \* TcpClient::connect_
    tcpConnection,   \* connection_ is set
    made,            \* nextConnId_ - 1
    tcpClientGone,      \* ~TcpClient ran
    cnConnect,       \* Connector::connect_
    connectorState, channel,  \* state_, and channel_: "none", "watched" or "removed"
    retryDelay,      \* retryDelayMs_
    retryTimers,     \* pending startInLoop() timers
    hackTimer,       \* the destructor's one second timer holds the connector
    cnGone,          \* ~Connector ran
    cnQueue, cnBatch,  \* pendingFunctors_, and those doPendingFunctors() runs
    cnLoop,          \* what the loop thread does
    connects, stops, \* calls made
    gaveUp,          \* connect() met an error that is not retried
    cnFailed

cnVars == <<clientConnect, tcpConnection, made, tcpClientGone, cnConnect, connectorState, channel,
            retryDelay, retryTimers, hackTimer, cnGone, cnQueue, cnBatch, cnLoop,
            connects, stops, gaveUp, cnFailed>>

cliVars == <<clientConnect, tcpConnection, made, tcpClientGone, hackTimer, cnGone, connects,
             stops>>

CnInit ==
    /\ clientConnect = TRUE /\ tcpConnection = FALSE /\ made = 0 /\ tcpClientGone = FALSE
    /\ cnConnect = FALSE /\ connectorState = "kDisconnected" /\ channel = "none"
    /\ retryDelay = kTcpInitRetryDelayMs /\ retryTimers = 0 /\ hackTimer = FALSE
    /\ cnGone = FALSE /\ cnQueue = << >> /\ cnBatch = << >> /\ cnLoop = "poll"
    /\ connects = 0 /\ stops = 0 /\ gaveUp = FALSE /\ cnFailed = "no"

-----------------------------------------------------------------------------
(* The calling thread *)

CnMayCall == cnFailed = "no" /\ ~tcpClientGone

tcpConnect ==
    /\ CnMayCall /\ connects < MaxTcpConnects
    /\ connects' = connects + 1
    /\ clientConnect' = TRUE
    /\ cnConnect' = TRUE
    /\ cnQueue' = Append(cnQueue, "startInLoop")
    /\ UNCHANGED <<tcpConnection, made, tcpClientGone, connectorState, channel, retryDelay,
                   retryTimers, hackTimer, cnGone, cnBatch, cnLoop, stops, gaveUp, cnFailed>>

tcpStop ==
    /\ CnMayCall /\ stops < MaxTcpStops
    /\ stops' = stops + 1
    /\ clientConnect' = FALSE
    /\ cnConnect' = FALSE
    /\ cnQueue' = Append(cnQueue, "stopInLoop")
    /\ UNCHANGED <<tcpConnection, made, tcpClientGone, connectorState, channel, retryDelay,
                   retryTimers, hackTimer, cnGone, cnBatch, cnLoop, connects, gaveUp,
                   cnFailed>>

(* ~TcpClient that finds no connection_. *)
destroyTcpClient ==
    /\ CnMayCall /\ ~tcpConnection
    /\ tcpClientGone' = TRUE
    /\ cnConnect' = FALSE
    /\ cnQueue' = Append(cnQueue, "stopInLoop")
    /\ hackTimer' = TRUE
    /\ UNCHANGED <<clientConnect, tcpConnection, made, connectorState, channel, retryDelay,
                   retryTimers, cnGone, cnBatch, cnLoop, connects, stops, gaveUp, cnFailed>>

-----------------------------------------------------------------------------
(* The loop thread *)

\* Broken variant: forgets to reset the channel.
removeChannelOnly(queue) ==
    /\ channel' = "removed"
    /\ cnQueue' = queue

(* removeAndResetChannel: unwatched now, reset by a functor. *)
removeAndResetChannel(queue) ==
    /\ channel' = "removed"
    /\ cnQueue' = Append(queue, "resetChannel")

\* Broken variant: leaves state_ alone.
retryConnecting(timers) ==
    /\ retryTimers' = IF cnConnect THEN timers + 1 ELSE timers
    /\ UNCHANGED <<connectorState, retryDelay>>

\* Broken variant: gives up when the delay would pass its maximum.
retryGivesUp(timers) ==
    /\ connectorState' = "kDisconnected"
    /\ retryTimers' = IF cnConnect /\ 2 * retryDelay < kTcpMaxRetryDelayMs
                      THEN timers + 1 ELSE timers
    /\ retryDelay' = IF 2 * retryDelay < kTcpMaxRetryDelayMs THEN 2 * retryDelay
                     ELSE retryDelay

(* retry(), with the timers that are pending. *)
retry(timers) ==
    /\ connectorState' = "kDisconnected"
    /\ retryTimers' = IF cnConnect THEN timers + 1 ELSE timers
    /\ retryDelay' = IF ~cnConnect THEN retryDelay
                     ELSE IF 2 * retryDelay < kTcpMaxRetryDelayMs THEN 2 * retryDelay
                     ELSE kTcpMaxRetryDelayMs

(* connect(), by what sockets::connect() returned: connected or EINPROGRESS, where  *)
(* connecting() asserts that the previous channel was reset; an error that is       *)
(* retried; any other.                                                               *)
connecting(timers) ==
    /\ connectorState' = "kConnecting"
    /\ channel' = "watched"
    /\ cnFailed' = IF channel = "none" THEN "no" ELSE "connecting"
    /\ retryTimers' = timers
    /\ UNCHANGED gaveUp

connectorConnect(timers) ==
    \/ connecting(timers) /\ UNCHANGED retryDelay
    \/ retry(timers) /\ UNCHANGED <<channel, gaveUp, cnFailed>>
    \/ /\ gaveUp' = TRUE
       /\ retryTimers' = timers
       /\ UNCHANGED <<connectorState, channel, retryDelay, cnFailed>>

startInLoop(timers) ==
    \/ connectorState = "kDisconnected" /\ cnConnect /\ connectorConnect(timers)
    \/ /\ connectorState # "kDisconnected" \/ ~cnConnect
       /\ cnFailed' = IF connectorState = "kDisconnected" THEN "no" ELSE "startInLoop"
       /\ retryTimers' = timers
       /\ UNCHANGED <<connectorState, channel, retryDelay, gaveUp>>

CnRuns(name) ==
    /\ cnFailed = "no" /\ cnLoop = "functors" /\ cnBatch # << >> /\ Head(cnBatch) = name
    /\ cnBatch' = Tail(cnBatch)

runStart ==
    /\ CnRuns("startInLoop")
    /\ startInLoop(retryTimers)
    /\ UNCHANGED <<cliVars, cnConnect, cnQueue, cnLoop>>

\* Broken variant: leaves the channel of the attempt watched.
stopInLoopWatched ==
    /\ CnRuns("stopInLoop")
    /\ UNCHANGED <<channel, cnQueue, connectorState, retryTimers, retryDelay>>
    /\ UNCHANGED <<cliVars, cnConnect, cnLoop, gaveUp, cnFailed>>

stopInLoop ==
    /\ CnRuns("stopInLoop")
    /\ IF connectorState = "kConnecting" THEN removeAndResetChannel(cnQueue) /\ retry(retryTimers)
       ELSE UNCHANGED <<channel, cnQueue, connectorState, retryTimers, retryDelay>>
    /\ UNCHANGED <<cliVars, cnConnect, cnLoop, gaveUp, cnFailed>>

resetChannel ==
    /\ CnRuns("resetChannel")
    /\ channel' = "none"
    /\ UNCHANGED <<cliVars, cnConnect, connectorState, retryDelay, retryTimers, cnQueue, cnLoop,
                   gaveUp, cnFailed>>

(* doPendingFunctors() begins, and ends. *)
runFunctors ==
    /\ cnFailed = "no"
    /\ \/ /\ cnLoop = "handled" \/ (cnLoop = "poll" /\ cnQueue # << >>)
          /\ cnLoop' = "functors"
          /\ cnBatch' = cnQueue /\ cnQueue' = << >>
       \/ /\ cnLoop = "functors" /\ cnBatch = << >>
          /\ cnLoop' = "poll"
          /\ UNCHANGED <<cnBatch, cnQueue>>
    /\ UNCHANGED <<cliVars, cnConnect, connectorState, channel, retryDelay, retryTimers, gaveUp,
                   cnFailed>>

(* A handler runs when poll() returns; the functors follow. *)
Polled == cnFailed = "no" /\ cnLoop = "poll"

(* The retry timer, 500 ms later at least: a resetChannel() queued when it was    *)
(* armed has run by then.  It held the connector.                                  *)
retryTimer ==
    /\ Polled /\ retryTimers > 0
    /\ \A i \in DOMAIN cnQueue : cnQueue[i] # "resetChannel"
    /\ startInLoop(retryTimers - 1)
    /\ cnGone' = (tcpClientGone /\ ~hackTimer /\ retryTimers' = 0)
    /\ cnLoop' = "handled"
    /\ UNCHANGED <<clientConnect, tcpConnection, made, tcpClientGone, hackTimer, connects,
                   stops, cnConnect, cnQueue, cnBatch>>

(* The one second timer of ~TcpClient; the functors queued before it have run. *)
hackOver ==
    /\ Polled /\ hackTimer /\ cnQueue = << >>
    /\ hackTimer' = FALSE
    /\ cnGone' = (retryTimers = 0)
    /\ cnFailed' = IF cnGone' /\ channel # "none" THEN "~Connector" ELSE "no"
    /\ cnLoop' = "handled"
    /\ UNCHANGED <<clientConnect, tcpConnection, made, tcpClientGone, connects, stops,
                   cnConnect, connectorState, channel, retryDelay, retryTimers, cnQueue, cnBatch, gaveUp>>

(* handleError, and handleWrite that finds SO_ERROR or a self-connect. *)
handleError ==
    /\ Polled /\ channel = "watched" /\ connectorState = "kConnecting"
    /\ removeAndResetChannel(cnQueue)
    /\ retry(retryTimers)
    /\ cnLoop' = "handled"
    /\ UNCHANGED <<cliVars, cnConnect, cnBatch, gaveUp, cnFailed>>

(* handleWrite on success, up to its test of connect_; without it the socket is  *)
(* closed and state_ stays kConnected.                                            *)
connectorHandleWrite ==
    /\ Polled /\ channel = "watched" /\ connectorState = "kConnecting" /\ made < MaxTcpConns
    /\ removeAndResetChannel(cnQueue)
    /\ connectorState' = "kConnected"
    /\ cnLoop' = IF cnConnect THEN "newConnection" ELSE "handled"
    /\ UNCHANGED <<cliVars, cnConnect, retryDelay, retryTimers, cnBatch, gaveUp, cnFailed>>

(* TcpClient::newConnection, bound to the client. *)
tcpNewConnection ==
    /\ cnFailed = "no" /\ cnLoop = "newConnection"
    /\ IF tcpClientGone
       THEN cnFailed' = "newConnection" /\ UNCHANGED <<tcpConnection, made>>
       ELSE tcpConnection' = TRUE /\ made' = made + 1 /\ UNCHANGED cnFailed
    /\ cnLoop' = "handled"
    /\ UNCHANGED <<clientConnect, tcpClientGone, hackTimer, cnGone, connects, stops, cnConnect,
                   connectorState, channel, retryDelay, retryTimers, cnQueue, cnBatch, gaveUp>>

(* The connection closes: TcpClient::removeConnection, up to its test of retry_   *)
(* and connect_.                                                                   *)
removeConnection ==
    /\ Polled /\ tcpConnection
    /\ tcpConnection' = FALSE
    /\ cnLoop' = IF TcpRetry /\ clientConnect THEN "restart" ELSE "handled"
    /\ UNCHANGED <<clientConnect, made, tcpClientGone, hackTimer, cnGone, connects, stops,
                   cnConnect, connectorState, channel, retryDelay, retryTimers, cnQueue, cnBatch,
                   gaveUp, cnFailed>>

(* Connector::restart, up to startInLoop(), reached through the client. *)
restart ==
    /\ cnFailed = "no" /\ cnLoop = "restart"
    /\ connectorState' = "kDisconnected"
    /\ retryDelay' = kTcpInitRetryDelayMs
    /\ cnConnect' = TRUE
    /\ cnLoop' = IF tcpClientGone THEN "handled" ELSE "start"
    /\ cnFailed' = IF tcpClientGone THEN "restart" ELSE "no"
    /\ UNCHANGED <<cliVars, channel, retryTimers, cnQueue, cnBatch, gaveUp>>

restartStarts ==
    /\ cnFailed = "no" /\ cnLoop = "start"
    /\ startInLoop(retryTimers)
    /\ cnLoop' = "handled"
    /\ UNCHANGED <<cliVars, cnConnect, cnQueue, cnBatch>>

CnFunctors == runStart \/ stopInLoop \/ resetChannel \/ runFunctors
CnHandlers == tcpNewConnection \/ restart \/ restartStarts

CnNext ==
    \/ tcpConnect \/ tcpStop \/ destroyTcpClient
    \/ CnFunctors \/ CnHandlers \/ retryTimer \/ hackOver
    \/ handleError \/ connectorHandleWrite \/ removeConnection

(* The loop thread goes on and comes to its functors. *)
CnFairness == WF_cnVars(CnHandlers) /\ SF_cnVars(CnFunctors)

CnSpec == CnInit /\ [][CnNext]_cnVars /\ CnFairness

-----------------------------------------------------------------------------
QueuedStarts == Cardinality({i \in 1..Len(cnBatch \o cnQueue) : (cnBatch \o cnQueue)[i] = "startInLoop"})
Attempts ==
    QueuedStarts + retryTimers + (IF cnLoop \in {"newConnection", "restart", "start"} THEN 1 ELSE 0)
           + (IF connectorState = "kConnecting" THEN 1 ELSE 0) + (IF tcpConnection THEN 1 ELSE 0)

(* However connecting, retries, stop() and reconnection interleave, a client that  *)
(* called connect() once has one attempt at a time: a start that is queued, a       *)
(* retry timer, a socket being connected or a connection.                           *)
OneTcpAttempt == connects <= 1 /\ cnFailed = "no" => Attempts <= 1

(* A connector that is wanted and not connected has an attempt on the way: no       *)
(* order of errors and stops makes it forget to retry.                              *)
AttemptIsPending ==
    cnConnect /\ ~gaveUp /\ cnFailed = "no" /\ connectorState = "kDisconnected" => Attempts >= 1

(* The asserts of startInLoop, connecting and ~Connector.  The first two can fail   *)
(* only if connect() is called again, after a stop() or not: the timer and the      *)
(* channel of the attempt before may still be there.                                *)
CnAssertsHold ==
    /\ cnFailed \in {"startInLoop", "connecting"} => connects > 1
    /\ cnFailed # "~Connector"

(* stop() and the destructor close a socket that is being connected.               *)
StopUnwatches == (~cnConnect) ~> (channel # "watched" \/ cnConnect \/ cnFailed # "no")

(* One attempt at a time, none forgotten, no assert of the connector fails, and    *)
(* stop() ends the attempt that is under way.                                       *)
ConnectorIsSound == [](OneTcpAttempt /\ AttemptIsPending /\ CnAssertsHold) /\ StopUnwatches
=============================================================================
