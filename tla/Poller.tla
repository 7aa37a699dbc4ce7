------------------------------- MODULE Poller --------------------------------
(***************************************************************************)
(* Channels and the poller of one event loop: PollPoller, EPollPoller and    *)
(* the SelectPoller of the Windows build, with the part of EventLoop that    *)
(* polls, walks the active channels and calls Channel::handleEvent.          *)
(*                                                                          *)
(* A channel is named by its fd.  The callbacks of a channel, and the        *)
(* functors that run between polls, call the methods of any channel: each    *)
(* call is one step here.  The asserts on who may call remove() and destroy  *)
(* a channel, and when, are the callers' contract and guard those calls; the *)
(* asserts inside the pollers are about the pollers' own data and are        *)
(* checked: `pollerFailed` records the first that fails, and ends the        *)
(* behaviour.  `enabled` of a channel records that it once had an event.      *)
(***************************************************************************)
EXTENDS Integers, Sequences, FiniteSets, SequencesExt

CONSTANTS
    Fds,               \* a finite set of naturals
    PollerKinds,       \* a subset of {"poll", "epoll", "select"}
    Reports,           \* the sets of revents the kernel is made to report
    kInitEventListSize,\* 16 in the code
    TiedFds            \* the channels whose owner called tie()

VARIABLES kind, chan, pollfds, channels, epollSet, eventsSize,
          activeChannels, currentActive, callbacks, pollerFailed

pollerVars == <<kind, chan, pollfds, channels, epollSet, eventsSize,
                activeChannels, currentActive, callbacks, pollerFailed>>

None == -1
Interests == SUBSET {"read", "write"}

(* kReadEvent = POLLIN | POLLPRI, kWriteEvent = POLLOUT. *)
kNew == -1
kAdded == 1
kDeleted == 2

NoChannel == [alive |-> FALSE, events |-> {}, index |-> -1, enabled |-> FALSE,
              added |-> FALSE, removed |-> FALSE, dropped |-> FALSE]

PollerInit ==
    /\ kind \in PollerKinds
    /\ chan = [fd \in Fds |-> NoChannel]
    /\ pollfds = << >>
    /\ channels = {}
    /\ epollSet = << >>
    /\ eventsSize = kInitEventListSize
    /\ activeChannels = << >>
    /\ currentActive = None
    /\ callbacks = << >>
    /\ pollerFailed = FALSE

-----------------------------------------------------------------------------
(* The pollers.  A poller is a record of its data; `ok` is FALSE once an     *)
(* assert failed.  index() is an index from 0, so entry i is pollfds[i + 1]. *)

ThisPoller == [fds |-> pollfds, map |-> channels, epoll |-> epollSet,
               chan |-> chan, ok |-> TRUE]

Negated(fd) == -fd - 1

PollAdd(p, fd) ==
    [p EXCEPT !.fds = Append(@, [fd |-> fd, events |-> p.chan[fd].events]),
              !.chan[fd].index = Len(p.fds),
              !.map = @ \union {fd},
              !.ok = fd \notin p.map]

(* The asserts of the update of an existing entry. *)
PollEntryFound(p, fd) ==
    LET idx == p.chan[fd].index
    IN  /\ fd \in p.map
        /\ 0 <= idx /\ idx < Len(p.fds)
        /\ p.fds[idx + 1].fd \in {fd, Negated(fd)}

PollUpdate(p, fd) ==
    LET ev  == p.chan[fd].events
        at  == p.chan[fd].index + 1
    IN  IF p.chan[fd].index < 0 THEN PollAdd(p, fd)
        ELSE IF ~PollEntryFound(p, fd) THEN [p EXCEPT !.ok = FALSE]
        ELSE [p EXCEPT !.fds[at] = [fd |-> IF ev = {} THEN Negated(fd) ELSE fd,
                                    events |-> ev]]

(* SelectPoller writes the fd back only to negate it. *)
SelectUpdate(p, fd) ==
    LET ev  == p.chan[fd].events
        at  == p.chan[fd].index + 1
    IN  IF p.chan[fd].index < 0 THEN PollAdd(p, fd)
        ELSE IF ~PollEntryFound(p, fd) THEN [p EXCEPT !.ok = FALSE]
        ELSE [p EXCEPT !.fds[at] =
                  [fd |-> IF ev = {} THEN Negated(fd) ELSE @.fd, events |-> ev]]

\* Broken variant: the entry that moved keeps its old index.
PollRemoveStale(p, fd) ==
    LET idx  == p.chan[fd].index
        last == p.fds[Len(p.fds)]
        gone == [p EXCEPT !.map = @ \ {fd}, !.fds = Front(@)]
    IN  IF ~PollEntryFound(p, fd) \/ p.fds[idx + 1].fd # Negated(fd)
        THEN [p EXCEPT !.ok = FALSE]
        ELSE IF idx = Len(p.fds) - 1 THEN gone
        ELSE [gone EXCEPT !.fds[idx + 1] = last]

(* The last entry takes the place of the removed one. *)
PollRemove(p, fd) ==
    LET idx  == p.chan[fd].index
        last == p.fds[Len(p.fds)]
        end  == IF last.fd < 0 THEN Negated(last.fd) ELSE last.fd
        gone == [p EXCEPT !.map = @ \ {fd}, !.fds = Front(@)]
    IN  IF ~PollEntryFound(p, fd) \/ p.fds[idx + 1].fd # Negated(fd)
        THEN [p EXCEPT !.ok = FALSE]
        ELSE IF idx = Len(p.fds) - 1 THEN gone
        ELSE [gone EXCEPT !.fds[idx + 1] = last, !.chan[end].index = idx]

SelectRemove(p, fd) == PollRemove(p, fd)

(* epoll_ctl; ADD of a member and MOD or DEL of a stranger are errors. *)
EpollCtl(op, p, fd) ==
    LET in == fd \in DOMAIN p.epoll
        set(S) == [g \in S |-> IF g = fd THEN p.chan[fd].events ELSE p.epoll[g]]
    IN  CASE op = "ADD" -> [p EXCEPT !.epoll = set(DOMAIN @ \union {fd}),
                                     !.ok = @ /\ ~in]
          [] op = "MOD" -> [p EXCEPT !.epoll = set(DOMAIN @), !.ok = @ /\ in]
          [] op = "DEL" -> [p EXCEPT !.epoll = [g \in DOMAIN @ \ {fd} |-> @[g]],
                                     !.ok = @ /\ in]

\* Broken variant: a channel without events stays registered as it was.
EpollUpdateKept(p, fd) ==
    LET index == p.chan[fd].index
    IN  IF index \in {kNew, kDeleted}
        THEN EpollCtl("ADD",
                      [p EXCEPT !.map = @ \union {fd}, !.chan[fd].index = kAdded,
                                !.ok = (fd \in p.map) = (index = kDeleted)], fd)
        ELSE IF p.chan[fd].events = {} THEN p
        ELSE EpollCtl("MOD", [p EXCEPT !.ok = fd \in p.map], fd)

EpollUpdate(p, fd) ==
    LET index == p.chan[fd].index
    IN  IF index \in {kNew, kDeleted}
        THEN EpollCtl("ADD",
                      [p EXCEPT !.map = @ \union {fd}, !.chan[fd].index = kAdded,
                                !.ok = (fd \in p.map) = (index = kDeleted)], fd)
        ELSE IF p.chan[fd].events = {}
        THEN EpollCtl("DEL", [p EXCEPT !.chan[fd].index = kDeleted,
                                       !.ok = fd \in p.map], fd)
        ELSE EpollCtl("MOD", [p EXCEPT !.ok = fd \in p.map], fd)

EpollRemove(p, fd) ==
    LET index == p.chan[fd].index
        gone  == [p EXCEPT !.map = @ \ {fd}, !.chan[fd].index = kNew,
                           !.ok = fd \in p.map /\ index \in {kAdded, kDeleted}]
    IN  IF index = kAdded THEN EpollCtl("DEL", gone, fd) ELSE gone

updateChannel(p, fd) ==
    CASE kind = "poll"   -> PollUpdate(p, fd)
      [] kind = "select" -> SelectUpdate(p, fd)
      [] kind = "epoll"  -> EpollUpdate(p, fd)

removeChannel(p, fd) ==
    CASE kind = "poll"   -> PollRemove(p, fd)
      [] kind = "select" -> SelectRemove(p, fd)
      [] kind = "epoll"  -> EpollRemove(p, fd)

PollerBecomes(p) ==
    /\ pollfds' = p.fds
    /\ channels' = p.map
    /\ epollSet' = p.epoll
    /\ chan' = p.chan
    /\ pollerFailed' = ~p.ok

-----------------------------------------------------------------------------
(* Channel. *)

LoopUnchanged == UNCHANGED <<kind, eventsSize, activeChannels, currentActive, callbacks>>

(* User code runs: a callback of the current channel, or, between two polls,  *)
(* a functor.                                                                  *)
Calling == ~pollerFailed /\ (activeChannels = << >> \/ callbacks # << >>)

(* A channel made for a fresh fd. *)
Channel(fd) ==
    /\ Calling /\ ~chan[fd].alive
    /\ chan' = [chan EXCEPT ![fd] = [NoChannel EXCEPT !.alive = TRUE]]
    /\ UNCHANGED <<pollfds, channels, epollSet, pollerFailed>>
    /\ LoopUnchanged

(* Every user of Channel is done with it once it is removed: it makes a new   *)
(* one.  PollPoller depends on that, it leaves a stale index() behind.        *)
Usable(fd) == chan[fd].alive /\ ~chan[fd].removed

(* enableReading and its five companions: new events_, then update().  A       *)
(* channel may be disabled that never was enabled: ~Acceptor and ~UdpAcceptor   *)
(* do so when listen() was not called.                                          *)
SetEvents(fd, events) ==
    /\ Calling /\ Usable(fd)
    /\ events # chan[fd].events \/ events = {}
    /\ PollerBecomes(
           updateChannel([ThisPoller EXCEPT !.chan[fd].events = events,
                                            !.chan[fd].enabled = @ \/ events # {},
                                            !.chan[fd].added = TRUE], fd))
    /\ LoopUnchanged

(* Channel::remove and EventLoop::removeChannel. *)
remove(fd) ==
    /\ Calling /\ Usable(fd)
    /\ chan[fd].added /\ chan[fd].events = {}
    /\ activeChannels # << >> =>
           currentActive = fd \/ \A i \in DOMAIN activeChannels : activeChannels[i].fd # fd
    /\ PollerBecomes(removeChannel([ThisPoller EXCEPT !.chan[fd].added = FALSE,
                                                      !.chan[fd].removed = TRUE], fd))
    /\ UNCHANGED <<kind, eventsSize, activeChannels, currentActive, callbacks>>

\* Broken variant: the owner goes in its own handler, tied or not.
DropUntied(fd) ==
    /\ Calling /\ chan[fd].alive /\ ~chan[fd].dropped /\ ~chan[fd].added
    /\ chan' = [chan EXCEPT ![fd] = NoChannel]
    /\ UNCHANGED <<pollfds, channels, epollSet, pollerFailed>>
    /\ LoopUnchanged

(* The last reference to the owner goes: ~Channel, unless handleEvent holds   *)
(* the tie.  An untied channel is not destroyed in its own handler.           *)
Drop(fd) ==
    /\ Calling /\ chan[fd].alive /\ ~chan[fd].dropped /\ ~chan[fd].added
    /\ currentActive = fd => fd \in TiedFds
    /\ chan' = IF currentActive = fd THEN [chan EXCEPT ![fd].dropped = TRUE]
                                     ELSE [chan EXCEPT ![fd] = NoChannel]
    /\ UNCHANGED <<pollfds, channels, epollSet, pollerFailed>>
    /\ LoopUnchanged

-----------------------------------------------------------------------------
(* EventLoop::loop: poll, then the active channels, one after another.        *)

(* What the kernel watches for the poller: a function from fd to events.      *)
PollWatched ==
    [fd \in {pollfds[i].fd : i \in DOMAIN pollfds} \ {Negated(f) : f \in Fds} |->
        pollfds[CHOOSE i \in DOMAIN pollfds : pollfds[i].fd = fd].events]

(* select() fails as a whole when one of its descriptors is not a socket.     *)
SelectWatched ==
    IF \E i \in DOMAIN pollfds : pollfds[i].fd < 0 THEN << >> ELSE PollWatched

Watched ==
    CASE kind = "poll" -> PollWatched
      [] kind = "select" -> SelectWatched
      [] kind = "epoll" -> epollSet

(* The kernel reports errors and hang-ups unasked. *)
MayReport(events) ==
    {r \in Reports : \A e \in r : /\ e = "in" => "read" \in events
                                  /\ e = "out" => "write" \in events
                                  /\ kind = "select" => e # "hup"}

(* The order in which the descriptors are looked at. *)
Order == IF kind = "epoll" THEN SetToSeq(DOMAIN epollSet)
         ELSE [i \in DOMAIN pollfds |-> pollfds[i].fd]

(* set_revents on each channel that is ready, and the list of them. *)
FillActive(ready) ==
    /\ LET fds == SelectSeq(Order, LAMBDA fd : fd \in DOMAIN ready)
       IN  activeChannels' = [i \in DOMAIN fds |-> [fd |-> fds[i], revents |-> ready[fds[i]]]]
    /\ pollerFailed' = ~(DOMAIN ready \subseteq channels)

poll ==
    /\ ~pollerFailed /\ activeChannels = << >> /\ currentActive = None
    /\ \E fds \in SUBSET DOMAIN Watched \ {{}} :
       /\ kind = "epoll" => Cardinality(fds) <= eventsSize
       /\ \E ready \in [fds -> Reports] :
            /\ \A fd \in fds : ready[fd] \in MayReport(Watched[fd])
            /\ FillActive(ready)
       /\ eventsSize' = IF kind = "epoll" /\ Cardinality(fds) = eventsSize
                        THEN 2 * eventsSize ELSE eventsSize
    /\ UNCHANGED <<kind, chan, pollfds, channels, epollSet, currentActive, callbacks>>

(* The callbacks handleEventWithGuard makes for these revents, in its order.  *)
CallbacksFor(revents) ==
    SelectSeq(<<"close", "error", "read", "write">>,
              LAMBDA c : CASE c = "close" -> "hup" \in revents /\ "in" \notin revents
                           [] c = "error" -> "err" \in revents
                           [] c = "read" -> "in" \in revents
                           [] c = "write" -> "out" \in revents)

handleEvent ==
    /\ ~pollerFailed /\ currentActive = None /\ activeChannels # << >>
    /\ currentActive' = Head(activeChannels).fd
    /\ callbacks' = CallbacksFor(Head(activeChannels).revents)
    /\ UNCHANGED <<kind, chan, pollfds, channels, epollSet, eventsSize,
                   activeChannels, pollerFailed>>

(* One callback returns; its calls on channels are the steps before this one. *)
Callback ==
    /\ ~pollerFailed
    /\ currentActive # None /\ callbacks # << >>
    /\ callbacks' = Tail(callbacks)
    /\ UNCHANGED <<kind, chan, pollfds, channels, epollSet, eventsSize,
                   activeChannels, currentActive, pollerFailed>>

(* handleEvent returns and lets the tie go. *)
HandlerReturns ==
    /\ ~pollerFailed
    /\ currentActive # None /\ callbacks = << >>
    /\ activeChannels' = Tail(activeChannels)
    /\ currentActive' = None
    /\ chan' = IF chan[currentActive].dropped
               THEN [chan EXCEPT ![currentActive] = NoChannel] ELSE chan
    /\ UNCHANGED <<kind, pollfds, channels, epollSet, eventsSize, callbacks, pollerFailed>>

PollerNext ==
    \/ \E fd \in Fds : \/ Channel(fd)
                       \/ \E events \in Interests : SetEvents(fd, events)
                       \/ remove(fd)
                       \/ Drop(fd)
    \/ poll \/ handleEvent \/ Callback \/ HandlerReturns

PollerSpec == PollerInit /\ [][PollerNext]_pollerVars

-----------------------------------------------------------------------------
(* The asserts of updateChannel, removeChannel and fillActiveChannels, and     *)
(* the success of every epoll_ctl: the poller's list, map and indices agree,   *)
(* however channels come, go and swap places.  The one that can fail is         *)
(* removeChannel of the poll and select pollers: they add a channel that is     *)
(* disabled before it was ever enabled with its descriptor as it is, and        *)
(* expect it negated (PollPoller.cc:124, SelectPoller.cc:143).                   *)
PollerAssertsHold ==
    pollerFailed => /\ kind # "epoll"
                    /\ \E fd \in Fds : chan[fd].removed /\ ~chan[fd].enabled

(* The kernel watches each added channel for exactly its events_, and nothing *)
(* else.  For the SelectPoller, which never restores a negated descriptor,    *)
(* this is so while no entry is negated.                                       *)
WatchesEnabled ==
    (kind # "select" \/ \A i \in DOMAIN pollfds : pollfds[i].fd >= 0)
    => LET wanted == {fd \in Fds : chan[fd].added /\ chan[fd].events # {}}
       IN  /\ DOMAIN Watched \intersect {fd \in DOMAIN Watched : Watched[fd] # {}}
                  = wanted
           /\ \A fd \in wanted : Watched[fd] = chan[fd].events

(* No channel of the list being walked is destroyed before its turn, and none *)
(* while its own handler runs: handleEvent is never called on a dead channel. *)
ActiveIsAlive ==
    \A i \in DOMAIN activeChannels : chan[activeChannels[i].fd].alive

(* The pollers' bookkeeping: its asserts hold but for the removal of a channel that *)
(* was never enabled; until then the kernel watches what the channels ask for, and    *)
(* no handler is called on a destroyed channel.                                       *)
PollerIsSound ==
    /\ PollerAssertsHold
    /\ ~pollerFailed => WatchesEnabled /\ ActiveIsAlive
=============================================================================
