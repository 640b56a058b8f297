------------------------------ MODULE Requests ------------------------------
(***************************************************************************)
(* The request/response core of an ADS connection (comm.go): the           *)
(* goroutines that call sendRequest, the transmitWorker goroutine, the     *)
(* listen goroutine, the handleReceive goroutine it starts for every frame *)
(* and the activeRequestLock that callers and handlers share.  The device  *)
(* and the TCP link are the environment.                                   *)
(*                                                                         *)
(* A channel of the code is unbuffered, so a send and its receive are one  *)
(* step of two goroutines.  activeRequests maps an invoke id to a channel  *)
(* made for that id alone: the set of its keys is the whole of it.         *)
(***************************************************************************)
EXTENDS Naturals, FiniteSets

CONSTANTS Callers,    \* goroutines that use the connection
          MaxCalls,   \* bound: requests made over the connection's life
          Refusable,  \* bound: requests that a router may answer instead of the device
          StrayIds    \* InvokeIDs the device uses and this connection never did

InvokeIds == 1 .. MaxCalls
FrameIds  == InvokeIds \cup StrayIds
NoId      == 0

ASSUME CallersAssumption  == IsFiniteSet(Callers)
ASSUME MaxCallsAssumption == MaxCalls \in Nat
ASSUME StrayAssumption    == StrayIds \cap (InvokeIds \cup {NoId}) = {}

VARIABLES
  pc,                 \* pc[c]: where caller c is in sendRequest
  id,                 \* id[c]: the invoke id of the call it is in
  outcome,            \* outcome[i]: how request i stands
  currentRequest,     \* the last invoke id handed out
  activeRequests,     \* keys of the activeRequests map
  activeRequestLock,  \* is the mutex held?
  worker, packet,     \* transmitWorker: its place, the request it holds
  listener,           \* listen: its place in the loop
  handler,            \* handler[i]: the handleReceive goroutine of frame i
  shutdown,           \* conn.ctx is cancelled
  running,            \* the Go runtime has not stopped the process
  connected,          \* the TCP connection is up
  toDevice,           \* requests in the outgoing stream
  executed,           \* requests the device has executed
  refused,            \* requests a router has answered in its stead
  fromDevice          \* answers in the incoming stream

callerVars  == <<pc, id, outcome, currentRequest>>
mapVars     == <<activeRequests, activeRequestLock>>
workerVars  == <<worker, packet>>
receiveVars == <<listener, handler>>
lifeVars    == <<shutdown, running>>
netVars     == <<connected, toDevice, executed, refused, fromDevice>>
vars == <<callerVars, mapVars, workerVars, receiveVars, lifeVars, netVars>>

Places        == {"idle", "lock", "register", "enqueue", "select", "await", "deaf"}
HandlerPlaces == {"none", "start", "deliver"}

FlagsOK == {activeRequestLock, shutdown, running, connected} \subseteq BOOLEAN

TypeOK ==
  /\ FlagsOK
  /\ pc \in [Callers -> Places]
  /\ id \in [Callers -> InvokeIds \cup {NoId}]
  /\ outcome \in [InvokeIds -> {"none", "open", "answer", "error", "empty"}]
  /\ currentRequest \in 0 .. MaxCalls
  /\ activeRequests \subseteq InvokeIds
  /\ worker \in {"receive", "write", "exit"} /\ packet \in InvokeIds \cup {NoId}
  /\ listener \in {"select", "read", "exit"}
  /\ handler \in [FrameIds -> HandlerPlaces]
  /\ toDevice \subseteq InvokeIds
  /\ executed \subseteq InvokeIds /\ refused \subseteq InvokeIds
  /\ fromDevice \subseteq FrameIds

\* The state Connect leaves behind: both workers started, no request made.
Init ==
  /\ pc = [c \in Callers |-> "idle"]
  /\ id = [c \in Callers |-> NoId]
  /\ outcome = [i \in InvokeIds |-> "none"]
  /\ currentRequest = 0
  /\ activeRequests = {} /\ activeRequestLock = FALSE
  /\ worker = "receive" /\ packet = NoId
  /\ listener = "select" /\ handler = [i \in FrameIds |-> "none"]
  /\ shutdown = FALSE /\ running = TRUE
  /\ connected = TRUE /\ toDevice = {} /\ fromDevice = {}
  /\ executed = {} /\ refused = {}

-----------------------------------------------------------------------------
(* sendRequest *)

At(c, place) == running /\ pc[c] = place
Goto(c, place) == pc' = [pc EXCEPT ![c] = place]
Finish(c, how) == /\ Goto(c, "idle")
                  /\ id' = [id EXCEPT ![c] = NoId]
                  /\ outcome' = [outcome EXCEPT ![id[c]] = how]

\* Bound: a caller only enters sendRequest when an id is left for it.
IdLeft == currentRequest + Cardinality({d \in Callers : pc[d] = "lock"}) < MaxCalls

Call(c) ==
  /\ At(c, "idle") /\ IdLeft
  /\ Goto(c, "lock")
  /\ UNCHANGED <<id, outcome, currentRequest, mapVars, workerVars, receiveVars,
                 lifeVars, netVars>>

\* Faulty variants, here and below: what a property would catch.  A lock that
\* does not exclude, and an id that is not new:
LockIgnored == TRUE
ReusedInvokeId == IF currentRequest = 0 THEN 1 ELSE currentRequest

LockFree == ~activeRequestLock
NextInvokeId == currentRequest + 1

\* Lock, take an id, start inserting its channel into the map.
Register(c) ==
  /\ At(c, "lock") /\ LockFree /\ currentRequest < MaxCalls
  /\ Goto(c, "register")
  /\ activeRequestLock' = TRUE
  /\ currentRequest' = NextInvokeId
  /\ id' = [id EXCEPT ![c] = NextInvokeId]
  /\ outcome' = [outcome EXCEPT ![NextInvokeId] = "open"]
  /\ UNCHANGED <<activeRequests, workerVars, receiveVars, lifeVars, netVars>>

\* Faulty: returns with the lock held.
PublishLocked(c) ==
  /\ At(c, "register")
  /\ Goto(c, "enqueue")
  /\ activeRequests' = activeRequests \cup {id[c]}
  /\ UNCHANGED <<id, outcome, currentRequest, activeRequestLock, workerVars, receiveVars,
                 lifeVars, netVars>>

\* The insertion is complete: unlock.
Publish(c) ==
  /\ At(c, "register")
  /\ Goto(c, "enqueue")
  /\ activeRequests' = activeRequests \cup {id[c]}
  /\ activeRequestLock' = FALSE
  /\ UNCHANGED <<id, outcome, currentRequest, workerVars, receiveVars, lifeVars, netVars>>

\* First select, sendChannel case: transmitWorker takes the packet.
Enqueue(c) ==
  /\ At(c, "enqueue") /\ worker = "receive"
  /\ Goto(c, "select")
  /\ worker' = "write" /\ packet' = id[c]
  /\ UNCHANGED <<id, outcome, currentRequest, mapVars, receiveVars, lifeVars, netVars>>

\* First select, ctx.Done case: the 4 s are over or the connection is shut
\* down; the bare return yields a nil response and a nil error.
GiveUpEnqueue(c) ==
  /\ At(c, "enqueue")
  /\ Finish(c, "empty")
  /\ UNCHANGED <<currentRequest, mapVars, workerVars, receiveVars, lifeVars, netVars>>

\* Entering the second select reads activeRequests without the lock.
Select(c) ==
  /\ At(c, "select")
  /\ Goto(c, "await")
  /\ UNCHANGED <<id, outcome, currentRequest, mapVars, workerVars, receiveVars,
                 lifeVars, netVars>>

MapBeingWritten == \E d \in Callers : pc[d] = "register"

\* A read that overlaps an insertion is a data race.  Besides the value it
\* wants it may find no channel (a nil channel is never ready), or the
\* runtime stops the process: "concurrent map read and map write".
RacySelect(c) ==
  /\ At(c, "select") /\ MapBeingWritten
  /\ \/ Goto(c, "deaf") /\ UNCHANGED running
     \/ running' = FALSE /\ UNCHANGED pc
  /\ UNCHANGED <<id, outcome, currentRequest, mapVars, workerVars, receiveVars,
                 shutdown, netVars>>

\* Faulty: the bare return of the first select, in the second.
GiveUpSilently(c) ==
  /\ running /\ pc[c] \in {"await", "deaf"}
  /\ Finish(c, "empty")
  /\ UNCHANGED <<currentRequest, mapVars, workerVars, receiveVars, lifeVars, netVars>>

\* Second select, ctx.Done case.
GiveUpAwait(c) ==
  /\ running /\ pc[c] \in {"await", "deaf"}
  /\ Finish(c, "error")
  /\ UNCHANGED <<currentRequest, mapVars, workerVars, receiveVars, lifeVars, netVars>>

-----------------------------------------------------------------------------
(* transmitWorker *)

\* Faulty: flushes without having been given a packet.
WorkerFlush ==
  /\ running /\ worker # "exit"
  /\ worker' = "receive" /\ packet' = NoId
  /\ toDevice' = IF connected THEN toDevice \cup {packet} ELSE toDevice
  /\ UNCHANGED <<callerVars, mapVars, receiveVars, lifeVars,
                 connected, executed, refused, fromDevice>>

WorkerWrite ==
  /\ running /\ worker = "write"
  /\ worker' = "receive" /\ packet' = NoId
  /\ toDevice' = IF connected THEN toDevice \cup {packet} ELSE toDevice
  /\ UNCHANGED <<callerVars, mapVars, receiveVars, lifeVars,
                 connected, executed, refused, fromDevice>>

WorkerExit ==
  /\ running /\ worker = "receive" /\ shutdown
  /\ worker' = "exit"
  /\ UNCHANGED <<callerVars, mapVars, packet, receiveVars, lifeVars, netVars>>

-----------------------------------------------------------------------------
(* listen, for frames that are not system frames *)

\* Faulty: does not look at the context.
ListenBlindly ==
  /\ running /\ listener = "select"
  /\ listener' = "read"
  /\ UNCHANGED <<callerVars, mapVars, workerVars, handler, lifeVars, netVars>>

ListenSelect ==
  /\ running /\ listener = "select"
  /\ listener' = IF shutdown THEN "exit" ELSE "read"
  /\ UNCHANGED <<callerVars, mapVars, workerVars, handler, lifeVars, netVars>>

\* A frame has been read: drop it if shut down meanwhile, or start its handler.
ListenRead(i) ==
  /\ running /\ listener = "read" /\ i \in fromDevice
  /\ fromDevice' = fromDevice \ {i}
  /\ \/ shutdown  /\ listener' = "exit" /\ UNCHANGED handler
     \/ ~shutdown /\ listener' = "select"
                  /\ handler' = [handler EXCEPT ![i] = "start"]
  /\ UNCHANGED <<callerVars, mapVars, workerVars, lifeVars,
                 connected, toDevice, executed, refused>>

\* A read error starts the loop again, for as long as it takes.
ListenFail ==
  /\ running /\ listener = "read" /\ ~connected /\ fromDevice = {}
  /\ listener' = "select"
  /\ UNCHANGED <<callerVars, mapVars, workerVars, handler, lifeVars, netVars>>

-----------------------------------------------------------------------------
(* handleReceive, for every command but CommandIDDeviceNotification *)

HandlerLock(i) ==
  /\ running /\ handler[i] = "start" /\ LockFree
  /\ activeRequestLock' = (i \in activeRequests)
  /\ handler' = [handler EXCEPT ![i] = IF i \in activeRequests THEN "deliver" ELSE "none"]
  /\ UNCHANGED <<callerVars, activeRequests, workerVars, listener, lifeVars, netVars>>

\* What the caller gets: of a router's refusal, which is in the AMS header,
\* no more than an empty response.
Received(i) == IF i \in refused THEN "empty" ELSE "answer"

\* Faulty: the handler does not return, and keeps the lock.
DeliverOn(c) ==
  /\ At(c, "await") /\ handler[id[c]] = "deliver"
  /\ Finish(c, Received(id[c]))
  /\ UNCHANGED <<currentRequest, mapVars, workerVars, receiveVars, lifeVars, netVars>>

\* The handler's send meets the receive of the second select.
Deliver(c) ==
  /\ At(c, "await") /\ handler[id[c]] = "deliver"
  /\ Finish(c, Received(id[c]))
  /\ handler' = [handler EXCEPT ![id[c]] = "none"]
  /\ activeRequestLock' = FALSE
  /\ UNCHANGED <<currentRequest, activeRequests, workerVars, listener,
                 lifeVars, netVars>>

\* Faulty: does not look at the context.
HandlerStays(i) == FALSE

\* The handler's select, ctx.Done case: only a shutdown cancels its context.
HandlerQuit(i) ==
  /\ running /\ handler[i] = "deliver" /\ shutdown
  /\ handler' = [handler EXCEPT ![i] = "none"]
  /\ activeRequestLock' = FALSE
  /\ UNCHANGED <<callerVars, activeRequests, workerVars, listener, lifeVars, netVars>>

-----------------------------------------------------------------------------
(* Environment *)

\* conn.ctx is cancelled, by Close or through the context NewConnection got.
Shutdown ==
  /\ running /\ ~shutdown
  /\ shutdown' = TRUE
  /\ UNCHANGED <<callerVars, mapVars, workerVars, receiveVars, running, netVars>>

\* The device deals with a request, even if only to say that it cannot do what
\* is asked, and answers it: at any time, in any order.
DeviceAnswer(i) ==
  /\ connected /\ i \in toDevice
  /\ toDevice' = toDevice \ {i}
  /\ executed' = executed \cup {i}
  /\ fromDevice' = fromDevice \cup {i}
  /\ UNCHANGED <<callerVars, mapVars, workerVars, receiveVars, lifeVars, connected, refused>>

\* A router on the way answers instead: the device never sees the request.
RouterRefuses(i) ==
  /\ connected /\ i \in toDevice \cap Refusable
  /\ toDevice' = toDevice \ {i}
  /\ refused' = refused \cup {i}
  /\ fromDevice' = fromDevice \cup {i}
  /\ UNCHANGED <<callerVars, mapVars, workerVars, receiveVars, lifeVars, connected, executed>>

\* Bound: one frame at a time with an InvokeID this connection never used.
DeviceStray(i) ==
  /\ connected /\ i \notin fromDevice /\ handler[i] = "none"
  /\ fromDevice' = fromDevice \cup {i}
  /\ UNCHANGED <<callerVars, mapVars, workerVars, receiveVars, lifeVars,
                 connected, toDevice, executed, refused>>

\* The link breaks.  The device may already have executed some of what was
\* on its way to it; some of the answers are in the receive buffer already.
LinkDown ==
  /\ connected
  /\ connected' = FALSE
  /\ toDevice' = {}
  /\ \E S \in SUBSET toDevice : executed' = executed \cup S
  /\ fromDevice' \in SUBSET fromDevice
  /\ UNCHANGED <<callerVars, mapVars, workerVars, receiveVars, lifeVars, refused>>

\* The Wait of Close, let go when the counter was zero, panics if it finds that
\* a call has raised it again: "WaitGroup is reused before previous Wait has
\* returned".
WaitPanics ==
  /\ running /\ shutdown /\ worker = "exit" /\ \E c \in Callers : pc[c] # "idle"
  /\ running' = FALSE
  /\ UNCHANGED <<callerVars, mapVars, workerVars, receiveVars, shutdown, netVars>>

\* The steps of a call that has its invoke id.
Proceed(c)    == \/ Publish(c) \/ Enqueue(c) \/ GiveUpEnqueue(c) \/ Select(c)
                 \/ RacySelect(c) \/ GiveUpAwait(c) \/ Deliver(c)
CallerStep(c) == Call(c) \/ Register(c) \/ Proceed(c)
WorkerStep    == WorkerWrite \/ WorkerExit
ListenStep    == ListenSelect \/ ListenFail \/ \E i \in FrameIds : ListenRead(i)
HandlerStep   == \E i \in FrameIds : HandlerLock(i) \/ HandlerQuit(i)
DeviceStep    == \/ LinkDown
                 \/ \E i \in InvokeIds : DeviceAnswer(i) \/ RouterRefuses(i)
                 \/ \E i \in StrayIds  : DeviceStray(i)

Background == WorkerStep \/ ListenStep \/ HandlerStep \/ DeviceStep
Next == (\E c \in Callers : CallerStep(c)) \/ Background \/ Shutdown \/ WaitPanics

Spec == Init /\ [][Next]_vars

-----------------------------------------------------------------------------
(* Fairness.  Goroutines that can run do run; the 4 s timer of sendRequest  *)
(* fires; a frame or an error ends a pending read.  sync.Mutex hands itself *)
(* to a waiter that has lost it for 1 ms, hence strong fairness on locking. *)
(* Nothing is assumed of callers, of the device or of the link: a write to  *)
(* a peer that does not read may block for ever.                            *)

CallFairness(c) == /\ WF_vars(Publish(c)) /\ WF_vars(Select(c)) /\ WF_vars(Deliver(c))
                   /\ WF_vars(GiveUpEnqueue(c)) /\ WF_vars(GiveUpAwait(c))

BackgroundFairness ==
  /\ \A i \in FrameIds : SF_vars(HandlerLock(i)) /\ WF_vars(HandlerQuit(i))
  /\ WF_vars(WorkerExit) /\ WF_vars(ListenStep)

-----------------------------------------------------------------------------
(* Properties *)

InCall(c) == pc[c] \notin {"idle", "lock"}

\* A handler holds the lock to deliver an answer nobody is there to take.
Waiting(i) == \E c \in Callers : id[c] = i /\ pc[c] \in {"select", "await"}
Orphan(i)  == handler[i] = "deliver" /\ ~Waiting(i)
Orphaned   == \E i \in FrameIds : Orphan(i)

\* activeRequestLock is held by one goroutine at most, caller or handler,
\* and is free when none of them is between Lock and Unlock.
LockExclusive ==
  /\ activeRequestLock <=> \/ \E c \in Callers : pc[c] = "register"
                           \/ \E i \in FrameIds : handler[i] = "deliver"
  /\ \A c, d \in Callers : pc[c] = "register" /\ pc[d] = "register" => c = d
  /\ \A i, j \in FrameIds : handler[i] = "deliver" /\ handler[j] = "deliver" => i = j
  /\ \A c \in Callers, i \in FrameIds : ~(pc[c] = "register" /\ handler[i] = "deliver")

\* Two calls under way never share an invoke id, so that an answer can only
\* reach the call it answers.
DistinctIds == \A c, d \in Callers : InCall(c) /\ InCall(d) /\ id[c] = id[d] => c = d

\* A handler still at work on an answer serves a call that is under way or
\* that has given up waiting: never one already answered, never one whose
\* request was not sent.
OrphansAreAbandoned ==
  \A i \in InvokeIds : handler[i] # "none" \/ i \in fromDevice
                         => outcome[i] \in {"open", "error"}

\* "List of active requests that waits a response" (connection.go:33): every
\* key of the map is the id of a call under way.
ActiveRequestsWait == activeRequests \subseteq {id[c] : c \in Callers}

\* The inductive invariant the proofs rest on.  Who is in a call, and how
\* requests stand:
CallsAreOpen ==
  \A c \in Callers : IF InCall(c) THEN /\ id[c] \in 1 .. currentRequest
                                      /\ outcome[id[c]] = "open"
                                 ELSE id[c] = NoId

IdsInOrder == \A i \in InvokeIds : outcome[i] = "none" <=> i > currentRequest

\* A request is with its caller, the worker, the stream, and the device or a
\* router, in that order and never in two places; none of those left with the
\* caller has been given up on.
WorkerHolds == worker = "write" <=> packet # NoId
UnsentWithCaller ==
  \A c \in Callers : pc[c] \in {"register", "enqueue"}
                       => id[c] \notin toDevice \cup executed \cup refused \cup {packet}
OnTheWay == /\ packet \notin toDevice \cup executed \cup refused
            /\ toDevice \cap (executed \cup refused) = {} /\ executed \cap refused = {}
            /\ \A i \in InvokeIds : i \in toDevice \cup {packet} => outcome[i] \in {"open", "error"}
ExecutedWasSent == /\ \A i \in executed : outcome[i] \in {"open", "answer", "error"}
                   /\ \A i \in refused  : outcome[i] \in {"open", "empty", "error"}

\* An answer is in the stream or with its handler, and is the device's or a
\* router's.
Answered ==
  /\ \A i \in FrameIds  : i \in fromDevice => handler[i] = "none"
  /\ \A i \in InvokeIds : i \in fromDevice \/ handler[i] # "none" => i \in executed \cup refused

Inv == /\ TypeOK /\ LockExclusive /\ DistinctIds /\ OrphansAreAbandoned
       /\ CallsAreOpen /\ IdsInOrder /\ WorkerHolds /\ UnsentWithCaller
       /\ OnTheWay /\ ExecutedWasSent /\ Answered

\* The implementation keeps the promises of RequestService.
Service == INSTANCE RequestService
             WITH InvokeIds <- InvokeIds, outcome <- outcome, executed <- executed
KeepsPromises == Service!ServiceSpec

\* As long as an orphan holds the lock no goroutine gets an invoke id and
\* only a shutdown makes the orphan let go.
OrphanBlocksNewCalls ==
  [][Orphaned => /\ currentRequest' = currentRequest
                 /\ activeRequestLock' \/ shutdown]_vars

\* sendRequest returns in the end, unless the answer to a call that gave up
\* arrived late and its handler is blocked with the lock.
CallsReturnUnlessOrphaned ==
  \A c \in Callers : pc[c] # "idle" ~> (pc[c] = "idle" \/ Orphaned \/ ~running)

\* Once the connection's context is cancelled every call returns, and the
\* transmitWorker ends if it is not blocked for ever in a write to the peer.
ShutdownDrains ==
  /\ \A c \in Callers : shutdown /\ pc[c] # "idle" ~> (pc[c] = "idle" \/ ~running)
  /\ shutdown ~> (worker = "exit" \/ [](worker = "write") \/ ~running)
=============================================================================
