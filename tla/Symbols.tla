------------------------------ MODULE Symbols ------------------------------
(***************************************************************************)
(* Reading, writing and subscribing to symbols (ads.go), and the           *)
(* notifications that come back (commandDeviceNotification.go).  Callers   *)
(* and notification handlers share symbolLock, which a caller holds across *)
(* a request to the device and a handler across a send to the subscriber.  *)
(*                                                                         *)
(* A request is what RequestService says of it: executed at most once,     *)
(* before or after its caller gives up on it, or never sent.  The values   *)
(* of symbols are left out.                                                *)
(***************************************************************************)
EXTENDS Naturals, Sequences, FiniteSets

CONSTANTS Users,        \* goroutines that use symbols; each has an update channel
          Dedicated,    \*   those of them with a goroutine that only receives updates
          Names,        \* names users ask for
          Uploaded,     \*   those of them that the symbol upload gave
          MaxHandles,   \* bound: handles the device hands out for one symbol
          MaxSubs,      \* bound: notification handles the device hands out
          MaxFrames     \* bound: notification frames the device sends

ASSUME UsersAssumption == IsFiniteSet(Users)
ASSUME UploadedAssumption == Uploaded \subseteq Names
ASSUME DedicatedAssumption == Dedicated \subseteq Users
ASSUME BoundsAssumption == MaxHandles \in Nat /\ MaxSubs \in Nat /\ MaxFrames \in Nat

None   == 0
ASSUME NoneAssumption == None \notin Users \cup Names

Subs   == 1 .. MaxSubs
Frames == 1 .. MaxFrames
Kinds  == {"read", "write", "subscribe"}

VARIABLES
  pc, kind, name,       \* where each user is in which call, on which symbol
  request,              \* how its request stands at the device
  newSub,               \* the notification handle it was given
  symbolLock,           \* is the mutex held?
  hasHandle,            \* symbols with Handle # 0
  activeNotifications,  \* which symbol each notification handle is for
  receiver,             \* the channel in symbol.Notification
  frame, sending,       \* samples left in each frame, the frame being delivered
  shutdown, running,    \* conn.ctx is cancelled; the process has not panicked
  handles,              \* the device: handles it holds for each symbol
  subscribed,           \*   the symbol of each notification handle
  abandoned,            \*   requests to it that were given up on
  gaveUp                \* history: requests for handles that returned an error

callVars   == <<pc, kind, name, request, newSub>>
symbolVars == <<hasHandle, activeNotifications, receiver>>
noteVars   == <<frame, sending>>
lifeVars   == <<shutdown, running>>
deviceVars == <<handles, subscribed, abandoned, gaveUp>>
vars == <<callVars, symbolLock, symbolVars, noteVars, lifeVars, deviceVars>>

Places == {"idle", "get", "ask", "use", "failed", "transfer", "add", "record"}

TypeOK ==
  /\ pc \in [Users -> Places] /\ kind \in [Users -> Kinds \cup {"none"}]
  /\ name \in [Users -> Names \cup {None}]
  /\ request \in [Users -> {"none", "sent", "executed"}]
  /\ newSub \in [Users -> Subs \cup {None}]
  /\ symbolLock \in BOOLEAN /\ shutdown \in BOOLEAN /\ running \in BOOLEAN
  /\ hasHandle \subseteq Uploaded
  /\ activeNotifications \in [Subs -> Names \cup {None}]
  /\ receiver \in [Names -> Users \cup {None}]
  /\ frame \in [Frames -> Seq(Subs)] /\ sending \in Frames \cup {None}
  /\ handles \in [Names -> 0 .. MaxHandles]
  /\ subscribed \in [Subs -> Names \cup {None}]
  /\ abandoned \subseteq {"ask", "add"} \X Names
  /\ gaveUp \subseteq {"ask", "add"} \X Names

\* After Connect: symbols are known by name, nothing has a handle.
Init ==
  /\ pc = [u \in Users |-> "idle"] /\ kind = [u \in Users |-> "none"]
  /\ name = [u \in Users |-> None]
  /\ request = [u \in Users |-> "none"] /\ newSub = [u \in Users |-> None]
  /\ symbolLock = FALSE /\ shutdown = FALSE /\ running = TRUE
  /\ hasHandle = {}
  /\ activeNotifications = [n \in Subs |-> None] /\ receiver = [s \in Names |-> None]
  /\ frame = [f \in Frames |-> <<>>] /\ sending = None
  /\ handles = [s \in Names |-> 0] /\ subscribed = [n \in Subs |-> None]
  /\ abandoned = {} /\ gaveUp = {}

-----------------------------------------------------------------------------
(* Requests *)

At(u, place)   == running /\ pc[u] = place
Goto(u, place) == pc' = [pc EXCEPT ![u] = place]
Return(u)      == /\ Goto(u, "idle") /\ kind' = [kind EXCEPT ![u] = "none"]
                  /\ name' = [name EXCEPT ![u] = None]
Send(u)        == request' = [request EXCEPT ![u] = "sent"]
Over(u)        == request' = [request EXCEPT ![u] = "none"]

\* How a request may return, by RequestService and the command that made it.
Answer(u) == request[u] = "executed" /\ Over(u)
GiveUp(u) == request[u] # "none" /\ Over(u)     \* timed out or refused: an error
Unsent(u) == request[u] = "sent" /\ Over(u)     \* never sent: no data and no error

\* What was given up on and not executed yet may be executed later.
Abandon(u, what) ==
  /\ gaveUp' = gaveUp \cup {<<what, name[u]>>}
  /\ abandoned' = IF request[u] = "sent" THEN abandoned \cup {<<what, name[u]>>} ELSE abandoned

\* Faulty variant: a lock that does not exclude.
LockIgnored == TRUE

LockFree == ~symbolLock
Lock     == LockFree /\ symbolLock' = TRUE
Unlock   == symbolLock' = FALSE

-----------------------------------------------------------------------------
(* ReadFromSymbol, WriteToSymbol, AddSymbolNotification *)

Call(u) ==
  /\ At(u, "idle") /\ Goto(u, "get")
  /\ \E k \in Kinds, s \in Names : /\ kind' = [kind EXCEPT ![u] = k]
                                  /\ name' = [name EXCEPT ![u] = s]
  /\ UNCHANGED <<request, newSub, symbolLock, symbolVars, noteVars, lifeVars, deviceVars>>

\* What a call does when GetSymbol returns an error.
AfterError(u) == \/ kind[u] = "subscribe" /\ Return(u)
                 \/ kind[u] # "subscribe" /\ Goto(u, "failed") /\ UNCHANGED <<kind, name>>

\* GetSymbol of a name that is not a symbol.
GetMissing(u) ==
  /\ At(u, "get") /\ LockFree /\ name[u] \notin Uploaded
  /\ AfterError(u)
  /\ UNCHANGED <<request, newSub, symbolLock, symbolVars, noteVars, lifeVars, deviceVars>>

\* GetSymbol of a symbol that has its handle.
GetKnown(u) ==
  /\ At(u, "get") /\ LockFree /\ name[u] \in hasHandle
  /\ Goto(u, "use")
  /\ UNCHANGED <<kind, name, request, newSub, symbolLock, symbolVars, noteVars, lifeVars, deviceVars>>

\* Faulty: does not look whether the name is a symbol.
GetAnything(u) ==
  /\ At(u, "get") /\ Lock /\ name[u] \notin hasHandle
  /\ Goto(u, "ask") /\ Send(u)
  /\ UNCHANGED <<kind, name, newSub, symbolVars, noteVars, lifeVars, deviceVars>>

\* GetSymbol of a symbol that has none: ask the device, with the lock held.
GetUnknown(u) ==
  /\ At(u, "get") /\ Lock /\ name[u] \in Uploaded \ hasHandle
  /\ Goto(u, "ask") /\ Send(u)
  /\ UNCHANGED <<kind, name, newSub, symbolVars, noteVars, lifeVars, deviceVars>>

\* Faulty: the handle is not stored in the symbol.
ForgetHandle(u) ==
  /\ At(u, "ask") /\ Answer(u)
  /\ Goto(u, "use") /\ Unlock
  /\ UNCHANGED <<kind, name, newSub, symbolVars, noteVars, lifeVars, deviceVars>>

GotHandle(u) ==
  /\ At(u, "ask") /\ Answer(u)
  /\ Goto(u, "use") /\ Unlock
  /\ hasHandle' = hasHandle \cup {name[u]}
  /\ UNCHANGED <<kind, name, newSub, activeNotifications, receiver, noteVars, lifeVars, deviceVars>>

\* A device that may still execute the request keeps a handle nobody knows.
NoHandle(u) ==
  /\ At(u, "ask") /\ GiveUp(u)
  /\ AfterError(u) /\ Unlock
  /\ Abandon(u, "ask")
  /\ UNCHANGED <<newSub, symbolVars, noteVars, lifeVars, handles, subscribed>>

\* Uint32 of the response that never came: the process panics.
NoResponse(u) ==
  /\ At(u, "ask") /\ Unsent(u)
  /\ running' = FALSE
  /\ UNCHANGED <<pc, kind, name, newSub, symbolLock, symbolVars, noteVars, shutdown, deviceVars>>

\* Reading and writing take the lock again to find that GetSymbol failed.
Fail(u) ==
  /\ At(u, "failed") /\ LockFree
  /\ Return(u)
  /\ UNCHANGED <<request, newSub, symbolLock, symbolVars, noteVars, lifeVars, deviceVars>>

\* Served from the cache, or stopped by a value that does not convert.
UseLocally(u) ==
  /\ At(u, "use") /\ kind[u] # "subscribe" /\ LockFree
  /\ Return(u)
  /\ UNCHANGED <<request, newSub, symbolLock, symbolVars, noteVars, lifeVars, deviceVars>>

\* Read or write by handle, with the lock held.
Transfer(u) ==
  /\ At(u, "use") /\ kind[u] # "subscribe" /\ Lock
  /\ Goto(u, "transfer") /\ Send(u)
  /\ UNCHANGED <<kind, name, newSub, symbolVars, noteVars, lifeVars, deviceVars>>

\* Faulty: returns with the lock held.
TransferredLocked(u) ==
  /\ At(u, "transfer") /\ GiveUp(u)
  /\ Return(u)
  /\ UNCHANGED <<newSub, symbolLock, symbolVars, noteVars, lifeVars, deviceVars>>

Transferred(u) ==
  /\ At(u, "transfer") /\ GiveUp(u)
  /\ Return(u) /\ Unlock
  /\ UNCHANGED <<newSub, symbolVars, noteVars, lifeVars, deviceVars>>

\* AddDeviceNotification, without the lock.
Add(u) ==
  /\ At(u, "use") /\ kind[u] = "subscribe"
  /\ Goto(u, "add") /\ Send(u)
  /\ UNCHANGED <<kind, name, newSub, symbolLock, symbolVars, noteVars, lifeVars, deviceVars>>

Added(u) ==
  /\ At(u, "add") /\ Answer(u)
  /\ Goto(u, "record")
  /\ UNCHANGED <<kind, name, newSub, symbolLock, symbolVars, noteVars, lifeVars, deviceVars>>

\* Timed out, or nothing was sent: an error either way.
NotAdded(u) ==
  /\ At(u, "add") /\ GiveUp(u)
  /\ Return(u) /\ newSub' = [newSub EXCEPT ![u] = None]
  /\ Abandon(u, "add") \/ (Unsent(u) /\ UNCHANGED <<abandoned, gaveUp>>)
  /\ UNCHANGED <<symbolLock, symbolVars, noteVars, lifeVars, handles, subscribed>>

\* Faulty: the handle or the channel is not recorded.
RecordNoHandle(u) ==
  /\ At(u, "record") /\ LockFree
  /\ Return(u) /\ newSub' = [newSub EXCEPT ![u] = None]
  /\ receiver' = [receiver EXCEPT ![name[u]] = u]
  /\ UNCHANGED <<request, symbolLock, hasHandle, activeNotifications, noteVars, lifeVars, deviceVars>>

RecordNoChannel(u) ==
  /\ At(u, "record") /\ LockFree
  /\ Return(u) /\ newSub' = [newSub EXCEPT ![u] = None]
  /\ activeNotifications' = [activeNotifications EXCEPT ![newSub[u]] = name[u]]
  /\ UNCHANGED <<request, symbolLock, hasHandle, receiver, noteVars, lifeVars, deviceVars>>

\* The symbol's channel is replaced, whoever it belonged to.
Record(u) ==
  /\ At(u, "record") /\ LockFree
  /\ Return(u) /\ newSub' = [newSub EXCEPT ![u] = None]
  /\ receiver' = [receiver EXCEPT ![name[u]] = u]
  /\ activeNotifications' = [activeNotifications EXCEPT ![newSub[u]] = name[u]]
  /\ UNCHANGED <<request, symbolLock, hasHandle, noteVars, lifeVars, deviceVars>>

\* Steps that need the lock, and steps that a request holds up at most.
Locks(u)   == \/ GetMissing(u) \/ GetKnown(u) \/ GetUnknown(u) \/ Fail(u)
              \/ UseLocally(u) \/ Transfer(u) \/ Record(u)
Returns(u) == \/ GotHandle(u) \/ NoHandle(u) \/ NoResponse(u) \/ Transferred(u)
              \/ Add(u) \/ Added(u) \/ NotAdded(u)

-----------------------------------------------------------------------------
(* handleNotification, for the first sample left in a frame *)

HasSample(f) == running /\ frame[f] # <<>> /\ sending # f
DropSample(f) == frame' = [frame EXCEPT ![f] = Tail(@)]

\* Nobody has recorded the handle (yet), or the value does not convert.
Discard(f) ==
  /\ HasSample(f) /\ LockFree
  /\ DropSample(f)
  /\ UNCHANGED <<callVars, symbolLock, symbolVars, sending, lifeVars, deviceVars>>

\* The lock is kept while the update is offered to the subscriber.
Offer(f) ==
  /\ HasSample(f) /\ Lock /\ activeNotifications[Head(frame[f])] # None
  /\ sending' = f
  /\ UNCHANGED <<callVars, symbolVars, frame, lifeVars, deviceVars>>

Subscriber == receiver[activeNotifications[Head(frame[sending])]]

\* A user without a goroutine for it receives when it is in no call.
Receives(u) == u \in Dedicated \/ pc[u] = "idle"

\* Faulty: the sample is not consumed.
OfferAgain == UNCHANGED frame /\ sending' = None /\ Unlock

OfferOver == DropSample(sending) /\ sending' = None /\ Unlock

Receive(u) ==
  /\ running /\ sending # None /\ Subscriber = u /\ Receives(u)
  /\ OfferOver
  /\ UNCHANGED <<callVars, symbolVars, lifeVars, deviceVars>>

\* Faulty: does not look at the context.
OfferStays == FALSE

\* ctx.Done of the handler: only a shutdown.
OfferCancelled ==
  /\ running /\ sending # None /\ shutdown
  /\ OfferOver
  /\ UNCHANGED <<callVars, symbolVars, lifeVars, deviceVars>>

HandlerStep == \/ OfferCancelled
               \/ \E f \in Frames : Discard(f) \/ Offer(f)

-----------------------------------------------------------------------------
(* Environment *)

Shutdown ==
  /\ running /\ ~shutdown
  /\ shutdown' = TRUE
  /\ UNCHANGED <<callVars, symbolLock, symbolVars, noteVars, running, deviceVars>>

NewSub(n, s) == /\ subscribed[n] = None /\ \A m \in 1 .. n - 1 : subscribed[m] # None
                /\ subscribed' = [subscribed EXCEPT ![n] = s]

NewHandle(s) == /\ handles[s] < MaxHandles
                /\ handles' = [handles EXCEPT ![s] = @ + 1]

DeviceExecute(u) ==
  /\ request[u] = "sent"
  /\ request' = [request EXCEPT ![u] = "executed"]
  /\ \/ pc[u] = "ask" /\ NewHandle(name[u]) /\ UNCHANGED <<subscribed, newSub>>
     \/ pc[u] = "add" /\ UNCHANGED handles
          /\ \E n \in Subs : NewSub(n, name[u]) /\ newSub' = [newSub EXCEPT ![u] = n]
     \/ pc[u] = "transfer" /\ UNCHANGED <<handles, subscribed, newSub>>
  /\ UNCHANGED <<pc, kind, name, symbolLock, symbolVars, noteVars, lifeVars, abandoned, gaveUp>>

DeviceExecuteLate ==
  /\ \E r \in abandoned :
       /\ abandoned' = abandoned \ {r}
       /\ \/ r[1] = "ask" /\ NewHandle(r[2]) /\ UNCHANGED subscribed
          \/ r[1] = "add" /\ UNCHANGED handles /\ \E n \in Subs : NewSub(n, r[2])
  /\ UNCHANGED <<callVars, symbolLock, symbolVars, noteVars, lifeVars, gaveUp>>

\* Bound: MaxFrames frames at a time are read and not dealt with, and a frame
\* carries two samples at most.
Samples == UNION {[1 .. k -> {n \in Subs : subscribed[n] # None}] : k \in 1 .. 2}

DeviceNotify(f) ==
  /\ frame[f] = <<>> /\ frame' \in {[frame EXCEPT ![f] = samples] : samples \in Samples}
  /\ UNCHANGED <<callVars, symbolLock, symbolVars, sending, lifeVars, deviceVars>>

DeviceStep == \/ DeviceExecuteLate
              \/ \E u \in Users : DeviceExecute(u)
              \/ \E f \in Frames : DeviceNotify(f)

Next == \/ \E u \in Users : Call(u) \/ Locks(u) \/ Returns(u) \/ Receive(u)
        \/ HandlerStep \/ Shutdown \/ DeviceStep

Spec == Init /\ [][Next]_vars

(* Fairness.  Goroutines that can run do run, a locked mutex that is freed    *)
(* again and again is obtained, and every request returns, answered or timed  *)
(* out (Requests: CallsReturnUnlessOrphaned).  A goroutine that only receives *)
(* updates does receive them; nothing is assumed of the other users, of the   *)
(* device, or of a shutdown.                                                  *)

UserFairness(u) == /\ SF_vars(Locks(u)) /\ WF_vars(Returns(u))
                   /\ u \in Dedicated => WF_vars(Receive(u))

FairSpec == /\ Spec /\ WF_vars(OfferCancelled)
            /\ \A u \in Users : UserFairness(u)
            /\ \A f \in Frames : SF_vars(Discard(f) \/ Offer(f))

-----------------------------------------------------------------------------
(* Properties *)

Holds(u) == pc[u] \in {"ask", "transfer"}
LockHeld == /\ symbolLock <=> sending # None \/ \E u \in Users : Holds(u)
            /\ \A u, v \in Users : Holds(u) /\ Holds(v) => u = v
            /\ sending # None => \A u \in Users : ~Holds(u)

\* symbolLock is held exactly by the one call that waits for the device with
\* it, or by the one handler that offers an update.
SymbolLockExclusive == running => LockHeld

\* The device holds one handle for a symbol however many users ask for it at
\* once, unless a request for one was given up on; and a symbol that has a
\* handle was given it by the device.
OneHandlePerSymbol ==
  \A s \in Names : /\ handles[s] > 1 => <<"ask", s>> \in gaveUp
                   /\ s \in hasHandle => handles[s] > 0

\* A notification the device sends is for a subscription that is recorded, is
\* being recorded, or whose AddSymbolNotification returned an error.
SubscriptionsAccountedFor ==
  \A n \in Subs : subscribed[n] # None =>
     \/ activeNotifications[n] = subscribed[n]
     \/ \E u \in Users : newSub[u] = n /\ name[u] = subscribed[n] /\ pc[u] \in {"add", "record"}
     \/ activeNotifications[n] = None /\ <<"add", subscribed[n]>> \in gaveUp

\* A handler never offers an update to a channel that was not set, on which it
\* would wait for ever, nor under a handle the device did not give.
OffersHaveSubscriber ==
  /\ sending # None => frame[sending] # <<>> /\ activeNotifications[Head(frame[sending])] # None
  /\ \A n \in Subs : activeNotifications[n] # None =>
       subscribed[n] = activeNotifications[n] /\ receiver[activeNotifications[n]] \in Users

\* What these rest on: the state of a call, and where a handle is on its way
\* from the device into the client's books.
CallsInOrder ==
  \A u \in Users :
    /\ request[u] # "none" => pc[u] \in {"ask", "transfer", "add"}
    /\ pc[u] # "idle" => name[u] \in Names
    /\ pc[u] \in {"ask", "use", "transfer", "add", "record"} => name[u] \in Uploaded
    /\ pc[u] = "ask" => name[u] \notin hasHandle

HandlesOnTheWay ==
  /\ \A u \in Users : pc[u] = "ask" /\ request[u] = "executed" => handles[name[u]] > 0
  /\ \A s \in Names : handles[s] > 0 =>
       \/ s \in hasHandle \/ <<"ask", s>> \in gaveUp
       \/ \E u \in Users : pc[u] = "ask" /\ name[u] = s /\ request[u] = "executed"
  /\ abandoned \subseteq gaveUp

SubsOnTheWay ==
  /\ \A u \in Users : newSub[u] # None <=>
       pc[u] = "record" \/ (pc[u] = "add" /\ request[u] = "executed")
  /\ \A u \in Users : newSub[u] # None => /\ subscribed[newSub[u]] = name[u]
                                           /\ activeNotifications[newSub[u]] = None
  /\ \A u, v \in Users : newSub[u] # None /\ newSub[u] = newSub[v] => u = v

Inv == /\ TypeOK /\ LockHeld /\ OneHandlePerSymbol /\ SubscriptionsAccountedFor
       /\ OffersHaveSubscriber /\ CallsInOrder /\ HandlesOnTheWay /\ SubsOnTheWay

\* An update is on offer to a user who only receives between its calls.
OfferedToBusy == sending # None /\ Subscriber \notin Dedicated

\* Every call returns, whatever the others do, unless an update is on offer to
\* a user without a goroutine to receive it: one such user can stop them all.
CallsReturn ==
  \A u \in Users : pc[u] # "idle" ~> pc[u] = "idle" \/ ~running \/ OfferedToBusy

\* A frame of notifications is dealt with to its last sample, with the same
\* exception.
FramesAreHandled ==
  \A f \in Frames : frame[f] # <<>> ~> frame[f] = <<>> \/ ~running \/ OfferedToBusy

\* A shutdown frees the calls that an offered update holds up.
ShutdownFreesCalls ==
  \A u \in Users : shutdown /\ pc[u] # "idle" ~> pc[u] = "idle" \/ ~running
=============================================================================
