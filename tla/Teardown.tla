------------------------------ MODULE Teardown ------------------------------
(***************************************************************************)
(* Close (connection.go) while subscriptions are made and notifications    *)
(* come in.  Close ranges over the map activeNotifications, and            *)
(* DeleteDeviceNotification deletes from it, without symbolLock, which     *)
(* users hold to insert and handlers to look handles up.  An operation on  *)
(* the map takes time: two that overlap are a data race if one of them     *)
(* writes, and the Go runtime may stop the process for it.                 *)
(*                                                                         *)
(* Requests return as in RequestService, whatever Lifecycle says of the    *)
(* time that takes; Commands says what the client makes of the response.   *)
(* The device may serve a request whose call was given up, before that or  *)
(* later: it then has a subscription that nobody here knows of.            *)
(***************************************************************************)
EXTENDS Commands, FiniteSets

CONSTANTS Users,     \* goroutines that subscribe
          Handles,   \* notification handles the device gives out
          NoHandle

ASSUME HandlesAssumption == IsFiniteSet(Handles) /\ NoHandle \notin Handles

VARIABLES
  active,      \* keys of the activeNotifications map
  symbolLock,  \* is the mutex held?
  pc, new,     \* pc[u]: where u is in AddSymbolNotification; new[u]: its handle
  handler,     \* handler[h]: the goroutine of a notification for h
  phase,       \* where Close is
  current,     \* the handle its loop is at
  produced,    \* the handles its loop has come to
  shutdown, running,
  live,        \* the device's subscriptions
  lost,        \* those it made, or will, for calls that got no handle of them
  link,        \* do answers still come?  The last one may be torn.
  \* History, for the properties only:
  garbled,     \* the handle number read from a torn answer
  present,     \* keys of the map when the loop began
  deleted      \* deleted[h]: the response to the request to delete h

userVars  == <<pc, new>>
closeVars == <<phase, current, produced, present, deleted>>
device    == <<live, lost, link, garbled>>
vars == <<active, symbolLock, userVars, handler, closeVars, shutdown, running, device>>

\* A user may have subscribed before, and the device has all that is recorded.
Init ==
  /\ active \in SUBSET Handles /\ live = active
  /\ lost = {} /\ link = TRUE /\ garbled = NoHandle
  /\ symbolLock = FALSE
  /\ pc = [u \in Users |-> "idle"] /\ new = [u \in Users |-> NoHandle]
  /\ handler = [h \in Handles |-> "none"]
  /\ phase = "open" /\ current = NoHandle /\ produced = {}
  /\ shutdown = FALSE /\ running = TRUE
  /\ present = {} /\ deleted = [h \in Handles |-> "none"]

-----------------------------------------------------------------------------
(* AddSymbolNotification, from the request for a handle on *)

UserAt(u, place) == running /\ pc[u] = place
UserGoes(u, place) == pc' = [pc EXCEPT ![u] = place]

Subscribe(u) ==
  /\ UserAt(u, "idle")
  /\ UserGoes(u, "add")
  /\ UNCHANGED <<active, symbolLock, new, handler, closeVars, shutdown, running, device>>

\* The device makes a subscription; bound: each handle is given out once.
Unused(h) == /\ h \notin live \cup active \cup lost \cup {new[u] : u \in Users}
             /\ deleted[h] = "none"
Added(u, h) ==
  /\ UserAt(u, "add") /\ Unused(h) /\ link /\ phase # "closed"
  /\ UserGoes(u, "record")
  /\ new' = [new EXCEPT ![u] = h] /\ live' = live \cup {h}
  /\ UNCHANGED <<active, symbolLock, handler, closeVars, shutdown, running, lost, link, garbled>>

\* The subscriptions the device makes for a call that does not learn of it.
Made == {{}} \cup {{h} : h \in {h \in Handles : Unused(h) /\ phase # "closed"}}

\* The answer is torn: its zeros pass for success, and h for the handle.
Garbled(u, h) ==
  /\ UserAt(u, "add") /\ link /\ phase # "closed"
  /\ UserGoes(u, "record")
  /\ new' = [new EXCEPT ![u] = h] /\ garbled' = h /\ link' = FALSE
  /\ \E made \in Made : lost' = lost \cup made
  /\ UNCHANGED <<active, symbolLock, handler, closeVars, shutdown, running, live>>

\* Faulty: the error is dropped and the handle it came with, none, recorded.
AddedAnyway(u) ==
  /\ UserAt(u, "add")
  /\ UserGoes(u, "record")
  /\ UNCHANGED <<active, symbolLock, new, handler, closeVars, shutdown, running, device>>

\* The call failed, whatever the device did: an answer may be late or torn.
NotAdded(u) ==
  /\ UserAt(u, "add")
  /\ UserGoes(u, "idle")
  /\ \E made \in Made : lost' = lost \cup made
  /\ link' \in {link, FALSE}
  /\ UNCHANGED <<active, symbolLock, new, handler, closeVars, shutdown, running, live, garbled>>

\* The device serves the request of a call that was given up.
AddedLate(h) ==
  /\ running /\ h \in lost \ live
  /\ live' = live \cup {h}
  /\ UNCHANGED <<active, symbolLock, userVars, handler, closeVars, shutdown, running,
                 lost, link, garbled>>

RecordLock(u) ==
  /\ UserAt(u, "record") /\ ~symbolLock
  /\ UserGoes(u, "insert")
  /\ symbolLock' = TRUE
  /\ UNCHANGED <<active, new, handler, closeVars, shutdown, running, device>>

\* Faulty: the map keeps the latest handle only.
RecordAlone(u) ==
  /\ UserAt(u, "insert")
  /\ UserGoes(u, "idle")
  /\ active' = {new[u]} /\ symbolLock' = FALSE
  /\ new' = [new EXCEPT ![u] = NoHandle]
  /\ UNCHANGED <<handler, closeVars, shutdown, running, device>>

Recorded(u) ==
  /\ UserAt(u, "insert")
  /\ UserGoes(u, "idle")
  /\ active' = active \cup {new[u]} /\ symbolLock' = FALSE
  /\ new' = [new EXCEPT ![u] = NoHandle]
  /\ UNCHANGED <<handler, closeVars, shutdown, running, device>>

-----------------------------------------------------------------------------
(* DeviceNotification and handleNotification *)

HandlerGoes(h, place) == handler' = [handler EXCEPT ![h] = place]

\* listen has looked at the context for the last time before it starts a
\* goroutine; the goroutine is counted once DeviceNotification runs.
Notify(h) ==
  /\ running /\ link /\ h \in live /\ handler[h] = "none" /\ ~shutdown
  /\ HandlerGoes(h, "started")
  /\ UNCHANGED <<active, symbolLock, userVars, closeVars, shutdown, running, device>>

Counted(h) ==
  /\ running /\ handler[h] = "started"
  /\ HandlerGoes(h, "counted")
  /\ UNCHANGED <<active, symbolLock, userVars, closeVars, shutdown, running, device>>

LookUp(h) ==
  /\ running /\ handler[h] = "counted" /\ ~symbolLock
  /\ HandlerGoes(h, "lookup")
  /\ symbolLock' = TRUE
  /\ UNCHANGED <<active, userVars, closeVars, shutdown, running, device>>

\* The update is on offer, or there is no such handle.
LookedUp(h) ==
  /\ running /\ handler[h] = "lookup"
  /\ HandlerGoes(h, IF h \in active THEN "offer" ELSE "none")
  /\ symbolLock' = (h \in active)
  /\ UNCHANGED <<active, userVars, closeVars, shutdown, running, device>>

\* Faulty: does not look at the context.
OfferTaken(h) == FALSE

\* The subscriber receives, which it need not do, or the context is cancelled.
OfferOver(h) ==
  /\ running /\ handler[h] = "offer"
  /\ HandlerGoes(h, "none")
  /\ symbolLock' = FALSE
  /\ UNCHANGED <<active, userVars, closeVars, shutdown, running, device>>

-----------------------------------------------------------------------------
(* Close *)

BeginClose ==
  /\ running /\ phase = "open"
  /\ phase' = "range" /\ present' = active
  /\ UNCHANGED <<active, symbolLock, userVars, handler, current, produced, deleted,
                 shutdown, running, device>>

\* A range produces every key that stays in the map, in any order; one that is
\* inserted meanwhile may be produced or not.
Range(h) ==
  /\ running /\ phase = "range" /\ h \in active \ produced
  /\ phase' = "delete" /\ current' = h /\ produced' = produced \cup {h}
  /\ UNCHANGED <<active, symbolLock, userVars, handler, present, deleted, shutdown, running, device>>

\* Faulty: stops after the first handle.
AllProduced == produced # {} \/ present = {}

RangeEnds == present \cap active \subseteq produced

\* DeleteDeviceNotification has its response: an answer, or none.  The device
\* may have served a request that nothing came back for, and of a torn answer
\* the error code may be what is missing.
Executed(response, h) == IF response = "ok" THEN {{h}}
                         ELSE IF response \in {"error", "torn"} THEN {{}, {h}} ELSE {{}}
Delete(response) ==
  /\ running /\ phase = "delete"
  /\ response \in {"ok", "refused", "torn"} => link
  /\ link' = (link /\ response # "torn")
  /\ \E gone \in Executed(response, current) :
       live' = live \ gone /\ lost' = lost \ (live \cap gone)
  /\ deleted' = [deleted EXCEPT ![current] = response]
  /\ \E result \in Results("Delete", response) :
       phase' = IF result = "success" THEN "erase" ELSE "range"
  /\ UNCHANGED <<active, symbolLock, userVars, handler, current, produced, present,
                 shutdown, running, garbled>>

\* delete(conn.activeNotifications, handle)
Erase ==
  /\ running /\ phase = "erase"
  /\ phase' = "range" /\ active' = active \ {current}
  /\ UNCHANGED <<symbolLock, userVars, handler, current, produced, present, deleted,
                 shutdown, running, device>>

\* The loop is over; the release of the symbols' handles is in Lifecycle.
CloseShutdown ==
  /\ running /\ phase = "range" /\ RangeEnds
  /\ phase' = "wait" /\ current' = NoHandle /\ shutdown' = TRUE
  /\ UNCHANGED <<active, symbolLock, userVars, handler, produced, present, deleted,
                 running, device>>

WaitGroupIsZero == /\ \A u \in Users : pc[u] # "add"
                   /\ \A h \in Handles : handler[h] \in {"none", "started"}

\* waitGroup.Wait is let go the moment the counter is zero ...
WaitReleased ==
  /\ running /\ phase = "wait" /\ WaitGroupIsZero
  /\ phase' = "released"
  /\ UNCHANGED <<active, symbolLock, userVars, handler, current, produced, present, deleted,
                 shutdown, running, device>>

\* ... and panics if it finds the counter raised again: "WaitGroup is reused
\* before previous Wait has returned".
WaitReturns ==
  /\ running /\ phase = "released"
  /\ IF WaitGroupIsZero THEN phase' = "closed" /\ UNCHANGED running
                        ELSE running' = FALSE /\ UNCHANGED phase
  /\ UNCHANGED <<active, symbolLock, userVars, handler, current, produced, present, deleted,
                 shutdown, device>>

\* The context NewConnection got is cancelled.
Shutdown ==
  /\ running /\ ~shutdown
  /\ shutdown' = TRUE
  /\ UNCHANGED <<active, symbolLock, userVars, handler, closeVars, running, device>>

-----------------------------------------------------------------------------
(* The map *)

Inserting == \E u \in Users : pc[u] = "insert"
LookingUp == \E h \in Handles : handler[h] = "lookup"
Race == \/ Inserting /\ phase \in {"range", "erase"}
        \/ LookingUp /\ phase = "erase"

\* "concurrent map iteration and map write", "concurrent map read and map write"
RuntimeStops ==
  /\ running /\ Race
  /\ running' = FALSE
  /\ UNCHANGED <<active, symbolLock, userVars, handler, closeVars, shutdown, device>>

UserStep(u)    == \/ Subscribe(u) \/ NotAdded(u) \/ RecordLock(u) \/ Recorded(u)
                  \/ \E h \in Handles : Added(u, h) \/ Garbled(u, h)
HandlerStep(h) == Notify(h) \/ Counted(h) \/ LookUp(h) \/ LookedUp(h) \/ OfferOver(h)
CloseStep      == \/ BeginClose \/ Erase \/ CloseShutdown \/ WaitReleased \/ WaitReturns
                  \/ \E h \in Handles : Range(h)
                  \/ \E response \in Responses : Delete(response)

Next == \/ \E u \in Users : UserStep(u)
        \/ \E h \in Handles : HandlerStep(h) \/ AddedLate(h)
        \/ CloseStep \/ Shutdown \/ RuntimeStops

Spec == Init /\ [][Next]_vars

\* A request returns (see Lifecycle for when it does not), a mutex is handed
\* to a goroutine that waits, and a shutdown cancels an offer; nobody has to
\* receive one before that.
Fairness ==
  /\ WF_vars(phase # "open" /\ CloseStep)
  /\ \A u \in Users : WF_vars(NotAdded(u)) /\ SF_vars(RecordLock(u)) /\ WF_vars(Recorded(u))
  /\ \A h \in Handles : /\ WF_vars(Counted(h)) /\ SF_vars(LookUp(h)) /\ WF_vars(LookedUp(h))
                        /\ WF_vars(shutdown /\ OfferOver(h))
FairSpec == Spec /\ Fairness

-----------------------------------------------------------------------------
(* Properties *)

TypeOK ==
  /\ active \subseteq Handles /\ live \subseteq Handles /\ produced \subseteq Handles
  /\ lost \subseteq Handles /\ present \subseteq Handles
  /\ {symbolLock, shutdown, running, link} \subseteq BOOLEAN
  /\ pc \in [Users -> {"idle", "add", "record", "insert"}]
  /\ new \in [Users -> Handles \cup {NoHandle}]
  /\ handler \in [Handles -> {"none", "started", "counted", "lookup", "offer"}]
  /\ phase \in {"open", "range", "delete", "erase", "wait", "released", "closed"}
  /\ {current, garbled} \subseteq Handles \cup {NoHandle}
  /\ deleted \in [Handles -> Responses \cup {"none"}]

\* What the client has on record and what the device has differ by no more than
\* this.  A recorded handle is not the device's if its deletion was asked for
\* and not confirmed, or is being recorded, or if the number was read from a
\* torn answer.  A subscription is not on record if it is on its way into the
\* map, if the call that asked for it got no handle, or if its deletion passed
\* for done: nothing came back for it, or zeros for its error code.
RecordsAgree ==
  /\ \A h \in active \ live : \/ deleted[h] \in {"error", "torn"} \/ h = garbled
                              \/ (phase = "erase" /\ current = h)
  /\ \A h \in live \ active : \/ deleted[h] \in {"empty", "torn"} \/ h \in lost
                              \/ \E u \in Users : new[u] = h

\* When Close has gone through the map, a subscription is left with the device
\* only if the device did not confirm its deletion, or if it was not on record
\* when Close began: recorded later, or never, as no call got its handle.
NothingForgotten ==
  phase \in {"wait", "released", "closed"} =>
    \A h \in live : deleted[h] \in {"error", "refused", "empty", "torn"} \/ h \notin present

\* What these rest on: a handle on its way into the map is new, Close comes to
\* each handle once, and a handle it has not finished with is in the map.  A
\* number from a torn answer may be anybody's, but no answer follows.
NewHandlesAreNew ==
  /\ garbled # NoHandle => ~link
  /\ \A u \in Users : pc[u] \in {"record", "insert"} <=> new[u] # NoHandle
  /\ \A u \in Users : new[u] \notin {NoHandle, garbled} =>
       new[u] \in live \ (active \cup lost) /\ deleted[new[u]] = "none"
  /\ \A u, v \in Users : new[u] = new[v] /\ new[u] \notin {NoHandle, garbled} => u = v

DeletedOnce ==
  /\ \A h \in Handles : deleted[h] # "none" <=> h \in produced /\ ~(phase = "delete" /\ current = h)
  /\ phase \in {"delete", "erase"} => current \in active \cap produced
  /\ phase = "erase" => deleted[current] \in {"ok", "empty", "torn"}
  /\ \A h \in live : deleted[h] # "ok"
  /\ \A h \in lost : deleted[h] \in {"none", "error", "empty"} /\ (h \in active => h = garbled)
  /\ \A h \in present : h \in active \/ deleted[h] # "none"
  /\ phase = "open" => produced = {}
  /\ phase \in {"wait", "released", "closed"} => present \subseteq produced

Inv == TypeOK /\ NewHandlesAreNew /\ DeletedOnce /\ RecordsAgree /\ NothingForgotten

\* Once users stop subscribing, Close returns, although it waits for handlers
\* that hold symbolLock to offer an update nobody takes: unless two operations
\* on the map met, or a call met the end of the wait.
CloseEnds ==
  <>[](\A u \in Users : pc[u] # "add") => (phase = "range" ~> phase = "closed" \/ ~running)
=============================================================================
