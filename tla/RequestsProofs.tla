--------------------------- MODULE RequestsProofs ---------------------------
(***************************************************************************)
(* What holds of Requests for every set of callers and every number of     *)
(* requests.                                                               *)
(***************************************************************************)
EXTENDS Requests, TLAPS

USE DEF InvokeIds, FrameIds, NoId, Places, HandlerPlaces

\* The initial state satisfies the inductive invariant.
LEMMA InvInit == Init => Inv
<1> SUFFICES ASSUME Init PROVE Inv
  OBVIOUS
<1> USE MaxCallsAssumption, StrayAssumption DEF Init
<1>flags. FlagsOK
  BY DEF FlagsOK
<1>1. TypeOK
  BY <1>flags DEF TypeOK
<1>2. LockExclusive /\ DistinctIds /\ CallsAreOpen /\ UnsentWithCaller
  BY DEF LockExclusive, DistinctIds, CallsAreOpen, UnsentWithCaller, InCall
<1>3. OrphansAreAbandoned /\ IdsInOrder /\ WorkerHolds /\ OnTheWay /\ ExecutedWasSent /\ Answered
  BY DEF OrphansAreAbandoned, IdsInOrder, WorkerHolds, OnTheWay, ExecutedWasSent, Answered
<1> QED
  BY <1>1, <1>2, <1>3 DEF Inv

\* Every step of the client, the device or the link preserves it.
LEMMA InvNext == Inv /\ [Next]_vars => Inv'
<1> SUFFICES ASSUME Inv, [Next]_vars PROVE Inv'
  OBVIOUS
<1> USE MaxCallsAssumption, StrayAssumption
    DEF Inv, vars, callerVars, mapVars, workerVars, receiveVars, lifeVars, netVars
<1>1. ASSUME NEW c \in Callers, Call(c) PROVE Inv'
  <2> USE <1>1 DEF Call, At, Goto
  <2>1. TypeOK'
    BY DEF TypeOK, FlagsOK
  <2>2. LockExclusive'
    BY DEF LockExclusive, TypeOK
  <2>3. DistinctIds'
    BY DEF DistinctIds, TypeOK, CallsAreOpen, InCall
  <2>4. CallsAreOpen'
    BY DEF CallsAreOpen, TypeOK, InCall, DistinctIds
  <2>5. UnsentWithCaller'
    BY DEF UnsentWithCaller, TypeOK, CallsAreOpen, InCall, DistinctIds, IdsInOrder,
           OnTheWay, ExecutedWasSent, WorkerHolds
  <2>6. OrphansAreAbandoned' /\ IdsInOrder' /\ WorkerHolds' /\ OnTheWay' /\ ExecutedWasSent' /\
        Answered'
    BY DEF OrphansAreAbandoned, IdsInOrder, WorkerHolds, OnTheWay, ExecutedWasSent,
           Answered
  <2> QED
    BY <2>1, <2>2, <2>3, <2>4, <2>5, <2>6
<1>2. ASSUME NEW c \in Callers, Register(c) PROVE Inv'
  <2> USE <1>2 DEF Register, LockFree, NextInvokeId, Goto, At
  <2>1. TypeOK'
    BY DEF TypeOK, FlagsOK
  <2>2. LockExclusive'
    BY DEF LockExclusive, TypeOK
  <2>3. DistinctIds'
    BY DEF DistinctIds, TypeOK, CallsAreOpen, InCall
  <2>4. OrphansAreAbandoned'
    BY DEF OrphansAreAbandoned, TypeOK, CallsAreOpen, InCall, IdsInOrder, Answered,
           ExecutedWasSent, OnTheWay, UnsentWithCaller
  <2>5. CallsAreOpen'
    BY DEF CallsAreOpen, TypeOK, InCall, DistinctIds
  <2>6. IdsInOrder'
    BY DEF IdsInOrder, TypeOK, CallsAreOpen, InCall
  <2>7. UnsentWithCaller'
    BY DEF UnsentWithCaller, TypeOK, CallsAreOpen, InCall, DistinctIds, IdsInOrder,
           OnTheWay, ExecutedWasSent, WorkerHolds
  <2>8. OnTheWay'
    BY DEF OnTheWay, TypeOK, CallsAreOpen, InCall, UnsentWithCaller, WorkerHolds,
           IdsInOrder
  <2>9. ExecutedWasSent'
    BY DEF ExecutedWasSent, TypeOK, CallsAreOpen, InCall, UnsentWithCaller, OnTheWay,
           IdsInOrder
  <2>10. WorkerHolds' /\ Answered'
    BY DEF WorkerHolds, Answered
  <2> QED
    BY <2>1, <2>2, <2>3, <2>4, <2>5, <2>6, <2>7, <2>8, <2>9, <2>10
<1>3. ASSUME NEW c \in Callers, Publish(c) PROVE Inv'
  <2> USE <1>3 DEF Publish, At, Goto
  <2>id. id[c] \in InvokeIds
    BY DEF TypeOK, CallsAreOpen, InCall
  <2>flags. FlagsOK'
    BY DEF TypeOK, FlagsOK
  <2>1. TypeOK'
    BY <2>id, <2>flags DEF TypeOK
  <2>2. LockExclusive'
    BY DEF LockExclusive, TypeOK
  <2>3. DistinctIds'
    BY DEF DistinctIds, TypeOK, CallsAreOpen, InCall
  <2>4. CallsAreOpen'
    BY DEF CallsAreOpen, TypeOK, InCall, DistinctIds
  <2>5. UnsentWithCaller'
    BY DEF UnsentWithCaller, TypeOK, CallsAreOpen, InCall, DistinctIds, IdsInOrder,
           OnTheWay, ExecutedWasSent, WorkerHolds
  <2>6. OrphansAreAbandoned' /\ IdsInOrder' /\ WorkerHolds' /\ OnTheWay' /\ ExecutedWasSent' /\
        Answered'
    BY DEF OrphansAreAbandoned, IdsInOrder, WorkerHolds, OnTheWay, ExecutedWasSent,
           Answered
  <2> QED
    BY <2>1, <2>2, <2>3, <2>4, <2>5, <2>6
<1>4. ASSUME NEW c \in Callers, Enqueue(c) PROVE Inv'
  <2> USE <1>4 DEF Enqueue, At, Goto
  <2>1. TypeOK'
    BY DEF TypeOK, FlagsOK
  <2>2. LockExclusive'
    BY DEF LockExclusive, TypeOK
  <2>3. DistinctIds'
    BY DEF DistinctIds, TypeOK, CallsAreOpen, InCall
  <2>4. CallsAreOpen'
    BY DEF CallsAreOpen, TypeOK, InCall, DistinctIds
  <2>5. WorkerHolds'
    BY DEF WorkerHolds, TypeOK, CallsAreOpen, InCall
  <2>6. UnsentWithCaller'
    BY DEF UnsentWithCaller, TypeOK, CallsAreOpen, InCall, DistinctIds, IdsInOrder,
           OnTheWay, ExecutedWasSent, WorkerHolds
  <2>7. OnTheWay'
    BY DEF OnTheWay, TypeOK, CallsAreOpen, InCall, UnsentWithCaller, WorkerHolds
  <2>8. OrphansAreAbandoned' /\ IdsInOrder' /\ ExecutedWasSent' /\ Answered'
    BY DEF OrphansAreAbandoned, IdsInOrder, ExecutedWasSent, Answered
  <2> QED
    BY <2>1, <2>2, <2>3, <2>4, <2>5, <2>6, <2>7, <2>8
<1>5. ASSUME NEW c \in Callers, GiveUpEnqueue(c) PROVE Inv'
  <2> USE <1>5 DEF GiveUpEnqueue, Finish, Goto, At
  <2>1. TypeOK'
    BY DEF TypeOK, FlagsOK
  <2>2. LockExclusive'
    BY DEF LockExclusive, TypeOK
  <2>3. DistinctIds'
    BY DEF DistinctIds, TypeOK, CallsAreOpen, InCall
  <2>4. OrphansAreAbandoned'
    BY DEF OrphansAreAbandoned, TypeOK, CallsAreOpen, InCall, IdsInOrder, Answered,
           ExecutedWasSent, OnTheWay, UnsentWithCaller
  <2>5. CallsAreOpen'
    BY DEF CallsAreOpen, TypeOK, InCall, DistinctIds
  <2>6. IdsInOrder'
    BY DEF IdsInOrder, TypeOK, CallsAreOpen, InCall
  <2>7. UnsentWithCaller'
    BY DEF UnsentWithCaller, TypeOK, CallsAreOpen, InCall, DistinctIds, IdsInOrder,
           OnTheWay, ExecutedWasSent, WorkerHolds
  <2>8. OnTheWay'
    BY DEF OnTheWay, TypeOK, CallsAreOpen, InCall, UnsentWithCaller, WorkerHolds
  <2>9. ExecutedWasSent'
    BY DEF ExecutedWasSent, TypeOK, CallsAreOpen, InCall, UnsentWithCaller, OnTheWay
  <2>10. WorkerHolds' /\ Answered'
    BY DEF WorkerHolds, Answered
  <2> QED
    BY <2>1, <2>2, <2>3, <2>4, <2>5, <2>6, <2>7, <2>8, <2>9, <2>10
<1>6. ASSUME NEW c \in Callers, Select(c) PROVE Inv'
  <2> USE <1>6 DEF Select, At, Goto
  <2>1. TypeOK'
    BY DEF TypeOK, FlagsOK
  <2>2. LockExclusive'
    BY DEF LockExclusive, TypeOK
  <2>3. DistinctIds'
    BY DEF DistinctIds, TypeOK, CallsAreOpen, InCall
  <2>4. CallsAreOpen'
    BY DEF CallsAreOpen, TypeOK, InCall, DistinctIds
  <2>5. UnsentWithCaller'
    BY DEF UnsentWithCaller, TypeOK, CallsAreOpen, InCall, DistinctIds, IdsInOrder,
           OnTheWay, ExecutedWasSent, WorkerHolds
  <2>6. OrphansAreAbandoned' /\ IdsInOrder' /\ WorkerHolds' /\ OnTheWay' /\ ExecutedWasSent' /\
        Answered'
    BY DEF OrphansAreAbandoned, IdsInOrder, WorkerHolds, OnTheWay, ExecutedWasSent,
           Answered
  <2> QED
    BY <2>1, <2>2, <2>3, <2>4, <2>5, <2>6
<1>7. ASSUME NEW c \in Callers, RacySelect(c) PROVE Inv'
  <2> DEFINE others == <<id, outcome, currentRequest, mapVars, workerVars, receiveVars, shutdown, netVars>>
  <2>1. UNCHANGED others /\ running' \in BOOLEAN /\ pc[c] = "select"
    BY <1>7 DEF RacySelect, At, TypeOK, FlagsOK
  <2>2. UNCHANGED pc \/ pc' = [pc EXCEPT ![c] = "deaf"]
    BY <1>7 DEF RacySelect, At, Goto
  <2> HIDE <1>7
  <2>3. TypeOK'
    BY <2>1, <2>2 DEF TypeOK, FlagsOK
  <2>4. LockExclusive'
    BY <2>1, <2>2 DEF LockExclusive, TypeOK
  <2>5. DistinctIds' /\ CallsAreOpen' /\ UnsentWithCaller'
    BY <2>1, <2>2 DEF DistinctIds, CallsAreOpen, UnsentWithCaller, InCall, TypeOK
  <2>6. OrphansAreAbandoned' /\ IdsInOrder' /\ WorkerHolds' /\ OnTheWay' /\ ExecutedWasSent' /\ Answered'
    BY <2>1 DEF OrphansAreAbandoned, IdsInOrder, WorkerHolds, OnTheWay, ExecutedWasSent, Answered
  <2> QED
    BY <2>3, <2>4, <2>5, <2>6
<1>8. ASSUME NEW c \in Callers, GiveUpAwait(c) PROVE Inv'
  <2> USE <1>8 DEF GiveUpAwait, Finish, Goto, At
  <2>1. TypeOK'
    BY DEF TypeOK, FlagsOK
  <2>2. LockExclusive'
    BY DEF LockExclusive, TypeOK
  <2>3. DistinctIds'
    BY DEF DistinctIds, TypeOK, CallsAreOpen, InCall
  <2>4. OrphansAreAbandoned'
    BY DEF OrphansAreAbandoned, TypeOK, CallsAreOpen, InCall, IdsInOrder, Answered,
           ExecutedWasSent, OnTheWay, UnsentWithCaller
  <2>5. CallsAreOpen'
    BY DEF CallsAreOpen, TypeOK, InCall, DistinctIds
  <2>6. IdsInOrder'
    BY DEF IdsInOrder, TypeOK, CallsAreOpen, InCall
  <2>7. UnsentWithCaller'
    BY DEF UnsentWithCaller, TypeOK, CallsAreOpen, InCall, DistinctIds, IdsInOrder,
           OnTheWay, ExecutedWasSent, WorkerHolds
  <2>8. OnTheWay'
    BY DEF OnTheWay, TypeOK, CallsAreOpen, InCall, UnsentWithCaller, WorkerHolds
  <2>9. ExecutedWasSent'
    BY DEF ExecutedWasSent, TypeOK, CallsAreOpen, InCall, UnsentWithCaller, OnTheWay
  <2>10. WorkerHolds' /\ Answered'
    BY DEF WorkerHolds, Answered
  <2> QED
    BY <2>1, <2>2, <2>3, <2>4, <2>5, <2>6, <2>7, <2>8, <2>9, <2>10
<1>9. ASSUME NEW c \in Callers, Deliver(c) PROVE Inv'
  <2> USE <1>9 DEF Deliver, Received, Finish, Goto, At
  <2>1. TypeOK'
    BY DEF TypeOK, FlagsOK
  <2>2. LockExclusive'
    BY DEF LockExclusive, TypeOK, CallsAreOpen, InCall
  <2>3. DistinctIds'
    BY DEF DistinctIds, TypeOK, CallsAreOpen, InCall
  <2>4. OrphansAreAbandoned'
    BY DEF OrphansAreAbandoned, TypeOK, CallsAreOpen, InCall, IdsInOrder, Answered,
           ExecutedWasSent, OnTheWay, UnsentWithCaller
  <2>5. CallsAreOpen'
    BY DEF CallsAreOpen, TypeOK, InCall, DistinctIds
  <2>6. IdsInOrder'
    BY DEF IdsInOrder, TypeOK, CallsAreOpen, InCall
  <2>7. UnsentWithCaller'
    BY DEF UnsentWithCaller, TypeOK, CallsAreOpen, InCall, DistinctIds, IdsInOrder,
           OnTheWay, ExecutedWasSent, WorkerHolds
  <2>8. OnTheWay'
    BY DEF OnTheWay, TypeOK, CallsAreOpen, InCall, UnsentWithCaller, WorkerHolds,
           Answered
  <2>9. ExecutedWasSent'
    BY DEF ExecutedWasSent, TypeOK, CallsAreOpen, InCall, UnsentWithCaller, OnTheWay,
           Answered
  <2>10. Answered'
    BY DEF Answered, TypeOK, OnTheWay, CallsAreOpen, InCall
  <2>11. WorkerHolds'
    BY DEF WorkerHolds
  <2> QED
    BY <2>1, <2>2, <2>3, <2>4, <2>5, <2>6, <2>7, <2>8, <2>9, <2>10, <2>11
<1>10. CASE WorkerWrite
  <2> USE <1>10 DEF WorkerWrite
  <2>1. TypeOK'
    BY DEF TypeOK, FlagsOK, WorkerHolds
  <2>2. WorkerHolds'
    BY DEF WorkerHolds, TypeOK, CallsAreOpen, InCall
  <2>3. UnsentWithCaller'
    BY DEF UnsentWithCaller, TypeOK, CallsAreOpen, InCall, DistinctIds, IdsInOrder,
           OnTheWay, ExecutedWasSent, WorkerHolds
  <2>4. OnTheWay'
    BY DEF OnTheWay, TypeOK, CallsAreOpen, InCall, UnsentWithCaller, WorkerHolds
  <2>5. LockExclusive' /\ DistinctIds' /\ CallsAreOpen'
    BY DEF LockExclusive, DistinctIds, CallsAreOpen, InCall
  <2>6. OrphansAreAbandoned' /\ IdsInOrder' /\ ExecutedWasSent' /\ Answered'
    BY DEF OrphansAreAbandoned, IdsInOrder, ExecutedWasSent, Answered
  <2> QED
    BY <2>1, <2>2, <2>3, <2>4, <2>5, <2>6
<1>11. CASE WorkerExit
  <2> USE <1>11 DEF WorkerExit
  <2>1. TypeOK'
    BY DEF TypeOK, FlagsOK
  <2>2. WorkerHolds'
    BY DEF WorkerHolds, TypeOK, CallsAreOpen, InCall
  <2>3. LockExclusive' /\ DistinctIds' /\ CallsAreOpen'
    BY DEF LockExclusive, DistinctIds, CallsAreOpen, InCall
  <2>4. OrphansAreAbandoned' /\ IdsInOrder' /\ UnsentWithCaller' /\ OnTheWay' /\
        ExecutedWasSent' /\ Answered'
    BY DEF OrphansAreAbandoned, IdsInOrder, UnsentWithCaller, OnTheWay,
           ExecutedWasSent, Answered
  <2> QED
    BY <2>1, <2>2, <2>3, <2>4
<1>12. CASE ListenSelect
  BY <1>12 DEF ListenSelect, FlagsOK, TypeOK, LockExclusive, DistinctIds,
               OrphansAreAbandoned, CallsAreOpen, IdsInOrder, WorkerHolds,
               UnsentWithCaller, OnTheWay, ExecutedWasSent, Answered, InCall
<1>13. ASSUME NEW i \in FrameIds, ListenRead(i) PROVE Inv'
  <2> USE <1>13 DEF ListenRead
  <2>1. TypeOK'
    BY DEF TypeOK, FlagsOK
  <2>2. LockExclusive'
    BY DEF LockExclusive, TypeOK, Answered
  <2>3. OrphansAreAbandoned'
    BY DEF OrphansAreAbandoned, TypeOK, CallsAreOpen, InCall, IdsInOrder, Answered,
           ExecutedWasSent, OnTheWay, UnsentWithCaller
  <2>4. Answered'
    BY DEF Answered, TypeOK, OnTheWay, CallsAreOpen, InCall
  <2>5. DistinctIds' /\ CallsAreOpen'
    BY DEF DistinctIds, CallsAreOpen, InCall
  <2>6. IdsInOrder' /\ WorkerHolds' /\ UnsentWithCaller' /\ OnTheWay' /\ ExecutedWasSent'
    BY DEF IdsInOrder, WorkerHolds, UnsentWithCaller, OnTheWay, ExecutedWasSent
  <2> QED
    BY <2>1, <2>2, <2>3, <2>4, <2>5, <2>6
<1>14. CASE ListenFail
  BY <1>14 DEF ListenFail, FlagsOK, TypeOK, LockExclusive, DistinctIds,
               OrphansAreAbandoned, CallsAreOpen, IdsInOrder, WorkerHolds,
               UnsentWithCaller, OnTheWay, ExecutedWasSent, Answered, InCall
<1>15. ASSUME NEW i \in FrameIds, HandlerLock(i) PROVE Inv'
  <2> USE <1>15 DEF HandlerLock, LockFree
  <2>1. TypeOK'
    BY DEF TypeOK, FlagsOK
  <2>2. LockExclusive'
    BY DEF LockExclusive, TypeOK
  <2>3. OrphansAreAbandoned'
    BY DEF OrphansAreAbandoned, TypeOK, CallsAreOpen, InCall, IdsInOrder, Answered,
           ExecutedWasSent, OnTheWay, UnsentWithCaller
  <2>4. Answered'
    BY DEF Answered, TypeOK, OnTheWay, CallsAreOpen, InCall
  <2>5. DistinctIds' /\ CallsAreOpen'
    BY DEF DistinctIds, CallsAreOpen, InCall
  <2>6. IdsInOrder' /\ WorkerHolds' /\ UnsentWithCaller' /\ OnTheWay' /\ ExecutedWasSent'
    BY DEF IdsInOrder, WorkerHolds, UnsentWithCaller, OnTheWay, ExecutedWasSent
  <2> QED
    BY <2>1, <2>2, <2>3, <2>4, <2>5, <2>6
<1>16. ASSUME NEW i \in FrameIds, HandlerQuit(i) PROVE Inv'
  <2> USE <1>16 DEF HandlerQuit
  <2>1. TypeOK'
    BY DEF TypeOK, FlagsOK
  <2>2. LockExclusive'
    BY DEF LockExclusive, TypeOK
  <2>3. OrphansAreAbandoned'
    BY DEF OrphansAreAbandoned, TypeOK, CallsAreOpen, InCall, IdsInOrder, Answered,
           ExecutedWasSent, OnTheWay, UnsentWithCaller
  <2>4. Answered'
    BY DEF Answered, TypeOK, OnTheWay, CallsAreOpen, InCall
  <2>5. DistinctIds' /\ CallsAreOpen'
    BY DEF DistinctIds, CallsAreOpen, InCall
  <2>6. IdsInOrder' /\ WorkerHolds' /\ UnsentWithCaller' /\ OnTheWay' /\ ExecutedWasSent'
    BY DEF IdsInOrder, WorkerHolds, UnsentWithCaller, OnTheWay, ExecutedWasSent
  <2> QED
    BY <2>1, <2>2, <2>3, <2>4, <2>5, <2>6
<1>17. CASE Shutdown
  BY <1>17 DEF Shutdown, FlagsOK, TypeOK, LockExclusive, DistinctIds,
               OrphansAreAbandoned, CallsAreOpen, IdsInOrder, WorkerHolds,
               UnsentWithCaller, OnTheWay, ExecutedWasSent, Answered, InCall
<1>18. ASSUME NEW i \in InvokeIds, DeviceAnswer(i) PROVE Inv'
  <2> USE <1>18 DEF DeviceAnswer
  <2>1. TypeOK'
    BY DEF TypeOK, FlagsOK
  <2>2. OrphansAreAbandoned'
    BY DEF OrphansAreAbandoned, TypeOK, CallsAreOpen, InCall, IdsInOrder, Answered,
           ExecutedWasSent, OnTheWay, UnsentWithCaller
  <2>3. UnsentWithCaller'
    BY DEF UnsentWithCaller, TypeOK, CallsAreOpen, InCall, DistinctIds, IdsInOrder,
           OnTheWay, ExecutedWasSent, WorkerHolds
  <2>4. OnTheWay'
    BY DEF OnTheWay, TypeOK, CallsAreOpen, InCall, UnsentWithCaller, WorkerHolds
  <2>5. ExecutedWasSent'
    BY DEF ExecutedWasSent, TypeOK, CallsAreOpen, InCall, UnsentWithCaller, OnTheWay
  <2>6. Answered'
    BY DEF Answered, TypeOK, OnTheWay, CallsAreOpen, InCall
  <2>7. LockExclusive' /\ DistinctIds' /\ CallsAreOpen'
    BY DEF LockExclusive, DistinctIds, CallsAreOpen, InCall
  <2>8. IdsInOrder' /\ WorkerHolds'
    BY DEF IdsInOrder, WorkerHolds
  <2> QED
    BY <2>1, <2>2, <2>3, <2>4, <2>5, <2>6, <2>7, <2>8
<1>19. ASSUME NEW i \in InvokeIds, RouterRefuses(i) PROVE Inv'
  <2> USE <1>19 DEF RouterRefuses
  <2>1. TypeOK'
    BY DEF TypeOK, FlagsOK
  <2>2. OrphansAreAbandoned'
    BY DEF OrphansAreAbandoned, TypeOK, CallsAreOpen, InCall, IdsInOrder, Answered,
           ExecutedWasSent, OnTheWay, UnsentWithCaller
  <2>3. UnsentWithCaller'
    BY DEF UnsentWithCaller, TypeOK, CallsAreOpen, InCall, DistinctIds, IdsInOrder,
           OnTheWay, ExecutedWasSent, WorkerHolds
  <2>4. OnTheWay'
    BY DEF OnTheWay, TypeOK, CallsAreOpen, InCall, UnsentWithCaller, WorkerHolds
  <2>5. ExecutedWasSent'
    BY DEF ExecutedWasSent, TypeOK, CallsAreOpen, InCall, UnsentWithCaller, OnTheWay
  <2>6. Answered'
    BY DEF Answered, TypeOK, OnTheWay, CallsAreOpen, InCall
  <2>7. LockExclusive' /\ DistinctIds' /\ CallsAreOpen'
    BY DEF LockExclusive, DistinctIds, CallsAreOpen, InCall
  <2>8. IdsInOrder' /\ WorkerHolds'
    BY DEF IdsInOrder, WorkerHolds
  <2> QED
    BY <2>1, <2>2, <2>3, <2>4, <2>5, <2>6, <2>7, <2>8
<1>20. ASSUME NEW i \in StrayIds, DeviceStray(i) PROVE Inv'
  <2> USE <1>20 DEF DeviceStray
  <2>1. TypeOK'
    BY DEF TypeOK, FlagsOK
  <2>2. OrphansAreAbandoned'
    BY DEF OrphansAreAbandoned, TypeOK, CallsAreOpen, InCall, IdsInOrder, Answered,
           ExecutedWasSent, OnTheWay, UnsentWithCaller
  <2>3. Answered'
    BY DEF Answered, TypeOK, OnTheWay, CallsAreOpen, InCall
  <2>4. LockExclusive' /\ DistinctIds' /\ CallsAreOpen'
    BY DEF LockExclusive, DistinctIds, CallsAreOpen, InCall
  <2>5. IdsInOrder' /\ WorkerHolds' /\ UnsentWithCaller' /\ OnTheWay' /\ ExecutedWasSent'
    BY DEF IdsInOrder, WorkerHolds, UnsentWithCaller, OnTheWay, ExecutedWasSent
  <2> QED
    BY <2>1, <2>2, <2>3, <2>4, <2>5
<1>21. CASE LinkDown
  <2> USE <1>21 DEF LinkDown
  <2>1. TypeOK'
    BY DEF TypeOK, FlagsOK
  <2>2. OrphansAreAbandoned'
    BY DEF OrphansAreAbandoned, TypeOK, CallsAreOpen, InCall, IdsInOrder, Answered,
           ExecutedWasSent, OnTheWay, UnsentWithCaller
  <2>3. UnsentWithCaller'
    BY DEF UnsentWithCaller, TypeOK, CallsAreOpen, InCall, DistinctIds, IdsInOrder,
           OnTheWay, ExecutedWasSent, WorkerHolds
  <2>4. OnTheWay'
    BY DEF OnTheWay, TypeOK, CallsAreOpen, InCall, UnsentWithCaller, WorkerHolds
  <2>5. ExecutedWasSent'
    BY DEF ExecutedWasSent, TypeOK, CallsAreOpen, InCall, UnsentWithCaller, OnTheWay
  <2>6. Answered'
    BY DEF Answered, TypeOK, OnTheWay, CallsAreOpen, InCall
  <2>7. LockExclusive' /\ DistinctIds' /\ CallsAreOpen'
    BY DEF LockExclusive, DistinctIds, CallsAreOpen, InCall
  <2>8. IdsInOrder' /\ WorkerHolds'
    BY DEF IdsInOrder, WorkerHolds
  <2> QED
    BY <2>1, <2>2, <2>3, <2>4, <2>5, <2>6, <2>7, <2>8
<1>22. CASE WaitPanics
  <2> USE <1>22 DEF WaitPanics
  <2>1. TypeOK'
    BY DEF TypeOK, FlagsOK
  <2>2. LockExclusive' /\ DistinctIds' /\ CallsAreOpen'
    BY DEF LockExclusive, DistinctIds, CallsAreOpen, InCall
  <2>3. OrphansAreAbandoned' /\ IdsInOrder' /\ WorkerHolds' /\ UnsentWithCaller'
    BY DEF OrphansAreAbandoned, IdsInOrder, WorkerHolds, UnsentWithCaller
  <2>4. OnTheWay' /\ ExecutedWasSent' /\ Answered'
    BY DEF OnTheWay, ExecutedWasSent, Answered
  <2> QED
    BY <2>1, <2>2, <2>3, <2>4
<1>23. CASE UNCHANGED vars
  BY <1>23 DEF FlagsOK, TypeOK, LockExclusive, DistinctIds, OrphansAreAbandoned,
               CallsAreOpen, IdsInOrder, WorkerHolds, UnsentWithCaller, OnTheWay,
               ExecutedWasSent, Answered, InCall
<1> QED
  BY <1>1, <1>2, <1>3, <1>4, <1>5, <1>6, <1>7, <1>8, <1>9, <1>10, <1>11, <1>12, <1>13,
     <1>14, <1>15, <1>16, <1>17, <1>18, <1>19, <1>20, <1>21, <1>22, <1>23
     DEF Next, Background, CallerStep, Proceed, WorkerStep, ListenStep, HandlerStep, DeviceStep

\* The inductive invariant holds in every reachable state.
THEOREM Invariance == Spec => []Inv
<1>1. Init => Inv
  BY InvInit
<1>2. Inv /\ [Next]_vars => Inv'
  BY InvNext
<1> QED
  BY <1>1, <1>2, PTL DEF Spec

\* activeRequestLock never has two holders, and is never left locked by a
\* goroutine that has gone past its Unlock.
THEOREM LockIsExclusive == Spec => []LockExclusive
<1>1. Inv => LockExclusive
  BY DEF Inv
<1> QED
  BY <1>1, Invariance, PTL

\* However many calls there are, no two under way have the same invoke id.
THEOREM IdsAreDistinct == Spec => []DistinctIds
<1>1. Inv => DistinctIds
  BY DEF Inv
<1> QED
  BY <1>1, Invariance, PTL

\* A handler only ever works on the answer to a call that still waits or
\* that gave up waiting.
THEOREM HandlersServeOpenOrAbandoned == Spec => []OrphansAreAbandoned
<1>1. Inv => OrphansAreAbandoned
  BY DEF Inv
<1> QED
  BY <1>1, Invariance, PTL

-----------------------------------------------------------------------------

\* Every step of the implementation is one of the service or changes nothing
\* the service knows of.
LEMMA StepRefines == Inv /\ [Next]_vars => [Service!ServiceNext]_(Service!svars)
<1> SUFFICES ASSUME Inv, [Next]_vars PROVE [Service!ServiceNext]_(Service!svars)
  OBVIOUS
<1> USE MaxCallsAssumption
    DEF Inv, callerVars, netVars, Service!svars, Service!ServiceNext
<1>1. ASSUME NEW c \in Callers, Register(c) PROVE Service!ServiceNext
  <2>1. NextInvokeId \in InvokeIds /\ outcome[NextInvokeId] = "none"
    BY <1>1 DEF Register, NextInvokeId, TypeOK, IdsInOrder
  <2> QED
    BY <1>1, <2>1 DEF Register, Service!Begin
<1>2. ASSUME NEW c \in Callers, InCall(c) PROVE id[c] \in InvokeIds /\ outcome[id[c]] = "open"
  BY <1>2 DEF CallsAreOpen, TypeOK
<1>3. ASSUME NEW c \in Callers, GiveUpEnqueue(c) PROVE Service!ServiceNext
  <2>1. id[c] \in InvokeIds /\ outcome[id[c]] = "open"
    BY <1>2, <1>3 DEF GiveUpEnqueue, At, InCall
  <2>2. id[c] \notin executed
    BY <1>3 DEF GiveUpEnqueue, At, UnsentWithCaller
  <2>3. Service!Return(id[c], "empty")
    BY <1>3, <2>1, <2>2 DEF GiveUpEnqueue, Finish, Service!Return
  <2> QED
    BY <2>1, <2>3
<1>4. ASSUME NEW c \in Callers, GiveUpAwait(c) PROVE Service!ServiceNext
  <2>1. id[c] \in InvokeIds /\ outcome[id[c]] = "open"
    BY <1>2, <1>4 DEF GiveUpAwait, InCall
  <2>2. Service!Return(id[c], "error")
    BY <1>4, <2>1 DEF GiveUpAwait, Finish, Service!Return
  <2> QED
    BY <2>1, <2>2
<1>5. ASSUME NEW c \in Callers, Deliver(c) PROVE Service!ServiceNext
  <2>1. id[c] \in InvokeIds /\ outcome[id[c]] = "open"
    BY <1>2, <1>5 DEF Deliver, At, InCall
  <2>2. id[c] \in executed \cup refused
    BY <1>5, <2>1 DEF Deliver, Answered
  <2>3. Service!Return(id[c], Received(id[c]))
    BY <1>5, <2>1, <2>2 DEF Deliver, Received, Finish, OnTheWay, Service!Return
  <2> QED
    BY <2>1, <2>3 DEF Received
<1>6. ASSUME NEW i \in InvokeIds, DeviceAnswer(i) PROVE Service!ServiceNext
  <2>1. Service!Execute({i})
    BY <1>6 DEF DeviceAnswer, OnTheWay, Service!Execute
  <2> QED
    BY <2>1
<1>7. CASE LinkDown
  <2>1. PICK S \in SUBSET toDevice : executed' = executed \cup S
    BY <1>7 DEF LinkDown
  <2>2. Service!Execute(S)
    BY <1>7, <2>1 DEF LinkDown, OnTheWay, TypeOK, Service!Execute
  <2> QED
    BY <2>1, <2>2 DEF TypeOK
<1>8. ASSUME NEW c \in Callers,
             Call(c) \/ Publish(c) \/ Enqueue(c) \/ Select(c) \/ RacySelect(c)
      PROVE UNCHANGED Service!svars
  BY <1>8 DEF Call, Publish, Enqueue, Select, RacySelect
<1>9. CASE WorkerStep \/ ListenStep \/ HandlerStep \/ Shutdown
  BY <1>9 DEF WorkerStep, WorkerWrite, WorkerExit, ListenStep, ListenSelect, ListenRead,
              ListenFail, HandlerStep, HandlerLock, HandlerQuit, Shutdown
<1>10. ASSUME NEW i \in StrayIds \cup InvokeIds, DeviceStray(i) \/ RouterRefuses(i)
       PROVE  UNCHANGED Service!svars
  BY <1>10 DEF DeviceStray, RouterRefuses
<1>12. CASE WaitPanics
  BY <1>12 DEF WaitPanics
<1>11. CASE UNCHANGED vars
  BY <1>11 DEF vars
<1> QED
  BY <1>1, <1>3, <1>4, <1>5, <1>6, <1>7, <1>8, <1>9, <1>10, <1>11, <1>12
     DEF Next, Background, CallerStep, Proceed, DeviceStep

\* Whatever the goroutines do, a request is executed at most once, an answered
\* call was executed, and a call that returned neither answer nor error never
\* reaches the device.
THEOREM Refinement == Spec => KeepsPromises
<1>1. Init => Service!ServiceInit
  BY DEF Init, Service!ServiceInit
<1> QED
  BY <1>1, StepRefines, Invariance, PTL DEF Spec, KeepsPromises, Service!ServiceSpec

-----------------------------------------------------------------------------

\* Once a late answer's handler is stuck with the lock, no call gets an
\* invoke id any more and only a shutdown frees the lock.
THEOREM OrphansBlock == Spec => OrphanBlocksNewCalls
<1> DEFINE Kept == currentRequest' = currentRequest /\ (activeRequestLock' \/ shutdown)
<1>1. Inv /\ Orphaned /\ [Next]_vars => Kept
  <2> SUFFICES ASSUME Inv, Orphaned, [Next]_vars PROVE Kept
    OBVIOUS
  <2> USE DEF callerVars, mapVars, lifeVars
  <2>1. PICK i \in FrameIds : handler[i] = "deliver" /\ ~Waiting(i)
    BY DEF Orphaned, Orphan
  <2>2. activeRequestLock /\ \A c \in Callers : pc[c] # "register"
    BY <2>1 DEF Inv, LockExclusive
  <2>3. ASSUME NEW c \in Callers, CallerStep(c) PROVE Kept
    <3>1. ~Register(c) /\ ~Publish(c)
      BY <2>2 DEF Register, LockFree, Publish, At
    <3>2. ~Deliver(c)
      <4> SUFFICES ASSUME Deliver(c) PROVE FALSE
        OBVIOUS
      <4>1. id[c] \in FrameIds /\ handler[id[c]] = "deliver" /\ pc[c] = "await"
        BY MaxCallsAssumption DEF Deliver, At, Inv, CallsAreOpen, InCall, TypeOK
      <4>2. id[c] = i
        BY <2>1, <4>1 DEF Inv, LockExclusive
      <4> QED
        BY <2>1, <4>1, <4>2 DEF Waiting
    <3> QED
      BY <2>2, <2>3, <3>1, <3>2
         DEF CallerStep, Proceed, Call, Enqueue, GiveUpEnqueue, Select, RacySelect, GiveUpAwait
  <2>4. CASE HandlerStep
    BY <2>2, <2>4 DEF HandlerStep, HandlerLock, LockFree, HandlerQuit
  <2>5. CASE WorkerStep \/ ListenStep \/ Shutdown \/ WaitPanics \/ DeviceStep
    BY <2>2, <2>5 DEF WorkerStep, WorkerWrite, WorkerExit, ListenStep, ListenSelect, ListenRead,
       ListenFail, Shutdown, WaitPanics, DeviceStep, DeviceAnswer, RouterRefuses, DeviceStray, LinkDown
  <2>6. CASE UNCHANGED vars
    BY <2>2, <2>6 DEF vars
  <2> QED
    BY <2>3, <2>4, <2>5, <2>6 DEF Next, Background
<1>2. Inv /\ [Next]_vars => [Orphaned => Kept]_vars
  BY <1>1
<1> QED
  BY <1>2, Invariance, PTL DEF Spec, OrphanBlocksNewCalls

=============================================================================
