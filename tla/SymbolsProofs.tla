--------------------------- MODULE SymbolsProofs ---------------------------
(***************************************************************************)
(* What holds of Symbols for every set of users and of symbols.            *)
(***************************************************************************)
EXTENDS Symbols, SequenceTheorems, TLAPS

USE NoneAssumption, UploadedAssumption, BoundsAssumption
USE DEF None, Subs, Frames, Kinds, Places

\* After Connect nobody has asked for anything.
LEMMA InvInit == Init => Inv
<1> SUFFICES ASSUME Init PROVE Inv
  OBVIOUS
<1> USE DEF Init
<1>1. TypeOK
  <2>1. <<>> \in Seq(Subs)
    BY EmptySeq
  <2>2. frame \in [Frames -> Seq(Subs)] /\ sending = None
    BY <2>1
  <2>3. handles \in [Names -> 0 .. MaxHandles]
    OBVIOUS
  <2> QED
    BY <2>2, <2>3 DEF TypeOK
<1>2. LockHeld /\ CallsInOrder
  BY DEF LockHeld, Holds, CallsInOrder
<1>3. OneHandlePerSymbol /\ HandlesOnTheWay
  BY DEF OneHandlePerSymbol, HandlesOnTheWay
<1>4. SubscriptionsAccountedFor /\ OffersHaveSubscriber /\ SubsOnTheWay
  BY DEF SubscriptionsAccountedFor, OffersHaveSubscriber, SubsOnTheWay
<1> QED
  BY <1>1, <1>2, <1>3, <1>4 DEF Inv

\* Every step of a user, a handler or the device preserves it.
LEMMA InvNext == Inv /\ [Next]_vars => Inv'
<1> SUFFICES ASSUME Inv, [Next]_vars PROVE Inv'
  OBVIOUS
<1> USE DEF Inv, vars, callVars, symbolVars, noteVars, lifeVars, deviceVars, At, Goto, Return,
            Send, Over, Answer, GiveUp, Unsent, Abandon, LockFree, Lock, Unlock
<1>1. ASSUME NEW u \in Users, Call(u) PROVE Inv'
  <2> USE <1>1 DEF Call
  <2>1. TypeOK'
    BY DEF TypeOK
  <2>2. LockHeld' /\ CallsInOrder'
    BY DEF LockHeld, Holds, CallsInOrder, TypeOK
  <2>3. OneHandlePerSymbol' /\ HandlesOnTheWay'
    BY DEF OneHandlePerSymbol, HandlesOnTheWay, CallsInOrder, TypeOK
  <2>4. SubscriptionsAccountedFor'
    BY DEF SubscriptionsAccountedFor, SubsOnTheWay, CallsInOrder, TypeOK
  <2>5. OffersHaveSubscriber'
    BY DEF OffersHaveSubscriber, SubsOnTheWay, TypeOK
  <2>6. SubsOnTheWay'
    BY DEF SubsOnTheWay, CallsInOrder, TypeOK
  <2> QED
    BY <2>1, <2>2, <2>3, <2>4, <2>5, <2>6
<1>2. ASSUME NEW u \in Users, GetMissing(u) PROVE Inv'
  <2> USE <1>2 DEF GetMissing
  <2>error. /\ pc' \in {[pc EXCEPT ![u] = "idle"], [pc EXCEPT ![u] = "failed"]}
            /\ kind' \in {kind, [kind EXCEPT ![u] = "none"]}
            /\ name' = name \/ (pc'[u] = "idle" /\ name' = [name EXCEPT ![u] = None])
    BY DEF AfterError, TypeOK
  <2>others. \A v \in Users \ {u} : /\ pc'[v] = pc[v] /\ name'[v] = name[v]
                                   /\ request'[v] = request[v] /\ newSub'[v] = newSub[v]
    BY <2>error DEF TypeOK
  <2>1. TypeOK'
    BY <2>error, <2>others DEF TypeOK
  <2>2. LockHeld' /\ CallsInOrder'
    BY <2>error, <2>others DEF LockHeld, Holds, CallsInOrder, TypeOK
  <2>3. OneHandlePerSymbol' /\ HandlesOnTheWay'
    <3>1. \A v \in Users : pc[v] = "ask" => v # u
      OBVIOUS
    <3>2. u \in Users => pc'[u] # "ask"
      BY <2>error DEF TypeOK
    <3> QED
      BY <3>1, <3>2, <2>others DEF OneHandlePerSymbol, HandlesOnTheWay
  <2>4. SubscriptionsAccountedFor'
    BY <2>error, <2>others DEF SubscriptionsAccountedFor, SubsOnTheWay, CallsInOrder, TypeOK
  <2>5. OffersHaveSubscriber'
    BY <2>error, <2>others DEF OffersHaveSubscriber, SubsOnTheWay, TypeOK
  <2>6. SubsOnTheWay'
    BY <2>error, <2>others DEF SubsOnTheWay, CallsInOrder, TypeOK
  <2> QED
    BY <2>1, <2>2, <2>3, <2>4, <2>5, <2>6
<1>3. ASSUME NEW u \in Users, GetKnown(u) PROVE Inv'
  <2> USE <1>3 DEF GetKnown
  <2>1. TypeOK'
    BY DEF TypeOK
  <2>2. LockHeld' /\ CallsInOrder'
    BY DEF LockHeld, Holds, CallsInOrder, TypeOK
  <2>3. OneHandlePerSymbol' /\ HandlesOnTheWay'
    BY DEF OneHandlePerSymbol, HandlesOnTheWay, CallsInOrder, TypeOK
  <2>4. SubscriptionsAccountedFor'
    BY DEF SubscriptionsAccountedFor, SubsOnTheWay, CallsInOrder, TypeOK
  <2>5. OffersHaveSubscriber'
    BY DEF OffersHaveSubscriber, SubsOnTheWay, TypeOK
  <2>6. SubsOnTheWay'
    BY DEF SubsOnTheWay, CallsInOrder, TypeOK
  <2> QED
    BY <2>1, <2>2, <2>3, <2>4, <2>5, <2>6
<1>4. ASSUME NEW u \in Users, GetUnknown(u) PROVE Inv'
  <2> USE <1>4 DEF GetUnknown
  <2>1. TypeOK'
    BY DEF TypeOK
  <2>2. LockHeld' /\ CallsInOrder'
    BY DEF LockHeld, Holds, CallsInOrder, TypeOK
  <2>3. OneHandlePerSymbol' /\ HandlesOnTheWay'
    BY DEF OneHandlePerSymbol, HandlesOnTheWay, CallsInOrder, TypeOK
  <2>4. SubscriptionsAccountedFor'
    BY DEF SubscriptionsAccountedFor, SubsOnTheWay, CallsInOrder, TypeOK
  <2>5. OffersHaveSubscriber'
    BY DEF OffersHaveSubscriber, SubsOnTheWay, TypeOK
  <2>6. SubsOnTheWay'
    BY DEF SubsOnTheWay, CallsInOrder, TypeOK
  <2> QED
    BY <2>1, <2>2, <2>3, <2>4, <2>5, <2>6
<1>5. ASSUME NEW u \in Users, GotHandle(u) PROVE Inv'
  <2> USE <1>5 DEF GotHandle
  <2>others. \A v \in Users \ {u} : /\ pc'[v] = pc[v] /\ name'[v] = name[v]
                                   /\ request'[v] = request[v] /\ newSub'[v] = newSub[v]
    BY DEF TypeOK
  <2>name. name[u] \in Uploaded /\ Holds(u)
    BY DEF CallsInOrder, Holds
  <2>alone. \A v \in Users \ {u} : pc[v] # "ask"
    BY <2>name DEF LockHeld, Holds
  <2>1. TypeOK'
    BY <2>others, <2>name DEF TypeOK
  <2>2. LockHeld'
    BY <2>others, <2>name DEF LockHeld, Holds, TypeOK
  <2>3. CallsInOrder'
    BY <2>others, <2>name, <2>alone DEF CallsInOrder, TypeOK
  <2>4. OneHandlePerSymbol'
    BY <2>others, <2>name DEF OneHandlePerSymbol, HandlesOnTheWay, CallsInOrder, TypeOK
  <2>5. HandlesOnTheWay'
    BY <2>others, <2>name DEF HandlesOnTheWay, CallsInOrder, TypeOK
  <2>6. SubscriptionsAccountedFor'
    BY <2>others, <2>name DEF SubscriptionsAccountedFor, SubsOnTheWay, CallsInOrder, TypeOK
  <2>7. OffersHaveSubscriber'
    BY <2>others, <2>name DEF OffersHaveSubscriber, SubsOnTheWay, TypeOK
  <2>8. SubsOnTheWay'
    BY <2>others, <2>name DEF SubsOnTheWay, CallsInOrder, TypeOK
  <2> QED
    BY <2>1, <2>2, <2>3, <2>4, <2>5, <2>6, <2>7, <2>8
<1>6. ASSUME NEW u \in Users, NoHandle(u) PROVE Inv'
  <2> USE <1>6 DEF NoHandle
  <2>error. /\ pc' \in {[pc EXCEPT ![u] = "idle"], [pc EXCEPT ![u] = "failed"]}
            /\ kind' \in {kind, [kind EXCEPT ![u] = "none"]}
            /\ name' = name \/ (pc'[u] = "idle" /\ name' = [name EXCEPT ![u] = None])
    BY DEF AfterError, TypeOK
  <2>others. \A v \in Users \ {u} : /\ pc'[v] = pc[v] /\ name'[v] = name[v]
                                   /\ request'[v] = request[v] /\ newSub'[v] = newSub[v]
    BY <2>error DEF TypeOK
  <2>abandoned. /\ name[u] \in Names /\ gaveUp' = gaveUp \cup {<<"ask", name[u]>>}
                /\ abandoned' \in {abandoned, abandoned \cup {<<"ask", name[u]>>}}
    BY DEF CallsInOrder
  <2>1. TypeOK'
    <3>1. pc' \in [Users -> Places] /\ kind' \in [Users -> Kinds \cup {"none"}]
          /\ name' \in [Users -> Names \cup {None}]
      BY <2>error DEF TypeOK
    <3>2. request' \in [Users -> {"none", "sent", "executed"}]
      BY DEF TypeOK
    <3>3. gaveUp' \subseteq {"ask", "add"} \X Names /\ abandoned' \subseteq {"ask", "add"} \X Names
      BY <2>abandoned DEF TypeOK
    <3> QED
      BY <3>1, <3>2, <3>3 DEF TypeOK
  <2>2. LockHeld'
    BY <2>error, <2>others, <2>abandoned DEF LockHeld, Holds, TypeOK
  <2>3. CallsInOrder'
    BY <2>error, <2>others, <2>abandoned DEF CallsInOrder, TypeOK
  <2>4. OneHandlePerSymbol'
    BY <2>error, <2>others, <2>abandoned DEF OneHandlePerSymbol, HandlesOnTheWay, CallsInOrder,
        TypeOK
  <2>5. HandlesOnTheWay'
    <3>1. pc'[u] # "ask"
      BY <2>error DEF TypeOK
    <3>2. \A v \in Users : pc'[v] = "ask" => v # u
      BY <3>1
    <3>3. abandoned' \subseteq gaveUp'
      BY <2>abandoned DEF HandlesOnTheWay
    <3>4. ASSUME NEW s \in Names, handles[s] > 0, s \notin hasHandle, <<"ask", s>> \notin gaveUp'
          PROVE  \E v \in Users : pc'[v] = "ask" /\ name'[v] = s /\ request'[v] = "executed"
      <4>1. PICK v \in Users : pc[v] = "ask" /\ name[v] = s /\ request[v] = "executed"
        BY <3>4, <2>abandoned DEF HandlesOnTheWay
      <4>2. v # u
        BY <3>4, <4>1, <2>abandoned
      <4> QED
        BY <4>1, <4>2, <2>others
    <3> QED
      BY <3>2, <3>3, <3>4, <2>others DEF HandlesOnTheWay
  <2>6. SubscriptionsAccountedFor'
    <3>1. \A v \in Users : newSub[v] # None => v # u
      BY DEF SubsOnTheWay
    <3> QED
      BY <3>1, <2>others, <2>abandoned DEF SubscriptionsAccountedFor
  <2>7. OffersHaveSubscriber'
    BY DEF OffersHaveSubscriber
  <2>8. SubsOnTheWay'
    BY <2>error, <2>others DEF SubsOnTheWay, TypeOK
  <2> QED
    BY <2>1, <2>2, <2>3, <2>4, <2>5, <2>6, <2>7, <2>8
<1>7. ASSUME NEW u \in Users, NoResponse(u) PROVE Inv'
  <2> USE <1>7 DEF NoResponse
  <2>1. TypeOK'
    BY DEF TypeOK
  <2>2. LockHeld' /\ CallsInOrder'
    BY DEF LockHeld, Holds, CallsInOrder, TypeOK
  <2>3. OneHandlePerSymbol' /\ HandlesOnTheWay'
    BY DEF OneHandlePerSymbol, HandlesOnTheWay, CallsInOrder, TypeOK
  <2>4. SubscriptionsAccountedFor'
    BY DEF SubscriptionsAccountedFor, SubsOnTheWay, CallsInOrder, TypeOK
  <2>5. OffersHaveSubscriber'
    BY DEF OffersHaveSubscriber, SubsOnTheWay, TypeOK
  <2>6. SubsOnTheWay'
    BY DEF SubsOnTheWay, CallsInOrder, TypeOK
  <2> QED
    BY <2>1, <2>2, <2>3, <2>4, <2>5, <2>6
<1>8. ASSUME NEW u \in Users, Fail(u) PROVE Inv'
  <2> USE <1>8 DEF Fail
  <2>1. TypeOK'
    BY DEF TypeOK
  <2>2. LockHeld' /\ CallsInOrder'
    BY DEF LockHeld, Holds, CallsInOrder, TypeOK
  <2>3. OneHandlePerSymbol' /\ HandlesOnTheWay'
    BY DEF OneHandlePerSymbol, HandlesOnTheWay, CallsInOrder, TypeOK
  <2>4. SubscriptionsAccountedFor'
    BY DEF SubscriptionsAccountedFor, SubsOnTheWay, CallsInOrder, TypeOK
  <2>5. OffersHaveSubscriber'
    BY DEF OffersHaveSubscriber, SubsOnTheWay, TypeOK
  <2>6. SubsOnTheWay'
    BY DEF SubsOnTheWay, CallsInOrder, TypeOK
  <2> QED
    BY <2>1, <2>2, <2>3, <2>4, <2>5, <2>6
<1>9. ASSUME NEW u \in Users, UseLocally(u) PROVE Inv'
  <2> USE <1>9 DEF UseLocally
  <2>1. TypeOK'
    BY DEF TypeOK
  <2>2. LockHeld' /\ CallsInOrder'
    BY DEF LockHeld, Holds, CallsInOrder, TypeOK
  <2>3. OneHandlePerSymbol' /\ HandlesOnTheWay'
    BY DEF OneHandlePerSymbol, HandlesOnTheWay, CallsInOrder, TypeOK
  <2>4. SubscriptionsAccountedFor'
    BY DEF SubscriptionsAccountedFor, SubsOnTheWay, CallsInOrder, TypeOK
  <2>5. OffersHaveSubscriber'
    BY DEF OffersHaveSubscriber, SubsOnTheWay, TypeOK
  <2>6. SubsOnTheWay'
    BY DEF SubsOnTheWay, CallsInOrder, TypeOK
  <2> QED
    BY <2>1, <2>2, <2>3, <2>4, <2>5, <2>6
<1>10. ASSUME NEW u \in Users, Transfer(u) PROVE Inv'
  <2> USE <1>10 DEF Transfer
  <2>1. TypeOK'
    BY DEF TypeOK
  <2>2. LockHeld' /\ CallsInOrder'
    BY DEF LockHeld, Holds, CallsInOrder, TypeOK
  <2>3. OneHandlePerSymbol' /\ HandlesOnTheWay'
    BY DEF OneHandlePerSymbol, HandlesOnTheWay, CallsInOrder, TypeOK
  <2>4. SubscriptionsAccountedFor'
    BY DEF SubscriptionsAccountedFor, SubsOnTheWay, CallsInOrder, TypeOK
  <2>5. OffersHaveSubscriber'
    BY DEF OffersHaveSubscriber, SubsOnTheWay, TypeOK
  <2>6. SubsOnTheWay'
    BY DEF SubsOnTheWay, CallsInOrder, TypeOK
  <2> QED
    BY <2>1, <2>2, <2>3, <2>4, <2>5, <2>6
<1>11. ASSUME NEW u \in Users, Transferred(u) PROVE Inv'
  <2> USE <1>11 DEF Transferred
  <2>others. \A v \in Users \ {u} : /\ pc'[v] = pc[v] /\ name'[v] = name[v]
                                   /\ request'[v] = request[v] /\ newSub'[v] = newSub[v]
    BY DEF TypeOK
  <2>1. TypeOK'
    BY <2>others DEF TypeOK
  <2>2. LockHeld' /\ CallsInOrder'
    BY <2>others DEF LockHeld, Holds, CallsInOrder, TypeOK
  <2>3. OneHandlePerSymbol' /\ HandlesOnTheWay'
    BY <2>others DEF OneHandlePerSymbol, HandlesOnTheWay, CallsInOrder, TypeOK
  <2>4. SubscriptionsAccountedFor' /\ OffersHaveSubscriber'
    BY <2>others DEF SubscriptionsAccountedFor, SubsOnTheWay, CallsInOrder,
        OffersHaveSubscriber, TypeOK
  <2>5. SubsOnTheWay'
    <3>1. newSub[u] = None /\ newSub' = newSub /\ pc'[u] = "idle"
      BY DEF SubsOnTheWay, TypeOK
    <3> QED
      BY <3>1, <2>others DEF SubsOnTheWay
  <2> QED
    BY <2>1, <2>2, <2>3, <2>4, <2>5
<1>12. ASSUME NEW u \in Users, Add(u) PROVE Inv'
  <2> USE <1>12 DEF Add
  <2>1. TypeOK'
    BY DEF TypeOK
  <2>2. LockHeld' /\ CallsInOrder'
    BY DEF LockHeld, Holds, CallsInOrder, TypeOK
  <2>3. OneHandlePerSymbol' /\ HandlesOnTheWay'
    BY DEF OneHandlePerSymbol, HandlesOnTheWay, CallsInOrder, TypeOK
  <2>4. SubscriptionsAccountedFor'
    BY DEF SubscriptionsAccountedFor, SubsOnTheWay, CallsInOrder, TypeOK
  <2>5. OffersHaveSubscriber'
    BY DEF OffersHaveSubscriber, SubsOnTheWay, TypeOK
  <2>6. SubsOnTheWay'
    BY DEF SubsOnTheWay, CallsInOrder, TypeOK
  <2> QED
    BY <2>1, <2>2, <2>3, <2>4, <2>5, <2>6
<1>13. ASSUME NEW u \in Users, Added(u) PROVE Inv'
  <2> USE <1>13 DEF Added
  <2>1. TypeOK'
    BY DEF TypeOK
  <2>2. LockHeld' /\ CallsInOrder'
    BY DEF LockHeld, Holds, CallsInOrder, TypeOK
  <2>3. OneHandlePerSymbol' /\ HandlesOnTheWay'
    BY DEF OneHandlePerSymbol, HandlesOnTheWay, CallsInOrder, TypeOK
  <2>4. SubscriptionsAccountedFor'
    BY DEF SubscriptionsAccountedFor, SubsOnTheWay, CallsInOrder, TypeOK
  <2>5. OffersHaveSubscriber'
    BY DEF OffersHaveSubscriber, SubsOnTheWay, TypeOK
  <2>6. SubsOnTheWay'
    BY DEF SubsOnTheWay, CallsInOrder, TypeOK
  <2> QED
    BY <2>1, <2>2, <2>3, <2>4, <2>5, <2>6
<1>14. ASSUME NEW u \in Users, NotAdded(u) PROVE Inv'
  <2> USE <1>14 DEF NotAdded
  <2>others. \A v \in Users \ {u} : /\ pc'[v] = pc[v] /\ name'[v] = name[v]
                                   /\ request'[v] = request[v] /\ newSub'[v] = newSub[v]
    BY DEF TypeOK
  <2>abandoned. /\ name[u] \in Names /\ gaveUp' \in {gaveUp, gaveUp \cup {<<"add", name[u]>>}}
                /\ \/ abandoned' = abandoned
                   \/ <<"add", name[u]>> \in gaveUp' /\ abandoned' = abandoned \cup {<<"add", name[u]>>}
                /\ request[u] = "executed" => <<"add", name[u]>> \in gaveUp'
    BY DEF CallsInOrder
  <2>1. TypeOK'
    BY <2>others, <2>abandoned DEF TypeOK
  <2>2. LockHeld' /\ CallsInOrder'
    BY <2>others, <2>abandoned DEF LockHeld, Holds, CallsInOrder, TypeOK
  <2>3. OneHandlePerSymbol' /\ HandlesOnTheWay'
    BY <2>others, <2>abandoned DEF OneHandlePerSymbol, HandlesOnTheWay, CallsInOrder, TypeOK
  <2>4. SubscriptionsAccountedFor'
    BY <2>others, <2>abandoned DEF SubscriptionsAccountedFor, SubsOnTheWay, CallsInOrder, TypeOK
  <2>5. OffersHaveSubscriber'
    BY <2>others, <2>abandoned DEF OffersHaveSubscriber, SubsOnTheWay, TypeOK
  <2>6. SubsOnTheWay'
    <3>1. newSub'[u] = None /\ pc'[u] = "idle"
      BY DEF TypeOK
    <3>2. \A v \in Users : newSub'[v] # None => v # u
      BY <3>1
    <3> QED
      BY <3>1, <3>2, <2>others DEF SubsOnTheWay
  <2> QED
    BY <2>1, <2>2, <2>3, <2>4, <2>5, <2>6
<1>15. ASSUME NEW u \in Users, Record(u) PROVE Inv'
  <2> USE <1>15 DEF Record
  <2>1. TypeOK'
    BY DEF TypeOK
  <2>2. LockHeld' /\ CallsInOrder'
    BY DEF LockHeld, Holds, CallsInOrder, TypeOK
  <2>3. OneHandlePerSymbol' /\ HandlesOnTheWay'
    BY DEF OneHandlePerSymbol, HandlesOnTheWay, CallsInOrder, TypeOK
  <2>4. SubscriptionsAccountedFor'
    BY DEF SubscriptionsAccountedFor, SubsOnTheWay, CallsInOrder, TypeOK
  <2>5. OffersHaveSubscriber'
    BY DEF OffersHaveSubscriber, SubsOnTheWay, TypeOK
  <2>6. SubsOnTheWay'
    BY DEF SubsOnTheWay, CallsInOrder, TypeOK
  <2> QED
    BY <2>1, <2>2, <2>3, <2>4, <2>5, <2>6
<1>16. ASSUME NEW u \in Users, Receive(u) PROVE Inv'
  <2> USE <1>16 DEF Receive, OfferOver, DropSample
  <2>frames. frame' \in [Frames -> Seq(Subs)]
    BY HeadTailProperties DEF TypeOK, OffersHaveSubscriber
  <2>1. TypeOK'
    BY <2>frames DEF TypeOK
  <2>2. LockHeld' /\ CallsInOrder'
    BY <2>frames DEF LockHeld, Holds, CallsInOrder, TypeOK
  <2>3. OneHandlePerSymbol' /\ HandlesOnTheWay'
    BY <2>frames DEF OneHandlePerSymbol, HandlesOnTheWay, CallsInOrder, TypeOK
  <2>4. SubscriptionsAccountedFor'
    BY <2>frames DEF SubscriptionsAccountedFor, SubsOnTheWay, CallsInOrder, TypeOK
  <2>5. OffersHaveSubscriber'
    BY <2>frames DEF OffersHaveSubscriber, SubsOnTheWay, TypeOK
  <2>6. SubsOnTheWay'
    BY <2>frames DEF SubsOnTheWay, CallsInOrder, TypeOK
  <2> QED
    BY <2>1, <2>2, <2>3, <2>4, <2>5, <2>6
<1>17. ASSUME NEW u \in Users, DeviceExecute(u) PROVE Inv'
  <2> USE <1>17 DEF DeviceExecute
  <2>name. name[u] \in Names
    BY DEF CallsInOrder, TypeOK
  <2>request. /\ request[u] = "sent" /\ request'[u] = "executed"
              /\ \A v \in Users \ {u} : request'[v] = request[v]
              /\ request' \in [Users -> {"none", "sent", "executed"}]
    BY DEF TypeOK
  <2>1. LockHeld' /\ CallsInOrder'
    BY <2>request DEF LockHeld, Holds, CallsInOrder
  <2>2. CASE pc[u] = "ask"
    <3> DEFINE s == name[u]
    <3>new. /\ handles[s] < MaxHandles /\ handles' = [handles EXCEPT ![s] = @ + 1]
            /\ UNCHANGED <<subscribed, newSub>>
      BY <2>2 DEF NewHandle
    <3>nat. s \in Names /\ \A q \in Names : handles[q] \in Nat
      BY <2>name DEF TypeOK
    <3>more. \A r \in Names : handles'[r] = IF r = s THEN handles[s] + 1 ELSE handles[r]
      BY <3>new, <2>name DEF TypeOK
    <3>1. TypeOK'
      <4>1. handles' \in [Names -> 0 .. MaxHandles]
        BY <3>new, <2>name DEF TypeOK
      <4> QED
        BY <4>1, <3>new, <2>request DEF TypeOK
    <3>2. OneHandlePerSymbol'
      <4>1. <<"ask", s>> \in gaveUp \/ handles[s] = 0
        <5>1. ~\E v \in Users : pc[v] = "ask" /\ name[v] = s /\ request[v] = "executed"
          BY <2>2, <2>request DEF LockHeld, Holds
        <5>2. s \notin hasHandle
          BY <2>2 DEF CallsInOrder
        <5> QED
          BY <5>1, <5>2, <3>nat DEF HandlesOnTheWay
      <4>2. handles'[s] > 1 => <<"ask", s>> \in gaveUp
        BY <4>1, <3>more, <3>nat
      <4>3. ASSUME NEW q \in Names
            PROVE  (handles'[q] > 1 => <<"ask", q>> \in gaveUp) /\ (q \in hasHandle => handles'[q] > 0)
        BY <4>2, <3>more, <3>nat DEF OneHandlePerSymbol
      <4> QED
        BY <4>3 DEF OneHandlePerSymbol
    <3>3. HandlesOnTheWay'
      <4>1. \A v \in Users : pc[v] = "ask" => name[v] \in Names
        BY DEF CallsInOrder
      <4>2. \A v \in Users : pc[v] = "ask" /\ request'[v] = "executed" => handles'[name[v]] > 0
        BY <4>1, <3>more, <3>nat, <2>request DEF HandlesOnTheWay
      <4>3. ASSUME NEW r \in Names, handles'[r] > 0, r \notin hasHandle, <<"ask", r>> \notin gaveUp
            PROVE  \E v \in Users : pc[v] = "ask" /\ name[v] = r /\ request'[v] = "executed"
        <5>1. CASE r = s
          BY <5>1, <2>2, <2>request
        <5>2. CASE r # s
          BY <5>2, <4>3, <3>more, <2>request DEF HandlesOnTheWay
        <5> QED
          BY <5>1, <5>2
      <4> QED
        BY <4>2, <4>3 DEF HandlesOnTheWay
    <3>4. SubscriptionsAccountedFor' /\ OffersHaveSubscriber'
      BY <3>new DEF SubscriptionsAccountedFor, OffersHaveSubscriber
    <3>5. SubsOnTheWay'
      BY <3>new, <2>2, <2>request DEF SubsOnTheWay
    <3> QED
      BY <2>1, <3>1, <3>2, <3>3, <3>4, <3>5
  <2>3. CASE pc[u] = "add"
    <3>new. UNCHANGED handles
      BY <2>3
    <3>n. PICK n \in Subs : NewSub(n, name[u]) /\ newSub' = [newSub EXCEPT ![u] = n]
      BY <2>3
    <3>sub. /\ subscribed[n] = None /\ newSub[u] = None /\ activeNotifications[n] = None
            /\ newSub'[u] = n /\ subscribed'[n] = name[u]
            /\ \A v \in Users \ {u} : newSub'[v] = newSub[v]
            /\ \A m \in Subs \ {n} : subscribed'[m] = subscribed[m]
      <4>1. subscribed[n] = None /\ subscribed' = [subscribed EXCEPT ![n] = name[u]]
        BY <3>n DEF NewSub
      <4>2. newSub[u] = None
        BY <2>3, <2>request DEF SubsOnTheWay
      <4>3. activeNotifications[n] = None
        BY <4>1 DEF OffersHaveSubscriber
      <4> QED
        BY <4>1, <4>2, <4>3, <3>n DEF TypeOK
    <3>1. TypeOK'
      BY <3>new, <3>n, <2>name, <2>request DEF NewSub, TypeOK
    <3>2. OneHandlePerSymbol' /\ HandlesOnTheWay'
      BY <3>new, <2>3, <2>request DEF OneHandlePerSymbol, HandlesOnTheWay
    <3>3. SubscriptionsAccountedFor'
      BY <3>sub, <2>3 DEF SubscriptionsAccountedFor
    <3>4. OffersHaveSubscriber'
      BY <3>sub DEF OffersHaveSubscriber
    <3>5. SubsOnTheWay'
      <4>1. \A v \in Users \ {u} : newSub[v] # None => newSub[v] \in Subs \ {n}
        BY <3>sub DEF SubsOnTheWay, CallsInOrder, TypeOK
      <4> QED
        BY <4>1, <3>sub, <2>3, <2>request, <2>name DEF SubsOnTheWay
    <3> QED
      BY <2>1, <3>1, <3>2, <3>3, <3>4, <3>5
  <2>4. CASE pc[u] = "transfer"
    <3>new. UNCHANGED <<handles, subscribed, newSub>>
      BY <2>4
    <3>1. TypeOK'
      BY <3>new, <2>request DEF TypeOK
    <3>2. OneHandlePerSymbol' /\ HandlesOnTheWay'
      BY <3>new, <2>4, <2>request DEF OneHandlePerSymbol, HandlesOnTheWay
    <3>3. SubscriptionsAccountedFor' /\ OffersHaveSubscriber'
      BY <3>new DEF SubscriptionsAccountedFor, OffersHaveSubscriber
    <3>4. SubsOnTheWay'
      BY <3>new, <2>4, <2>request DEF SubsOnTheWay
    <3> QED
      BY <2>1, <3>1, <3>2, <3>3, <3>4
  <2> QED
    BY <2>2, <2>3, <2>4
<1>18. ASSUME NEW f \in Frames, Discard(f) PROVE Inv'
  <2> USE <1>18 DEF Discard, HasSample, DropSample
  <2>frames. frame' \in [Frames -> Seq(Subs)]
    BY HeadTailProperties DEF TypeOK
  <2>1. TypeOK'
    BY <2>frames DEF TypeOK
  <2>2. LockHeld' /\ CallsInOrder'
    BY <2>frames DEF LockHeld, Holds, CallsInOrder, TypeOK
  <2>3. OneHandlePerSymbol' /\ HandlesOnTheWay'
    BY <2>frames DEF OneHandlePerSymbol, HandlesOnTheWay, CallsInOrder, TypeOK
  <2>4. SubscriptionsAccountedFor'
    BY <2>frames DEF SubscriptionsAccountedFor, SubsOnTheWay, CallsInOrder, TypeOK
  <2>5. OffersHaveSubscriber'
    BY <2>frames DEF OffersHaveSubscriber, SubsOnTheWay, TypeOK
  <2>6. SubsOnTheWay'
    BY <2>frames DEF SubsOnTheWay, CallsInOrder, TypeOK
  <2> QED
    BY <2>1, <2>2, <2>3, <2>4, <2>5, <2>6
<1>19. ASSUME NEW f \in Frames, Offer(f) PROVE Inv'
  <2> USE <1>19 DEF Offer, HasSample
  <2>1. TypeOK'
    BY DEF TypeOK
  <2>2. LockHeld' /\ CallsInOrder'
    BY DEF LockHeld, Holds, CallsInOrder, TypeOK
  <2>3. OneHandlePerSymbol' /\ HandlesOnTheWay'
    BY DEF OneHandlePerSymbol, HandlesOnTheWay, CallsInOrder, TypeOK
  <2>4. SubscriptionsAccountedFor'
    BY DEF SubscriptionsAccountedFor, SubsOnTheWay, CallsInOrder, TypeOK
  <2>5. OffersHaveSubscriber'
    BY DEF OffersHaveSubscriber, SubsOnTheWay, TypeOK
  <2>6. SubsOnTheWay'
    BY DEF SubsOnTheWay, CallsInOrder, TypeOK
  <2> QED
    BY <2>1, <2>2, <2>3, <2>4, <2>5, <2>6
<1>20. ASSUME NEW f \in Frames, DeviceNotify(f) PROVE Inv'
  <2> USE <1>20 DEF DeviceNotify
  <2>frames. frame' \in [Frames -> Seq(Subs)]
    <3>1. ASSUME NEW samples \in Samples PROVE samples \in Seq(Subs)
      <4>1. PICK k \in 1 .. 2 : samples \in [1 .. k -> {n \in Subs : subscribed[n] # None}]
        BY DEF Samples
      <4>2. samples \in [1 .. k -> Subs] /\ k \in Nat
        BY <4>1
      <4> QED
        BY <4>2, SeqDef
    <3> QED
      BY <3>1 DEF TypeOK
  <2>1. TypeOK'
    BY <2>frames DEF TypeOK
  <2>2. LockHeld' /\ CallsInOrder'
    BY <2>frames DEF LockHeld, Holds, CallsInOrder, TypeOK
  <2>3. OneHandlePerSymbol' /\ HandlesOnTheWay'
    BY <2>frames DEF OneHandlePerSymbol, HandlesOnTheWay, CallsInOrder, TypeOK
  <2>4. SubscriptionsAccountedFor'
    BY <2>frames DEF SubscriptionsAccountedFor, SubsOnTheWay, CallsInOrder, TypeOK
  <2>5. OffersHaveSubscriber'
    BY <2>frames DEF OffersHaveSubscriber, SubsOnTheWay, TypeOK
  <2>6. SubsOnTheWay'
    BY <2>frames DEF SubsOnTheWay, CallsInOrder, TypeOK
  <2> QED
    BY <2>1, <2>2, <2>3, <2>4, <2>5, <2>6
<1>21. CASE OfferCancelled
  <2> USE <1>21 DEF OfferCancelled, OfferOver, DropSample
  <2>frames. frame' \in [Frames -> Seq(Subs)]
    BY HeadTailProperties DEF TypeOK, OffersHaveSubscriber
  <2>1. TypeOK'
    BY <2>frames DEF TypeOK
  <2>2. LockHeld' /\ CallsInOrder'
    BY <2>frames DEF LockHeld, Holds, CallsInOrder, TypeOK
  <2>3. OneHandlePerSymbol' /\ HandlesOnTheWay'
    BY <2>frames DEF OneHandlePerSymbol, HandlesOnTheWay, CallsInOrder, TypeOK
  <2>4. SubscriptionsAccountedFor'
    BY <2>frames DEF SubscriptionsAccountedFor, SubsOnTheWay, CallsInOrder, TypeOK
  <2>5. OffersHaveSubscriber'
    BY <2>frames DEF OffersHaveSubscriber, SubsOnTheWay, TypeOK
  <2>6. SubsOnTheWay'
    BY <2>frames DEF SubsOnTheWay, CallsInOrder, TypeOK
  <2> QED
    BY <2>1, <2>2, <2>3, <2>4, <2>5, <2>6
<1>22. CASE Shutdown
  <2> USE <1>22 DEF Shutdown
  <2>1. TypeOK'
    BY DEF TypeOK
  <2>2. LockHeld' /\ CallsInOrder'
    BY DEF LockHeld, Holds, CallsInOrder, TypeOK
  <2>3. OneHandlePerSymbol' /\ HandlesOnTheWay'
    BY DEF OneHandlePerSymbol, HandlesOnTheWay, CallsInOrder, TypeOK
  <2>4. SubscriptionsAccountedFor'
    BY DEF SubscriptionsAccountedFor, SubsOnTheWay, CallsInOrder, TypeOK
  <2>5. OffersHaveSubscriber'
    BY DEF OffersHaveSubscriber, SubsOnTheWay, TypeOK
  <2>6. SubsOnTheWay'
    BY DEF SubsOnTheWay, CallsInOrder, TypeOK
  <2> QED
    BY <2>1, <2>2, <2>3, <2>4, <2>5, <2>6
<1>23. CASE DeviceExecuteLate
  <2> USE <1>23 DEF DeviceExecuteLate
  <2>r. PICK r \in abandoned :
          /\ abandoned' = abandoned \ {r}
          /\ \/ r[1] = "ask" /\ NewHandle(r[2]) /\ UNCHANGED subscribed
             \/ r[1] = "add" /\ UNCHANGED handles /\ \E n \in Subs : NewSub(n, r[2])
    OBVIOUS
  <2>gaveUp. r[2] \in Names /\ r = <<r[1], r[2]>> /\ r \in gaveUp
    BY <2>r DEF HandlesOnTheWay, TypeOK
  <2>1. LockHeld' /\ CallsInOrder'
    BY DEF LockHeld, Holds, CallsInOrder
  <2>2. CASE r[1] = "ask"
    <3> DEFINE s == r[2]
    <3>new. /\ handles[s] < MaxHandles /\ handles' = [handles EXCEPT ![s] = @ + 1]
            /\ UNCHANGED subscribed
      BY <2>2, <2>r DEF NewHandle
    <3>nat. s \in Names /\ \A q \in Names : handles[q] \in Nat
      BY <2>gaveUp DEF TypeOK
    <3>more. \A q \in Names : handles'[q] = IF q = s THEN handles[s] + 1 ELSE handles[q]
      BY <3>new, <2>gaveUp DEF TypeOK
    <3>1. TypeOK'
      <4>1. handles' \in [Names -> 0 .. MaxHandles]
        BY <3>new, <2>gaveUp DEF TypeOK
      <4> QED
        BY <4>1, <3>new, <2>r DEF TypeOK
    <3>2. OneHandlePerSymbol'
      <4>1. <<"ask", s>> \in gaveUp
        BY <2>2, <2>gaveUp
      <4>2. ASSUME NEW q \in Names
            PROVE  (handles'[q] > 1 => <<"ask", q>> \in gaveUp) /\ (q \in hasHandle => handles'[q] > 0)
        BY <4>1, <3>more, <3>nat DEF OneHandlePerSymbol
      <4> QED
        BY <4>2 DEF OneHandlePerSymbol
    <3>3. HandlesOnTheWay'
      <4>1. \A v \in Users : pc[v] = "ask" => name[v] \in Names
        BY DEF CallsInOrder
      <4> QED
        BY <4>1, <3>more, <3>nat, <2>2, <2>r, <2>gaveUp DEF HandlesOnTheWay
    <3>4. SubscriptionsAccountedFor' /\ OffersHaveSubscriber'
      BY <3>new DEF SubscriptionsAccountedFor, OffersHaveSubscriber
    <3>5. SubsOnTheWay'
      BY <3>new DEF SubsOnTheWay
    <3> QED
      BY <2>1, <3>1, <3>2, <3>3, <3>4, <3>5
  <2>3. CASE r[1] = "add"
    <3>new. UNCHANGED handles
      BY <2>3, <2>r
    <3>n. PICK n \in Subs : NewSub(n, r[2])
      BY <2>3, <2>r
    <3>sub. /\ subscribed[n] = None /\ activeNotifications[n] = None /\ subscribed'[n] = r[2]
            /\ \A m \in Subs \ {n} : subscribed'[m] = subscribed[m]
      BY <3>n DEF NewSub, OffersHaveSubscriber, TypeOK
    <3>1. TypeOK'
      BY <3>new, <3>n, <2>r, <2>gaveUp DEF NewSub, TypeOK
    <3>2. OneHandlePerSymbol' /\ HandlesOnTheWay'
      BY <3>new, <2>r DEF OneHandlePerSymbol, HandlesOnTheWay
    <3>3. SubscriptionsAccountedFor'
      BY <3>sub, <2>3, <2>gaveUp DEF SubscriptionsAccountedFor
    <3>4. OffersHaveSubscriber'
      BY <3>sub DEF OffersHaveSubscriber
    <3>5. SubsOnTheWay'
      <4>1. \A v \in Users : newSub[v] # None => newSub[v] \in Subs \ {n}
        BY <3>sub DEF SubsOnTheWay, CallsInOrder, TypeOK
      <4> QED
        BY <4>1, <3>sub DEF SubsOnTheWay
    <3> QED
      BY <2>1, <3>1, <3>2, <3>3, <3>4, <3>5
  <2> QED
    BY <2>r, <2>2, <2>3
<1>24. CASE UNCHANGED vars
  <2> USE <1>24
  <2>1. TypeOK'
    BY DEF TypeOK
  <2>2. LockHeld' /\ CallsInOrder'
    BY DEF LockHeld, Holds, CallsInOrder, TypeOK
  <2>3. OneHandlePerSymbol' /\ HandlesOnTheWay'
    BY DEF OneHandlePerSymbol, HandlesOnTheWay, CallsInOrder, TypeOK
  <2>4. SubscriptionsAccountedFor'
    BY DEF SubscriptionsAccountedFor, SubsOnTheWay, CallsInOrder, TypeOK
  <2>5. OffersHaveSubscriber'
    BY DEF OffersHaveSubscriber, SubsOnTheWay, TypeOK
  <2>6. SubsOnTheWay'
    BY DEF SubsOnTheWay, CallsInOrder, TypeOK
  <2> QED
    BY <2>1, <2>2, <2>3, <2>4, <2>5, <2>6
<1> QED
  BY <1>1, <1>2, <1>3, <1>4, <1>5, <1>6, <1>7, <1>8, <1>9, <1>10, <1>11, <1>12, <1>13,
     <1>14, <1>15, <1>16, <1>17, <1>18, <1>19, <1>20, <1>21, <1>22, <1>23, <1>24
     DEF Next, Locks, Returns, HandlerStep, DeviceStep

\* The invariant that the rest follows from, type correctness included.
THEOREM Invariance == Spec => []Inv
<1> QED
  BY InvInit, InvNext, PTL DEF Spec

\* symbolLock has one holder: a call that waits for the device, or a handler
\* that offers an update.
THEOREM LockIsExclusive == Spec => []SymbolLockExclusive
<1>1. Inv => SymbolLockExclusive
  BY DEF Inv, SymbolLockExclusive
<1> QED
  BY <1>1, Invariance, PTL

\* However many users ask for a symbol at once, the device gives out one handle,
\* unless a request for one was given up on.
THEOREM HandlesAreSingle == Spec => []OneHandlePerSymbol
<1>1. Inv => OneHandlePerSymbol
  BY DEF Inv
<1> QED
  BY <1>1, Invariance, PTL

\* Each subscription of the device is on record, about to be, or was reported
\* to its user as failed.
THEOREM SubscriptionsAreKnown == Spec => []SubscriptionsAccountedFor
<1>1. Inv => SubscriptionsAccountedFor
  BY DEF Inv
<1> QED
  BY <1>1, Invariance, PTL

\* An update is offered on a channel a user gave, for a handle the device gave.
THEOREM OffersReachSomebody == Spec => []OffersHaveSubscriber
<1>1. Inv => OffersHaveSubscriber
  BY DEF Inv
<1> QED
  BY <1>1, Invariance, PTL
=============================================================================
