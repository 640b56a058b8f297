--------------------------- MODULE TeardownProofs ---------------------------
(***************************************************************************)
(* What holds of Teardown for every set of users and of handles.           *)
(***************************************************************************)
EXTENDS Teardown, TLAPS

USE HandlesAssumption

\* Nobody is subscribing, notifying or closing yet.
LEMMA InvInit == Init => Inv
<1> SUFFICES ASSUME Init PROVE Inv
  OBVIOUS
<1> USE DEF Init
<1>1. TypeOK
  BY DEF TypeOK
<1>2. NewHandlesAreNew /\ DeletedOnce
  BY DEF NewHandlesAreNew, DeletedOnce
<1>3. RecordsAgree /\ NothingForgotten
  BY DEF RecordsAgree, NothingForgotten
<1> QED
  BY <1>1, <1>2, <1>3 DEF Inv

\* What the parts of the invariant but TypeOK are about.
about == <<active, pc, new, phase, current, produced, present, deleted, live, lost,
           link, garbled>>

\* Steps of handlers, of the runtime and of the context change none of it.
LEMMA Unconcerned ==
  ASSUME Inv, TypeOK', UNCHANGED about
  PROVE  Inv'
BY DEF Inv, about, NewHandlesAreNew, DeletedOnce, RecordsAgree, NothingForgotten

\* A user's step on the way to a subscription preserves the invariant.
LEMMA UserInv ==
  ASSUME Inv, NEW u \in Users, UserStep(u)
  PROVE  Inv'
<1> USE DEF Inv, UserAt, UserGoes, userVars, closeVars, device
<1>1. ASSUME Subscribe(u) PROVE Inv'
  <2> USE <1>1 DEF Subscribe
  <2>1. TypeOK'
    BY DEF TypeOK
  <2>2. NewHandlesAreNew'
    BY DEF NewHandlesAreNew, TypeOK
  <2>3. DeletedOnce' /\ RecordsAgree' /\ NothingForgotten'
    BY DEF DeletedOnce, RecordsAgree, NothingForgotten
  <2> QED
    BY <2>1, <2>2, <2>3
<1>unused. \A made \in Made : \A h \in made : h \in Handles /\ Unused(h)
  BY DEF Made
<1>made. ASSUME NEW made \in Made, lost' = lost \cup made, UNCHANGED <<live, active>>,
                UNCHANGED closeVars, garbled' \in Handles \cup {NoHandle},
                garbled # NoHandle => garbled' = garbled
         PROVE  DeletedOnce' /\ NothingForgotten'
  <2>1. \A h \in made : h \in Handles /\ deleted[h] = "none" /\ h \notin active
    BY <1>made, <1>unused DEF Unused
  <2>2. DeletedOnce'
    <3>1. \A h \in lost : h = garbled => h = garbled'
      BY <1>made DEF TypeOK
    <3> QED
      BY <1>made, <2>1, <3>1 DEF DeletedOnce
  <2>3. NothingForgotten'
    BY <1>made DEF NothingForgotten
  <2> QED
    BY <2>2, <2>3
<1>2. ASSUME NEW h \in Handles, Added(u, h) PROVE Inv'
  <2> USE <1>2 DEF Added, Unused
  <2>1. TypeOK'
    BY DEF TypeOK
  <2>2. NewHandlesAreNew'
    BY DEF NewHandlesAreNew, TypeOK
  <2>3. DeletedOnce'
    BY DEF DeletedOnce, TypeOK
  <2>4. RecordsAgree'
    <3>1. new[u] = NoHandle
      BY DEF NewHandlesAreNew, TypeOK
    <3>2. \A v \in Users : new[v] # NoHandle => new'[v] = new[v]
      BY <3>1 DEF TypeOK
    <3>3. new'[u] = h
      BY DEF TypeOK
    <3> QED
      BY <3>2, <3>3 DEF RecordsAgree, TypeOK
  <2>5. NothingForgotten'
    BY DEF NothingForgotten, DeletedOnce
  <2> QED
    BY <2>1, <2>2, <2>3, <2>4, <2>5
<1>3. ASSUME NotAdded(u) PROVE Inv'
  <2> USE <1>3 DEF NotAdded
  <2>made. PICK made \in Made : lost' = lost \cup made
    OBVIOUS
  <2>1. TypeOK'
    BY <2>made, <1>unused DEF TypeOK
  <2>2. NewHandlesAreNew'
    <3>1. \A v \in Users : new[v] \notin made
      BY <1>unused DEF Unused
    <3>2. garbled' # NoHandle => ~link'
      BY DEF NewHandlesAreNew
    <3>3. \A v \in Users : pc'[v] \in {"record", "insert"} <=> new'[v] # NoHandle
      BY DEF NewHandlesAreNew, TypeOK
    <3> QED
      BY <2>made, <3>1, <3>2, <3>3 DEF NewHandlesAreNew
  <2>3. DeletedOnce' /\ NothingForgotten'
    <3>1. garbled' \in Handles \cup {NoHandle} /\ garbled' = garbled
      BY DEF TypeOK
    <3> QED
      BY <2>made, <3>1, <1>made
  <2>4. RecordsAgree'
    BY <2>made DEF RecordsAgree
  <2> QED
    BY <2>1, <2>2, <2>3, <2>4
<1>garbled. ASSUME NEW h \in Handles, Garbled(u, h) PROVE Inv'
  <2> USE <1>garbled DEF Garbled
  <2>made. PICK made \in Made : lost' = lost \cup made
    OBVIOUS
  <2>free. garbled = NoHandle /\ new[u] = NoHandle
    BY DEF NewHandlesAreNew, TypeOK
  <2>others. \A v \in Users : new'[v] = IF v = u THEN h ELSE new[v]
    BY DEF TypeOK
  <2>1. TypeOK'
    BY <2>made, <1>unused DEF TypeOK
  <2>2. NewHandlesAreNew'
    <3>1. \A v \in Users : new[v] \notin made
      BY <1>unused DEF Unused
    <3>2. \A v \in Users : pc'[v] \in {"record", "insert"} <=> new'[v] # NoHandle
      BY <2>others DEF NewHandlesAreNew, TypeOK
    <3>3. \A v \in Users : new'[v] \notin {NoHandle, h} => v # u /\ new'[v] = new[v]
      BY <2>others
    <3> QED
      BY <2>made, <2>free, <3>1, <3>2, <3>3 DEF NewHandlesAreNew
  <2>3. DeletedOnce' /\ NothingForgotten'
    <3>1. garbled' \in Handles \cup {NoHandle}
      OBVIOUS
    <3> QED
      BY <2>made, <2>free, <3>1, <1>made
  <2>4. RecordsAgree'
    <3>1. \A v \in Users : new[v] # NoHandle => new'[v] = new[v]
      BY <2>free, <2>others
    <3>2. \A x \in Handles : (\E v \in Users : new[v] = x) => \E v \in Users : new'[v] = x
      BY <3>1
    <3>3. active \subseteq Handles /\ live \subseteq Handles
      BY DEF TypeOK
    <3> QED
      BY <2>made, <2>free, <3>2, <3>3 DEF RecordsAgree
  <2> QED
    BY <2>1, <2>2, <2>3, <2>4
<1>4. ASSUME RecordLock(u) PROVE Inv'
  <2> USE <1>4 DEF RecordLock
  <2>1. TypeOK'
    BY DEF TypeOK
  <2>2. NewHandlesAreNew'
    BY DEF NewHandlesAreNew, TypeOK
  <2>3. DeletedOnce' /\ RecordsAgree' /\ NothingForgotten'
    BY DEF DeletedOnce, RecordsAgree, NothingForgotten
  <2> QED
    BY <2>1, <2>2, <2>3
<1>5. ASSUME Recorded(u) PROVE Inv'
  <2> USE <1>5 DEF Recorded
  <2>handle. new[u] \in Handles
    BY DEF NewHandlesAreNew, TypeOK
  <2>new. \/ new[u] = garbled
          \/ new[u] \in live \ (active \cup lost) /\ deleted[new[u]] = "none"
    BY <2>handle DEF NewHandlesAreNew
  <2>others. \A v \in Users : new'[v] = IF v = u THEN NoHandle ELSE new[v]
    BY DEF TypeOK
  <2>1. TypeOK'
    BY <2>handle DEF TypeOK
  <2>2. NewHandlesAreNew'
    <3>1. \A v \in Users : pc'[v] \in {"record", "insert"} <=> new'[v] # NoHandle
      BY <2>others DEF NewHandlesAreNew, TypeOK
    <3>2. \A v \in Users : new'[v] \notin {NoHandle, garbled} =>
            v # u /\ new'[v] = new[v] /\ new[v] # new[u]
      BY <2>others DEF NewHandlesAreNew
    <3> QED
      BY <3>1, <3>2 DEF NewHandlesAreNew
  <2>3. DeletedOnce'
    BY <2>handle, <2>new DEF DeletedOnce
  <2>4. RecordsAgree'
    BY <2>handle, <2>new, <2>others DEF RecordsAgree
  <2>5. NothingForgotten'
    BY DEF NothingForgotten
  <2> QED
    BY <2>1, <2>2, <2>3, <2>4, <2>5
<1> QED
  BY <1>1, <1>2, <1>3, <1>garbled, <1>4, <1>5 DEF UserStep

\* A late subscription preserves the invariant: it is one of those that no call
\* got the handle of.
LEMMA LateInv ==
  ASSUME Inv, NEW h \in Handles, AddedLate(h)
  PROVE  Inv'
<1> USE DEF Inv, AddedLate, userVars, closeVars
<1>lost. h \in lost /\ deleted[h] \in {"none", "error", "empty"}
  BY DEF DeletedOnce
<1>1. TypeOK'
  BY DEF TypeOK
<1>2. NewHandlesAreNew'
  BY DEF NewHandlesAreNew
<1>3. DeletedOnce'
  BY <1>lost DEF DeletedOnce
<1>4. RecordsAgree'
  BY <1>lost DEF RecordsAgree
<1>5. NothingForgotten'
  BY <1>lost DEF NothingForgotten, DeletedOnce
<1> QED
  BY <1>1, <1>2, <1>3, <1>4, <1>5

\* A handler's step preserves the invariant: it changes neither the map nor
\* what anybody has on it.
LEMMA HandlerInv ==
  ASSUME Inv, NEW h \in Handles, HandlerStep(h)
  PROVE  Inv'
<1> USE DEF HandlerGoes, userVars, closeVars, device
<1>1. UNCHANGED about
  BY DEF HandlerStep, Notify, Counted, LookUp, LookedUp, OfferOver, about
<1> DEFINE Places == {"none", "started", "counted", "lookup", "offer"}
           Moves  == \E place \in Places : handler' = [handler EXCEPT ![h] = place]
<1>lock. symbolLock' \in BOOLEAN
  <2>1. symbolLock \in BOOLEAN
    BY DEF Inv, TypeOK
  <2>2. CASE LookedUp(h)
    BY <2>2 DEF LookedUp
  <2>3. CASE Notify(h) \/ Counted(h) \/ LookUp(h) \/ OfferOver(h)
    BY <2>1, <2>3 DEF Notify, Counted, LookUp, OfferOver
  <2> QED
    BY <2>2, <2>3 DEF HandlerStep
<1>moves. Moves
  <2>1. CASE LookedUp(h)
    BY <2>1 DEF LookedUp
  <2>2. CASE Notify(h) \/ Counted(h) \/ LookUp(h) \/ OfferOver(h)
    BY <2>2 DEF Notify, Counted, LookUp, OfferOver
  <2> QED
    BY <2>1, <2>2 DEF HandlerStep
<1>2. UNCHANGED <<shutdown, running>>
  BY DEF HandlerStep, Notify, Counted, LookUp, LookedUp, OfferOver
<1>3. TypeOK'
  BY <1>1, <1>2, <1>lock, <1>moves DEF Inv, TypeOK, about
<1> QED
  BY <1>1, <1>3, Unconcerned

\* A step of Close preserves the invariant, whatever comes back for a request.
LEMMA CloseInv ==
  ASSUME Inv, CloseStep
  PROVE  Inv'
<1> USE DEF Inv, userVars, closeVars, device
<1>1. ASSUME BeginClose PROVE Inv'
  <2> USE <1>1 DEF BeginClose
  <2>1. TypeOK'
    BY DEF TypeOK
  <2>2. NewHandlesAreNew'
    BY DEF NewHandlesAreNew
  <2>3. DeletedOnce'
    BY DEF DeletedOnce
  <2>4. RecordsAgree' /\ NothingForgotten'
    BY DEF RecordsAgree, NothingForgotten
  <2> QED
    BY <2>1, <2>2, <2>3, <2>4
<1>2. ASSUME NEW h \in Handles, Range(h) PROVE Inv'
  <2> USE <1>2 DEF Range
  <2>1. TypeOK'
    BY DEF TypeOK
  <2>2. NewHandlesAreNew'
    BY DEF NewHandlesAreNew
  <2>3. DeletedOnce'
    BY DEF DeletedOnce
  <2>4. RecordsAgree' /\ NothingForgotten'
    BY DEF RecordsAgree, NothingForgotten
  <2> QED
    BY <2>1, <2>2, <2>3, <2>4
<1>3. ASSUME NEW response \in Responses, Delete(response) PROVE Inv'
  <2> USE <1>3 DEF Delete
  <2>current. current \in Handles /\ current \in active \cap produced /\ deleted[current] = "none"
    BY DEF DeletedOnce, TypeOK
  <2>torn. /\ garbled # NoHandle => response \in {"error", "empty"} /\ ~link'
           /\ current \in lost => response \in {"error", "empty"}
    BY <2>current DEF NewHandlesAreNew, DeletedOnce, Responses, TypeOK
  <2>gone. /\ live' \subseteq live /\ live \ live' \subseteq {current}
           /\ lost' \subseteq lost /\ \A h \in lost \cap live' : h \in lost'
           /\ response = "ok" => current \notin live'
           /\ response \in {"refused", "empty"} => live' = live
    BY DEF Executed, Responses
  <2>result. /\ phase' \in {"erase", "range"}
             /\ response \in {"error", "refused"} => phase' = "range"
             /\ response = "ok" => phase' = "erase"
    BY DEF Results, Fails, NeedsBytes, LooksAtError, Kinds, Responses
  <2>deleted. \A h \in Handles : deleted'[h] = IF h = current THEN response ELSE deleted[h]
    BY DEF TypeOK
  <2>1. TypeOK'
    BY <2>current, <2>gone, <2>result DEF TypeOK
  <2>2. NewHandlesAreNew'
    <3>1. \A u \in Users : new[u] \notin {NoHandle, garbled} => new[u] \in Handles /\ new[u] # current
      BY <2>current DEF NewHandlesAreNew, TypeOK
    <3> QED
      BY <3>1, <2>torn, <2>gone, <2>deleted DEF NewHandlesAreNew
  <2>3. DeletedOnce'
    BY <2>current, <2>torn, <2>gone, <2>result, <2>deleted DEF DeletedOnce, TypeOK, Responses
  <2>4. RecordsAgree'
    <3>1. \A h \in active \ live' : deleted'[h] \in {"error", "torn"} \/ h = garbled
                                  \/ (phase' = "erase" /\ current = h)
      BY <2>current, <2>gone, <2>result, <2>deleted DEF RecordsAgree, TypeOK, Responses
    <3>2. \A h \in live' \ active : deleted'[h] \in {"empty", "torn"} \/ h \in lost'
                                  \/ \E u \in Users : new[u] = h
      BY <2>current, <2>gone, <2>deleted DEF RecordsAgree, TypeOK
    <3> QED
      BY <3>1, <3>2 DEF RecordsAgree
  <2>5. NothingForgotten'
    BY <2>result DEF NothingForgotten
  <2> QED
    BY <2>1, <2>2, <2>3, <2>4, <2>5
<1>4. ASSUME Erase PROVE Inv'
  <2> USE <1>4 DEF Erase
  <2>1. TypeOK'
    BY DEF TypeOK
  <2>2. NewHandlesAreNew'
    BY DEF NewHandlesAreNew
  <2>3. DeletedOnce'
    BY DEF DeletedOnce, TypeOK
  <2>4. RecordsAgree' /\ NothingForgotten'
    BY DEF RecordsAgree, NothingForgotten, DeletedOnce
  <2> QED
    BY <2>1, <2>2, <2>3, <2>4
<1>5. ASSUME CloseShutdown PROVE Inv'
  <2> USE <1>5 DEF CloseShutdown
  <2>1. TypeOK'
    BY DEF TypeOK
  <2>2. NewHandlesAreNew' /\ RecordsAgree'
    BY DEF NewHandlesAreNew, RecordsAgree
  <2>come. \A h \in present : h \in produced /\ deleted[h] # "none"
    BY DEF RangeEnds, DeletedOnce, TypeOK
  <2>3. DeletedOnce'
    BY <2>come DEF DeletedOnce
  <2>4. NothingForgotten'
    BY <2>come DEF NothingForgotten, DeletedOnce, TypeOK, Responses
  <2> QED
    BY <2>1, <2>2, <2>3, <2>4
<1>6. ASSUME WaitReleased \/ WaitReturns PROVE Inv'
  <2> USE <1>6 DEF WaitReleased, WaitReturns
  <2>1. TypeOK'
    BY DEF TypeOK
  <2>2. NewHandlesAreNew' /\ DeletedOnce'
    BY DEF NewHandlesAreNew, DeletedOnce
  <2>3. RecordsAgree' /\ NothingForgotten'
    BY DEF RecordsAgree, NothingForgotten
  <2> QED
    BY <2>1, <2>2, <2>3
<1> QED
  BY <1>1, <1>2, <1>3, <1>4, <1>5, <1>6 DEF CloseStep

\* Every step preserves the invariant.
LEMMA InvNext == Inv /\ [Next]_vars => Inv'
<1> SUFFICES ASSUME Inv, [Next]_vars PROVE Inv'
  OBVIOUS
<1>1. ASSUME NEW u \in Users, UserStep(u) PROVE Inv'
  BY <1>1, UserInv
<1>late. ASSUME NEW h \in Handles, AddedLate(h) PROVE Inv'
  BY <1>late, LateInv
<1>2. ASSUME NEW h \in Handles, HandlerStep(h) PROVE Inv'
  BY <1>2, HandlerInv
<1>3. CASE CloseStep
  BY <1>3, CloseInv
<1>4. CASE Shutdown \/ RuntimeStops \/ UNCHANGED vars
  <2> USE <1>4 DEF Shutdown, RuntimeStops, vars, userVars, closeVars, device
  <2>1. UNCHANGED about
    BY DEF about
  <2>2. TypeOK'
    BY DEF Inv, TypeOK
  <2> QED
    BY <2>1, <2>2, Unconcerned
<1> QED
  BY <1>1, <1>late, <1>2, <1>3, <1>4 DEF Next

\* The invariant that the rest follows from, type correctness included.
THEOREM Invariance == Spec => []Inv
<1> QED
  BY InvInit, InvNext, PTL DEF Spec

\* The client's record of subscriptions and the device's differ only where a
\* request for one is under way or was not confirmed, at every moment of Close.
THEOREM Records == Spec => []RecordsAgree
<1>1. Inv => RecordsAgree
  BY DEF Inv
<1> QED
  BY <1>1, Invariance, PTL

\* Close leaves no subscription behind but those whose deletion was not
\* confirmed and those recorded after it had begun, although users change the
\* map it ranges over.
THEOREM CloseForgetsNothing == Spec => []NothingForgotten
<1>1. Inv => NothingForgotten
  BY DEF Inv
<1> QED
  BY <1>1, Invariance, PTL
=============================================================================
