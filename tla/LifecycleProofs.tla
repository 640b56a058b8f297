-------------------------- MODULE LifecycleProofs --------------------------
(***************************************************************************)
(* What holds of Close for every set of callers and handles.               *)
(***************************************************************************)
EXTENDS Lifecycle, RequestsProofs

USE DEF InvokeIds, NoId

\* Seen from the requests, Close is one more caller, one more way to cancel the
\* context or lose the link, and the wait that may panic.
LEMMA CloseStepIsAStep == shutdown \in BOOLEAN /\ [CloseNext]_lvars => [Next]_vars
<1> SUFFICES ASSUME shutdown \in BOOLEAN, [CloseNext]_lvars PROVE [Next]_vars
  OBVIOUS
<1> USE CloserAssumption DEF vars, lvars
<1>1. ASSUME NEW c \in Users, UserCall(c) PROVE [Next]_vars
  BY <1>1 DEF UserCall, Users, Next, CallerStep
<1>2. CASE BeginClose
  BY <1>2 DEF BeginClose
<1>3. CASE ReleaseCall
  BY <1>3 DEF ReleaseCall, Next, CallerStep
<1>4. ASSUME NEW h \in Handles, ReleaseRegister(h) PROVE [Next]_vars
  BY <1>4 DEF ReleaseRegister, Next, CallerStep
<1>5. CASE CloseShutdown
  <2>1. CASE shutdown
    BY <1>5, <2>1 DEF CloseShutdown, lifeVars
  <2>2. CASE ~shutdown
    BY <1>5, <2>2 DEF CloseShutdown, Shutdown, Next
  <2> QED
    BY <2>1, <2>2
<1>6. CASE WaitReleased \/ WaitReturns
  BY <1>6 DEF WaitReleased, WaitReturns, Next, Background, DeviceStep
<1>7. CASE Elsewhere
  BY <1>7 DEF Elsewhere, Users, Next, CallerStep
<1>8. CASE UNCHANGED lvars
  BY <1>8
<1> QED
  BY <1>1, <1>2, <1>3, <1>4, <1>5, <1>6, <1>7, <1>8 DEF CloseNext, CloserStep

\* A connection that is being closed is still a connection: all that is
\* proved of Requests holds of it.
THEOREM ClosingImplementsRequests == CloseSpec => Spec
<1>1. CloseInit => Init
  BY DEF CloseInit
<1>2. Init => Inv
  BY InvInit
<1>3. Inv => shutdown \in BOOLEAN
  BY DEF Inv, TypeOK, FlagsOK
<1>4. Inv /\ [CloseNext]_lvars => [Next]_vars
  BY <1>3, CloseStepIsAStep
<1>5. Inv /\ [Next]_vars => Inv'
  BY InvNext
<1> QED
  BY <1>1, <1>2, <1>4, <1>5, PTL DEF CloseSpec, Spec

-----------------------------------------------------------------------------

\* What a step that neither starts nor finishes a release may do.
LEMMA ProceedFacts ==
  ASSUME Inv, NEW c \in Callers, Proceed(c)
  PROVE  /\ \A d \in Callers : d # c => pc'[d] = pc[d] /\ id'[d] = id[d]
         /\ pc[c] # "idle" /\ pc'[c] # "lock"
         /\ currentRequest' = currentRequest
         /\ \/ id' = id /\ outcome' = outcome
            \/ /\ id[c] \in InvokeIds /\ outcome[id[c]] = "open"
               /\ \E how \in {"answer", "error", "empty"} :
                     /\ outcome' = [outcome EXCEPT ![id[c]] = how]
                     /\ how = "answer" => id[c] \in executed
  BY MaxCallsAssumption
     DEF Inv, TypeOK, CallsAreOpen, InCall, Answered, Proceed, Publish, Enqueue, GiveUpEnqueue,
         Select, RacySelect, GiveUpAwait, Deliver, Received, At, Goto, Finish, callerVars

\* The invariant of Close holds when nothing has been released yet.
LEMMA CloseInvInit == CloseInit => CloseInv
<1> SUFFICES ASSUME CloseInit PROVE CloseInv
  OBVIOUS
<1>1. Inv
  BY InvInit DEF CloseInit
<1>2. CloseTypeOK
  BY DEF CloseInit, CloseTypeOK
<1>3. ReleasesAreTheClosers /\ CloserInClose /\ AnswersWereExecuted /\ ClosedHasNoSender
  BY CloserAssumption
     DEF CloseInit, Init, ReleasesAreTheClosers, CloserInClose, AnswersWereExecuted, ClosedHasNoSender
<1> QED
  BY <1>1, <1>2, <1>3 DEF CloseInv

\* Every step of Close, of another caller or of the environment preserves it.
LEMMA CloseInvNext == CloseInv /\ [CloseNext]_lvars => CloseInv'
<1> SUFFICES ASSUME CloseInv, [CloseNext]_lvars PROVE CloseInv'
  OBVIOUS
<1> USE CloserAssumption, MaxCallsAssumption DEF CloseInv
<1> DEFINE Rest == ReleasesAreTheClosers /\ CloserInClose /\ AnswersWereExecuted /\ ClosedHasNoSender
<1>1. Inv'
  BY CloseStepIsAStep, InvNext DEF Inv, TypeOK, FlagsOK
<1>2. CloseTypeOK'
  <2>1. ASSUME NEW h \in Handles, ReleaseRegister(h) PROVE CloseTypeOK'
    <3>1. NextInvokeId \in InvokeIds
      BY <2>1 DEF ReleaseRegister, Register, NextInvokeId, Inv, TypeOK
    <3> QED
      BY <2>1, <3>1 DEF ReleaseRegister, CloseTypeOK
  <2>2. CASE BeginClose \/ ReleaseCall \/ CloseShutdown \/ WaitReleased \/ WaitReturns
    BY <2>2 DEF BeginClose, ReleaseCall, CloseShutdown, WaitReleased, WaitReturns, closeVars,
                CloseTypeOK
  <2>3. CASE UNCHANGED closeVars
    BY <2>3 DEF closeVars, CloseTypeOK
  <2> QED
    BY <2>1, <2>2, <2>3 DEF CloseNext, CloserStep, Elsewhere, UserCall, lvars
<1>3. ASSUME NEW c \in Callers, Call(c), UNCHANGED closeVars, c = Closer => phase = "release"
      PROVE Rest'
  BY <1>3 DEF Call, At, Goto, closeVars, mapVars, workerVars, receiveVars, lifeVars, netVars,
     ReleasesAreTheClosers, CloserInClose, AnswersWereExecuted, ClosedHasNoSender, Inv, TypeOK
<1>4. ASSUME NEW c \in Callers, Register(c),
             \/ c # Closer /\ UNCHANGED closeVars
             \/ c = Closer /\ \E h \in Handles : ReleaseRegister(h)
      PROVE Rest'
  <2>a. NextInvokeId \in InvokeIds /\ NextInvokeId # NoId /\ outcome[NextInvokeId] = "none"
    BY <1>4 DEF Register, NextInvokeId, Inv, TypeOK, IdsInOrder
  <2>1. /\ NextInvokeId \in InvokeIds /\ NextInvokeId # NoId /\ outcome[NextInvokeId] = "none"
        /\ outcome' = [outcome EXCEPT ![NextInvokeId] = "open"]
        /\ id' = [id EXCEPT ![c] = NextInvokeId] /\ pc' = [pc EXCEPT ![c] = "register"]
        /\ UNCHANGED <<worker, executed>>
    BY <1>4, <2>a DEF Register, Goto, workerVars, netVars
  <2>2. pc[c] = "lock" /\ id[c] = NoId
    BY <1>4 DEF Register, At, Inv, CallsAreOpen, InCall
  <2>3. ReleasesAreTheClosers'
    <3>1. CASE c # Closer /\ UNCHANGED closeVars
      BY <2>1, <3>1 DEF ReleasesAreTheClosers, closeVars, CloseTypeOK, Inv, TypeOK
    <3>2. ASSUME NEW h \in Handles, c = Closer, ReleaseRegister(h) PROVE ReleasesAreTheClosers'
      <4>1. /\ toRelease' = toRelease \ {h}
            /\ releaseId' = [releaseId EXCEPT ![h] = NextInvokeId]
        BY <3>2 DEF ReleaseRegister
      <4> QED
        BY <2>1, <2>2, <3>2, <4>1 DEF ReleasesAreTheClosers, CloseTypeOK, Inv, TypeOK
    <3> QED
      BY <1>4, <3>1, <3>2
  <2>4. CloserInClose'
    <3>1. phase' = phase /\ toRelease' \subseteq toRelease
      BY <1>4 DEF ReleaseRegister, closeVars
    <3> QED
      BY <1>4, <2>1, <2>2, <3>1 DEF CloserInClose, Inv, TypeOK
  <2>5. AnswersWereExecuted'
    BY <2>1 DEF AnswersWereExecuted, Inv, TypeOK
  <2>6. ClosedHasNoSender'
    BY <1>4, <2>1 DEF ClosedHasNoSender, ReleaseRegister, closeVars, Inv, TypeOK
  <2> QED
    BY <2>3, <2>4, <2>5, <2>6
<1>5. ASSUME NEW c \in Callers, Proceed(c), UNCHANGED closeVars PROVE Rest'
  <2>1. UNCHANGED <<executed, phase, toRelease, releaseId>>
    BY <1>5 DEF Proceed, Publish, Enqueue, GiveUpEnqueue, Select, RacySelect, GiveUpAwait, Deliver,
         netVars, closeVars
  <2>p. pc'[c] \in {"select", "await", "deaf"} =>
          pc[c] \in {"select", "await", "deaf"} \/ (pc[c] = "enqueue" /\ worker = "receive")
    <3>1. pc \in [Callers -> Places]
      BY DEF Inv, TypeOK
    <3>2. CASE Publish(c) \/ GiveUpEnqueue(c) \/ GiveUpAwait(c) \/ Deliver(c)
      BY <3>1, <3>2 DEF Publish, GiveUpEnqueue, GiveUpAwait, Deliver, Goto, Finish
    <3>3. CASE Enqueue(c)
      BY <3>3 DEF Enqueue, At
    <3>4. CASE Select(c) \/ RacySelect(c)
      BY <3>4 DEF Select, RacySelect, At
    <3> QED
      BY <1>5, <3>2, <3>3, <3>4 DEF Proceed
  <2>w. worker' = worker \/ worker = "receive"
    BY <1>5 DEF Proceed, Publish, Enqueue, GiveUpEnqueue, Select, RacySelect, GiveUpAwait, Deliver,
         workerVars
  <2>2. ReleasesAreTheClosers'
    BY <1>5, <2>1, ProceedFacts DEF ReleasesAreTheClosers, CloseTypeOK, Inv, TypeOK
  <2>3. CloserInClose'
    BY <1>5, <2>1, ProceedFacts DEF CloserInClose
  <2>4. AnswersWereExecuted'
    BY <1>5, <2>1, ProceedFacts DEF AnswersWereExecuted, Inv, TypeOK
  <2>5. ClosedHasNoSender'
    BY <1>5, <2>1, <2>p, <2>w, ProceedFacts DEF ClosedHasNoSender
  <2> QED
    BY <2>2, <2>3, <2>4, <2>5
<1>6. ASSUME Background \/ Shutdown, UNCHANGED closeVars PROVE Rest'
  <2>1. /\ UNCHANGED <<pc, id, outcome, phase, toRelease, releaseId>>
        /\ executed \subseteq executed'
        /\ worker = "exit" => worker' = "exit"
    BY <1>6 DEF Background, WorkerStep, WorkerWrite, WorkerExit, ListenStep, ListenSelect, ListenRead,
         ListenFail, HandlerStep, HandlerLock, HandlerQuit, Shutdown, DeviceStep, DeviceAnswer,
         RouterRefuses, DeviceStray, LinkDown, callerVars, workerVars, netVars, closeVars
  <2> QED
    BY <2>1 DEF ReleasesAreTheClosers, CloserInClose, AnswersWereExecuted, ClosedHasNoSender
<1>7. ASSUME BeginClose \/ CloseShutdown \/ UNCHANGED lvars PROVE Rest'
  <2>1. UNCHANGED <<pc, id, outcome, executed, worker, toRelease, releaseId>>
    BY <1>7 DEF BeginClose, CloseShutdown, lvars, vars, callerVars, workerVars, netVars, closeVars
  <2>2. CASE phase' = phase
    BY <2>1, <2>2 DEF ReleasesAreTheClosers, CloserInClose, AnswersWereExecuted, ClosedHasNoSender
  <2>3. CASE phase' = "release"
    BY <2>1, <2>3 DEF ReleasesAreTheClosers, CloserInClose, AnswersWereExecuted, ClosedHasNoSender
  <2>4. CASE phase' = "wait" /\ toRelease = {} /\ pc[Closer] = "idle"
    BY <2>1, <2>4 DEF ReleasesAreTheClosers, CloserInClose, AnswersWereExecuted, ClosedHasNoSender
  <2> QED
    BY <1>7, <2>2, <2>3, <2>4 DEF BeginClose, CloseShutdown, ReleasesOver, lvars, closeVars
<1>8. ASSUME WaitReleased \/ WaitReturns PROVE Rest'
  <2>1. /\ UNCHANGED <<pc, id, outcome, worker, toRelease, releaseId>>
        /\ executed \subseteq executed'
    BY <1>8 DEF WaitReleased, WaitReturns, WaitPanics, LinkDown, vars, callerVars, workerVars,
                netVars
  <2>2. ReleasesAreTheClosers' /\ AnswersWereExecuted'
    BY <2>1 DEF ReleasesAreTheClosers, AnswersWereExecuted
  <2>3. CASE WaitReleased
    <3>1. /\ phase = "wait" /\ phase' = "released"
          /\ worker = "exit" /\ \A c \in Callers : pc[c] = "idle"
      BY <2>3 DEF WaitReleased, WaitGroupIsZero
    <3> QED
      BY <2>1, <2>2, <3>1 DEF CloserInClose, ClosedHasNoSender
  <2>4. CASE WaitReturns
    <3>1. phase = "released" /\ phase' \in {"released", "closed"}
      BY <2>4 DEF WaitReturns
    <3> QED
      BY <2>1, <2>2, <3>1 DEF CloserInClose, ClosedHasNoSender
  <2> QED
    BY <1>8, <2>3, <2>4
<1>9. Rest'
  <2>1. ASSUME NEW c \in Users, UserCall(c) PROVE Rest'
    BY <1>3, <2>1 DEF UserCall, Users
  <2>2. CASE ReleaseCall
    BY <1>3, <2>2 DEF ReleaseCall
  <2>3. ASSUME NEW h \in Handles, ReleaseRegister(h) PROVE Rest'
    BY <1>4, <2>3 DEF ReleaseRegister
  <2>4. CASE Elsewhere
    BY <1>4, <1>5, <1>6, <2>4 DEF Elsewhere, Users
  <2> QED
    BY <1>7, <1>8, <2>1, <2>2, <2>3, <2>4 DEF CloseNext, CloserStep
<1> QED
  BY <1>1, <1>2, <1>9

\* The invariant of Close holds in every reachable state.
THEOREM CloseInvariance == CloseSpec => []CloseInv
<1> QED
  BY CloseInvInit, CloseInvNext, PTL DEF CloseSpec

\* Close does not give up on a handle: each one it held has had its release
\* request executed, or that request has failed, before Close waits.
THEOREM HandlesAreReleased == CloseSpec => []HeldOnlyIfReleaseFailed
<1>1. CloseInv => HeldOnlyIfReleaseFailed
  <2> SUFFICES ASSUME CloseInv, phase \in {"wait", "released", "closed"}, NEW h \in Handles, ~Released(h)
               PROVE  releaseId[h] # NoId /\ outcome[releaseId[h]] \in {"empty", "error"}
    BY DEF HeldOnlyIfReleaseFailed
  <2>1. releaseId[h] # NoId /\ releaseId[h] \in InvokeIds
    BY DEF CloseInv, CloserInClose, ReleasesAreTheClosers, CloseTypeOK
  <2>2. outcome[releaseId[h]] # "none"
    BY <2>1 DEF CloseInv, ReleasesAreTheClosers
  <2>3. outcome[releaseId[h]] # "open"
    <3>1. id[Closer] = NoId
      BY CloserAssumption DEF CloseInv, CloserInClose, Inv, CallsAreOpen, InCall
    <3> QED
      BY <2>1, <3>1 DEF CloseInv, ReleasesAreTheClosers
  <2>4. outcome[releaseId[h]] # "answer"
    BY <2>1 DEF CloseInv, AnswersWereExecuted, Released
  <2> QED
    BY <2>1, <2>2, <2>3, <2>4 DEF CloseInv, Inv, TypeOK
<1> QED
  BY <1>1, CloseInvariance, PTL

\* After Close has returned a call is told that nothing was sent, and that is so.
THEOREM NothingIsSentAfterClose == CloseSpec => ClosedSendsNothing
<1> DEFINE Silent == phase = "closed" =>
             \A i \in InvokeIds : outcome'[i] # outcome[i] => outcome'[i] \in {"open", "empty"}
<1>1. CloseInv /\ [CloseNext]_lvars => Silent
  <2> SUFFICES ASSUME CloseInv, [CloseNext]_lvars, phase = "closed",
                      NEW i \in InvokeIds, outcome'[i] # outcome[i]
               PROVE  outcome'[i] \in {"open", "empty"}
    OBVIOUS
  <2>1. \E c \in Callers : Register(c) \/ Proceed(c)
    BY CloserAssumption
       DEF CloseNext, CloserStep, BeginClose, ReleaseCall, CloseShutdown, WaitReleased, WaitReturns,
       WaitPanics, LinkDown,
       ReleaseRegister, Elsewhere, UserCall, Users, Call, Background, WorkerStep, WorkerWrite,
       WorkerExit, ListenStep, ListenSelect, ListenRead, ListenFail, HandlerStep, HandlerLock,
       HandlerQuit, Shutdown, DeviceStep, DeviceAnswer, RouterRefuses, DeviceStray, lvars, vars, callerVars
  <2>2. ASSUME NEW c \in Callers, Register(c) PROVE outcome'[i] = "open"
    BY <2>2, MaxCallsAssumption DEF Register, CloseInv, Inv, TypeOK
  <2>3. ASSUME NEW c \in Callers, Proceed(c) PROVE outcome'[i] = "empty"
    BY <2>3, MaxCallsAssumption
       DEF Proceed, Publish, Enqueue, GiveUpEnqueue, Select, RacySelect, GiveUpAwait, Deliver, At,
           Finish, callerVars, CloseInv, ClosedHasNoSender, Inv, TypeOK
  <2> QED
    BY <2>1, <2>2, <2>3
<1>2. CloseInv /\ [CloseNext]_lvars => [Silent]_lvars
  BY <1>1
<1> QED
  BY <1>2, CloseInvariance, PTL DEF CloseSpec, ClosedSendsNothing
=============================================================================
