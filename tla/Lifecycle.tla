----------------------------- MODULE Lifecycle -----------------------------
(***************************************************************************)
(* Close (connection.go) on top of Requests.  One goroutine, the Closer,   *)
(* closes the connection: it asks the device to release every handle the   *)
(* connection holds, one request after the other, cancels the connection's *)
(* context, waits for the wait group and closes the socket.  The other     *)
(* callers keep calling all the while, and the context NewConnection was   *)
(* given may be cancelled at any time.                                     *)
(***************************************************************************)
EXTENDS Requests

CONSTANTS Closer,     \* the goroutine that calls Close, and nothing else
          Handles     \* notification and symbol handles held at that time

ASSUME CloserAssumption  == Closer \in Callers
ASSUME HandlesAssumption == IsFiniteSet(Handles)

VARIABLES phase,      \* where Close is
          toRelease,  \* handles its loops have not come to yet
          releaseId   \* releaseId[h]: the request that releases h

closeVars == <<phase, toRelease, releaseId>>
lvars     == <<vars, closeVars>>

CloseTypeOK == /\ phase \in {"open", "release", "wait", "released", "closed"}
               /\ toRelease \subseteq Handles
               /\ releaseId \in [Handles -> InvokeIds \cup {NoId}]

CloseInit == /\ Init
             /\ phase = "open"
             /\ toRelease = Handles
             /\ releaseId = [h \in Handles |-> NoId]

Users == Callers \ {Closer}

\* Bound: enough ids are left for the releases.
UserCall(c) == /\ currentRequest + Cardinality({d \in Users : pc[d] = "lock"})
                    + Cardinality(toRelease) < MaxCalls
               /\ Call(c)
               /\ UNCHANGED closeVars

BeginClose == /\ running /\ phase = "open"
              /\ phase' = "release"
              /\ UNCHANGED <<vars, toRelease, releaseId>>

\* DeleteDeviceNotification or Write of one more handle: sendRequest is entered ...
ReleaseCall == /\ phase = "release" /\ toRelease # {}
               /\ Call(Closer)
               /\ UNCHANGED closeVars

\* ... and gets its id.  A map is ranged over in no particular order.
ReleaseRegister(h) == /\ h \in toRelease
                      /\ Register(Closer)
                      /\ toRelease' = toRelease \ {h}
                      /\ releaseId' = [releaseId EXCEPT ![h] = NextInvokeId]
                      /\ UNCHANGED phase

\* Faulty: does not wait for the last release.
ReleasesSent == toRelease = {}

ReleasesOver == toRelease = {} /\ pc[Closer] = "idle"

\* Faulty: conn.shutdown() is forgotten.
CloseWithoutShutdown == /\ running /\ phase = "release" /\ ReleasesOver
                        /\ phase' = "wait"
                        /\ UNCHANGED <<vars, toRelease, releaseId>>

\* conn.shutdown(), whatever became of the releases.
CloseShutdown == /\ running /\ phase = "release" /\ ReleasesOver
                 /\ phase' = "wait"
                 /\ shutdown' = TRUE
                 /\ UNCHANGED <<callerVars, mapVars, workerVars, receiveVars, running, netVars,
                                toRelease, releaseId>>

\* Faulty: transmitWorker is not in the wait group.
CallsAreOver == \A c \in Callers : pc[c] = "idle"

\* The wait group counts transmitWorker and the calls under way; listen is
\* not in it, nor are the handlers of answers.
WaitGroupIsZero == worker = "exit" /\ \A c \in Callers : pc[c] = "idle"

\* waitGroup.Wait is let go the moment the counter is zero ...
WaitReleased == /\ running /\ phase = "wait" /\ WaitGroupIsZero
                /\ phase' = "released"
                /\ UNCHANGED <<vars, toRelease, releaseId>>

\* ... and returns, and the socket is closed, unless a call has begun meanwhile.
\* What the kernel had not sent by then may still be executed: LinkDown settles
\* that at once.
WaitReturns == /\ running /\ phase = "released"
               /\ IF WaitGroupIsZero
                  THEN phase' = "closed" /\ IF connected THEN LinkDown ELSE UNCHANGED vars
                  ELSE WaitPanics /\ UNCHANGED phase
               /\ UNCHANGED <<toRelease, releaseId>>

CloserStep == \/ BeginClose \/ ReleaseCall \/ CloseShutdown \/ WaitReleased \/ WaitReturns
              \/ \E h \in Handles : ReleaseRegister(h)

Elsewhere == /\ \/ \E c \in Callers : Proceed(c)
                \/ \E c \in Users : Register(c)
                \/ Background \/ Shutdown
             /\ UNCHANGED closeVars

CloseNext == CloserStep \/ Elsewhere \/ \E c \in Users : UserCall(c)

CloseSpec == CloseInit /\ [][CloseNext]_lvars

CloserFairness == /\ WF_lvars(ReleaseCall) /\ WF_lvars(CloseShutdown)
                  /\ WF_lvars(WaitReleased) /\ WF_lvars(WaitReturns)
                  /\ SF_lvars(\E h \in Handles : ReleaseRegister(h))

CloseFairSpec == /\ CloseSpec /\ CloserFairness
                 /\ \A c \in Callers : CallFairness(c)
                 /\ \A c \in Users : SF_vars(Register(c))
                 /\ BackgroundFairness

-----------------------------------------------------------------------------
(* Properties *)

\* The device has dealt with the request to release h; that it refused counts.
Released(h) == releaseId[h] \in executed

\* When Close has returned, a handle is still held by the device only if the
\* request to release it failed: every handle got its request and every
\* request was waited for.
HeldOnlyIfReleaseFailed ==
  phase \in {"wait", "released", "closed"} =>
    \A h \in Handles : Released(h) \/ (releaseId[h] # NoId /\ outcome[releaseId[h]] \in {"empty", "error"})

\* The inductive invariant: where the Closer is, which requests are its own,
\* and what is left of the others when the wait group has reached zero.
ReleasesAreTheClosers ==
  \A h \in Handles : /\ h \in toRelease <=> releaseId[h] = NoId
                     /\ releaseId[h] # NoId => outcome[releaseId[h]] # "none"
                     /\ releaseId[h] # NoId /\ outcome[releaseId[h]] = "open" => id[Closer] = releaseId[h]
CloserInClose == /\ pc[Closer] # "idle" => phase = "release"
                 /\ phase \in {"wait", "released", "closed"} => toRelease = {}
AnswersWereExecuted == \A i \in InvokeIds : outcome[i] = "answer" => i \in executed
ClosedHasNoSender ==
  phase \in {"released", "closed"} =>
    worker = "exit" /\ \A c \in Callers : pc[c] \notin {"select", "await", "deaf"}

CloseInv == /\ Inv /\ CloseTypeOK /\ ReleasesAreTheClosers /\ CloserInClose
            /\ AnswersWereExecuted /\ ClosedHasNoSender

\* A call made when Close has returned is told that nothing was sent: it is
\* neither answered nor left to time out with its request on the way.
ClosedSendsNothing ==
  [][phase = "closed" =>
       \A i \in InvokeIds : outcome'[i] # outcome[i] => outcome'[i] \in {"open", "empty"}]_lvars

\* Close returns, unless a late answer's handler is blocked with the lock
\* before Close gets to cancel the context, or the peer has stopped reading.
CloseReturnsUnlessStuck ==
  /\ phase = "release" ~> phase = "wait" \/ Orphaned \/ ~running
  /\ phase = "wait" ~> phase = "closed" \/ [](worker = "write") \/ ~running

\* "Close closes connection and waits for completion" (connection.go:138).
CloseReturns ==
  phase = "release" ~> phase = "closed" \/ [](worker = "write") \/ ~running

\* listen is not waited for, but ends once the socket is closed.
ListenerEnds == phase = "closed" ~> listener = "exit" \/ ~running
=============================================================================
