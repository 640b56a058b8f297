-------------------------- MODULE ConnectingProofs --------------------------
(***************************************************************************)
(* What holds of Connecting for every number of requests and of system     *)
(* frames, and every choice of commands.                                   *)
(***************************************************************************)
EXTENDS Connecting, SequenceTheorems, TLAPS

USE BoundsAssumption

On(s)    == {s[k] : k \in 1 .. Len(s)}
Early    == {"new", "send", "handshake", "info", "types"}
NotNew   == {"send", "handshake", "info"}

-----------------------------------------------------------------------------
(* Streams *)

\* A frame that is put on the stream is the only one that is new on it.
LEMMA OnAppend ==
  ASSUME NEW s \in Seq(Frames), NEW f \in Frames
  PROVE  Append(s, f) \in Seq(Frames) /\ On(Append(s, f)) \subseteq On(s) \cup {f}
BY DEF On

\* Taking the first frame from the stream adds none.
LEMMA OnTail ==
  ASSUME NEW s \in Seq(Frames), s # <<>>
  PROVE  /\ Head(s) \in Frames /\ Head(s) \in On(s)
         /\ Tail(s) \in Seq(Frames) /\ On(Tail(s)) \subseteq On(s)
<1>1. Len(s) \in Nat \ {0} /\ Head(s) = s[1]
  BY EmptySeq
<1>2. \A k \in 1 .. Len(Tail(s)) : Tail(s)[k] = s[k + 1] /\ k + 1 \in 1 .. Len(s)
  BY <1>1, HeadTailProperties
<1> QED
  BY <1>1, <1>2, HeadTailProperties DEF On

\* A link that breaks leaves frames of those that were on their way, the last
\* one perhaps torn.
LEMMA OnCut ==
  ASSUME NEW s \in Seq(Frames), NEW n \in 0 .. Len(s),
         NEW t \in {SubSeq(s, 1, n), Torn(SubSeq(s, 1, n), n)}
  PROVE  t \in Seq(Frames) /\ \A f \in On(t) : \E g \in On(s) : g.of = f.of
<1> DEFINE r == SubSeq(s, 1, n)
<1>1. n \in Nat /\ Len(s) \in Nat /\ \A i \in 1 .. n : s[i] \in Frames
  BY ElementOfSeq
<1>2. r \in Seq(Frames) /\ Len(r) = n /\ \A i \in 1 .. n : r[i] = s[i]
  BY <1>1, SubSeqProperties
<1> HIDE DEF r
<1>3. CASE t = r
  BY <1>1, <1>2, <1>3 DEF On
<1>4. CASE t = Torn(r, n) /\ n # 0
  <2> DEFINE e == [r[n] EXCEPT !.torn = TRUE]
  <2>last. n \in 1 .. Len(r)
    BY <1>1, <1>2, <1>4
  <2>1. e \in Frames /\ e.of = r[n].of
    BY <1>1, <1>2, <2>last DEF Frames
  <2>2. t = [r EXCEPT ![n] = e]
    BY <1>4 DEF Torn
  <2>3. /\ t \in Seq(Frames) /\ Len(t) = n
        /\ \A i \in 1 .. n : t[i] = IF i = n THEN e ELSE r[i]
    <3> HIDE DEF e
    <3> QED
      BY <1>2, <2>last, <2>1, <2>2, ExceptSeq
  <2> HIDE DEF e
  <2>4. \A i \in 1 .. n : t[i].of = s[i].of
    BY <1>2, <2>1, <2>3
  <2> QED
    BY <1>1, <2>3, <2>4 DEF On
<1>5. CASE t = Torn(r, n) /\ n = 0
  BY <1>2, <1>3, <1>5 DEF Torn
<1> QED
  BY <1>3, <1>4, <1>5 DEF r

-----------------------------------------------------------------------------
(* The inductive invariant *)

\* Nothing has been dialled.
LEMMA InvInit == Init => Inv
<1> SUFFICES ASSUME Init PROVE Inv
  OBVIOUS
<1> USE DEF Init
<1>1. stream \in Seq(Frames) /\ Len(stream) = 0
  BY EmptySeq
<1>2. TypeOK
  <2>1. {sent, worker, orphan, sizes, shutdown, running, connected, asked} \subseteq BOOLEAN
    OBVIOUS
  <2> QED
    BY <1>1, <2>1 DEF TypeOK, Kinds, Responses, NoResponse
<1>3. Travelling = {}
  BY <1>1 DEF Travelling
<1>4. InOrder /\ SuccessIsReal /\ CutTypesMeetNoSymbol
  BY <1>3 DEF InOrder, SuccessIsReal, CutTypesMeetNoSymbol
<1> QED
  BY <1>2, <1>4 DEF Inv

\* A step that moves frames on, lets goroutines go or cuts the link.
LEMMA Quiet ==
  ASSUME Inv, TypeOK',
         UNCHANGED <<call, calls, kind, succeeded, types, table, answer>>,
         connected' => connected,
         \A f \in Travelling' : /\ f.torn => ~connected'
                                /\ \E g \in Travelling : g.of = f.of,
         place' = place \/ (place \in Early \ {"new"} /\ place' \in NotNew)
  PROVE  Inv'
<1>1. InOrder'
  <2>1. place' = "new" => Travelling' = {} /\ calls = 0 /\ succeeded = NoResponse
    BY DEF Inv, InOrder, NotNew, Early
  <2>2. \A f \in Travelling' : /\ f.of <= calls
                               /\ call # 0 /\ f.of = call => answer # "none" /\ types # "cut"
    BY DEF Inv, InOrder
  <2>3. types = "cut" => ~connected'
    BY DEF Inv, InOrder
  <2>4. place' \in Early => place \in Early
    BY DEF Early
  <2>5. place' = "new" => place = "new"
    BY DEF NotNew
  <2>6. place' = "symbols" => place = "symbols"
    BY DEF NotNew
  <2> QED
    BY <2>1, <2>2, <2>3, <2>4, <2>5, <2>6 DEF Inv, InOrder, Early
<1>2. SuccessIsReal' /\ CutTypesMeetNoSymbol'
  BY DEF Inv, SuccessIsReal, CutTypesMeetNoSymbol
<1> QED
  BY <1>1, <1>2 DEF Inv

\* A call that returns, answered or not.  What is assumed of the response holds
\* of the answers that Deliver finds.
LEMMA ReturnInv ==
  ASSUME Inv, call # 0, NEW response \in Responses, Return(response),
         handlers' \subseteq handlers, UNCHANGED orphan,
         response = "torn" => ~connected,
         response \in {"ok", "torn"} => types # "cut",
         response \in {"ok", "refused"} => answer = response
  PROVE  Inv'
<1> USE DEF Return
<1>how. /\ succeeded' \in {response, NoResponse}
        /\ succeeded' # NoResponse => answer' = answer /\ ~Fails(kind, response)
        /\ answer' \in {answer, "none"}
  <2>1. PICK how \in Results(kind, response) :
          IF how = "success" THEN succeeded' = response /\ UNCHANGED answer
                             ELSE succeeded' = NoResponse /\ answer' = "none"
    OBVIOUS
  <2>2. how = "success" => ~Fails(kind, response)
    BY <2>1 DEF Results, Fails, LooksAtError
  <2> QED
    BY <2>1, <2>2
<1>parsed. /\ Parsed(response) \in {"none", "cut", "whole"}
           /\ Parsed(response) = "cut" => response = "torn"
           /\ Parsed(response) # "none" => response \in {"ok", "torn"}
  BY DEF Parsed
<1>types. /\ types' \in {types, Parsed(response)}
          /\ types' # types => place = "types" /\ succeeded' # NoResponse
  BY DEF Upload
<1>table. /\ table' \in {table, Parsed(response)}
          /\ table' # table => place = "symbols" /\ succeeded' # NoResponse
  BY DEF Upload
<1>place. /\ place \in Early => place' \in Early \cup {"symbols"}
          /\ place' \in Early => place \in Early /\ place # "types"
          /\ place' = "symbols" => place = "types"
          /\ place' = "new" => place = "new"
  BY DEF NextPlace, Early
<1>travelling. Travelling' \subseteq Travelling
  BY DEF Travelling
<1>1. TypeOK'
  <2>1. place' \in Uploads \cup {"new", "send", "handshake", "open", "failed"}
    BY DEF NextPlace, Inv, TypeOK, Uploads
  <2>2. running' \in BOOLEAN /\ sizes' \in BOOLEAN
    BY DEF Inv, TypeOK
  <2>3. answer' \in {"none", "ok", "refused", "empty"} /\ succeeded' \in Responses
    BY <1>how DEF Inv, TypeOK, NoResponse, Responses
  <2>4. types' \in {"none", "cut", "whole"} /\ table' \in {"none", "cut", "whole"}
    BY <1>types, <1>table, <1>parsed DEF Inv, TypeOK
  <2>5. {sent', worker', orphan', sizes', shutdown', running', connected', asked'} \subseteq BOOLEAN
    BY <2>2 DEF Inv, TypeOK
  <2>6. /\ call' \in 0 .. calls' /\ calls' \in 0 .. MaxCalls /\ kind' \in Kinds
        /\ listener' \in {"none", "select", "offer", "exit"} /\ handlers' \subseteq Frames
        /\ toDevice' \subseteq 1 .. calls' /\ stream' \in Seq(Frames) /\ strays' \in 0 .. MaxSystem
    BY DEF Inv, TypeOK
  <2> QED
    BY <2>1, <2>3, <2>4, <2>5, <2>6 DEF TypeOK
<1>2. SuccessIsReal'
  BY <1>how DEF Inv, SuccessIsReal, NoResponse, Fails, NeedsBytes, LooksAtError, Kinds, Responses,
        TypeOK
<1>3. CutTypesMeetNoSymbol'
  BY <1>types, <1>table, <1>parsed DEF Inv, CutTypesMeetNoSymbol, InOrder
<1>4. InOrder'
  <2>1. types' = "cut" => ~connected'
    BY <1>types, <1>parsed DEF Inv, InOrder
  <2>2. place' # "new"
    BY <1>place DEF Inv, InOrder
  <2>3. \A f \in Travelling' : f.of <= calls /\ (f.torn => ~connected')
    BY <1>travelling DEF Inv, InOrder
  <2>4. /\ place' \in Early => types' = "none" /\ table' = "none"
        /\ place' = "symbols" => table' = "none"
    BY <1>place, <1>types, <1>table DEF Inv, InOrder, Early
  <2> QED
    BY <2>1, <2>2, <2>3, <2>4 DEF InOrder, Early
<1> QED
  BY <1>1, <1>2, <1>3, <1>4 DEF Inv

\* A frame that is put on the stream preserves the invariant if, when it is the
\* answer to the call under way, the device has answered.
LEMMA AppendInv ==
  ASSUME Inv, TypeOK', NEW i \in 0 .. calls, connected,
         stream' = Append(stream, Frame(i, FALSE)),
         call # 0 /\ i = call => answer' # "none",
         answer' = answer \/ (answer' # "none" /\ call # 0),
         UNCHANGED <<place, call, calls, kind, succeeded, types, table, handlers, connected>>
  PROVE  Inv'
<1>1. \A f \in Travelling' : f \in Travelling \/ f = Frame(i, FALSE)
  <2>1. stream \in Seq(Frames) /\ Frame(i, FALSE) \in Frames
    BY DEF Inv, TypeOK, Frames, Frame
  <2>2. On(stream') \subseteq On(stream) \cup {Frame(i, FALSE)}
    BY <2>1, OnAppend
  <2> QED
    BY <2>2 DEF Travelling, On
<1>2. InOrder'
  <2>1. place # "new" /\ types # "cut"
    BY DEF Inv, InOrder
  <2>2. \A f \in Travelling' : /\ f.of <= calls /\ (f.torn => ~connected)
                               /\ call # 0 /\ f.of = call => answer' # "none"
    BY <1>1 DEF Inv, InOrder, TypeOK, Frame
  <2> QED
    BY <2>1, <2>2 DEF Inv, InOrder
<1>3. SuccessIsReal' /\ CutTypesMeetNoSymbol'
  BY DEF Inv, InOrder, SuccessIsReal, CutTypesMeetNoSymbol
<1> QED
  BY <1>2, <1>3 DEF Inv

-----------------------------------------------------------------------------
(* Every step preserves the invariant *)

\* Dialling, with or without success.
LEMMA DialInv ==
  ASSUME Inv, DialFails \/ \E local \in BOOLEAN : Dial(local)
  PROVE  Inv'
<1> USE DEF At, callVars, goVars, tableVars, lifeVars, netVars
<1>1. /\ place = "new" /\ place' \in {"failed", "send", "info"} /\ Travelling' = Travelling
      /\ worker' \in BOOLEAN /\ connected' \in BOOLEAN /\ listener' \in {listener, "select"}
      /\ UNCHANGED <<callVars, handlers, orphan, tableVars, lifeVars, asked, toDevice, answer,
                     stream, strays>>
  BY DEF DialFails, Dial, Inv, TypeOK, Travelling
<1>2. TypeOK'
  BY <1>1 DEF Inv, TypeOK, Uploads
<1>3. InOrder'
  BY <1>1 DEF Inv, InOrder
<1>4. SuccessIsReal'
  BY <1>1 DEF Inv, InOrder, SuccessIsReal
<1>5. CutTypesMeetNoSymbol'
  BY <1>1 DEF Inv, CutTypesMeetNoSymbol
<1> QED
  BY <1>2, <1>3, <1>4, <1>5 DEF Inv

\* The handshake, the end of a goroutine, and a handler without a caller.
LEMMA QuietInv ==
  ASSUME Inv,
         \/ SendSystem \/ Handshake \/ HandshakeCancelled \/ ListenExit \/ OrphanQuits
         \/ WorkerExit \/ Shutdown
         \/ \E i \in 1 .. MaxCalls, torn \in BOOLEAN : Orphan(Frame(i, torn))
  PROVE  Inv'
<1> USE DEF At, callVars, goVars, tableVars, lifeVars, netVars
<1> DEFINE Kept == UNCHANGED <<call, calls, kind, succeeded, types, table, answer, sent, sizes,
                               running, connected, toDevice, stream, strays>>
           Moved == place' = place \/ (place \in Early \ {"new"} /\ place' \in NotNew)
           Typed == /\ worker' \in BOOLEAN /\ orphan' \in BOOLEAN /\ shutdown' \in BOOLEAN
                    /\ asked' \in BOOLEAN /\ listener' \in {listener, "select", "exit"}
                    /\ handlers' \subseteq handlers
<1>1. ASSUME SendSystem \/ Handshake \/ HandshakeCancelled PROVE Kept /\ Moved /\ Typed
  BY <1>1 DEF SendSystem, Handshake, HandshakeCancelled, Inv, TypeOK, Early, NotNew
<1>2. ASSUME ListenExit \/ OrphanQuits \/ WorkerExit \/ Shutdown PROVE Kept /\ Moved /\ Typed
  BY <1>2 DEF ListenExit, OrphanQuits, WorkerExit, Shutdown, Inv, TypeOK
<1>3. ASSUME NEW f, Orphan(f) PROVE Kept /\ Moved /\ Typed
  BY <1>3 DEF Orphan, Inv, TypeOK
<1>4. Kept /\ Moved /\ Typed
  BY <1>1, <1>2, <1>3
<1> HIDE DEF Moved, Typed
<1>5. Travelling' \subseteq Travelling
  BY <1>4 DEF Travelling, Typed
<1>6. TypeOK'
  BY <1>4 DEF Inv, TypeOK, Moved, Typed, NotNew, Uploads
<1> QED
  BY <1>4, <1>5, <1>6, Quiet DEF Moved, Inv, InOrder

\* Frames read, lost or cut.
LEMMA StreamInv ==
  ASSUME Inv, ListenFrame \/ LinkDown
  PROVE  Inv'
<1> USE DEF callVars, goVars, tableVars, lifeVars, netVars
<1>0. stream \in Seq(Frames) /\ handlers \subseteq Frames
  BY DEF Inv, TypeOK
<1>1. CASE ListenFrame
  <2> USE <1>1 DEF ListenFrame
  <2>1. /\ Head(stream) \in Frames /\ stream' \in Seq(Frames)
        /\ handlers' \subseteq handlers \cup {Head(stream)}
        /\ handlers' \cup On(stream') \subseteq handlers \cup On(stream)
    BY <1>0, OnTail
  <2>2. Travelling' \subseteq Travelling
    BY <2>1 DEF Travelling, On
  <2>3. TypeOK'
    BY <2>1 DEF Inv, TypeOK
  <2> QED
    BY <2>2, <2>3, Quiet DEF Inv, InOrder
<1>2. CASE LinkDown
  <2> USE <1>2 DEF LinkDown
  <2>1. stream' \in Seq(Frames) /\ \A f \in On(stream') : \E g \in On(stream) : g.of = f.of
    BY <1>0, OnCut
  <2>2. \A f \in Travelling' : \E g \in Travelling : g.of = f.of
    BY <2>1 DEF Travelling, On
  <2>3. TypeOK'
    BY <2>1 DEF Inv, TypeOK
  <2> QED
    BY <2>2, <2>3, Quiet
<1> QED
  BY <1>1, <1>2

\* A frame from the device or from the router.
LEMMA ArrivalInv ==
  ASSUME Inv,
         \/ RouterAnswers \/ RouterNotifies
         \/ \E i \in 1 .. MaxCalls, r \in {"ok", "refused", "empty"} : DeviceAnswers(i, r)
  PROVE  Inv'
<1> USE DEF callVars, goVars, tableVars, lifeVars, netVars
<1>0. /\ stream \in Seq(Frames)
      /\ \A i \in 0 .. MaxCalls : /\ Frame(i, FALSE) \in Frames
                                 /\ Append(stream, Frame(i, FALSE)) \in Seq(Frames)
  BY OnAppend DEF Inv, TypeOK, Frames, Frame
<1>1. \A i \in 0 .. MaxCalls : stream' = Append(stream, Frame(i, FALSE)) => stream' \in Seq(Frames)
  BY <1>0
<1>2. CASE RouterAnswers
  <2> USE <1>2 DEF RouterAnswers
  <2>1. stream' = Append(stream, Frame(0, FALSE)) /\ 0 \in 0 .. calls /\ 0 \in 0 .. MaxCalls
    BY DEF Inv, TypeOK
  <2>2. {sent', worker', orphan', sizes', shutdown', running', connected', asked'} \subseteq BOOLEAN
    BY DEF Inv, TypeOK
  <2>3. TypeOK'
    BY <1>1, <2>1, <2>2 DEF Inv, TypeOK
  <2> QED
    BY <2>1, <2>3, AppendInv
<1>3. CASE RouterNotifies
  <2> USE <1>3 DEF RouterNotifies
  <2>1. /\ stream' = Append(stream, Frame(0, FALSE)) /\ 0 \in 0 .. calls /\ 0 \in 0 .. MaxCalls
        /\ strays' \in 0 .. MaxSystem
    BY DEF Inv, TypeOK
  <2>2. TypeOK'
    BY <1>1, <2>1 DEF Inv, TypeOK
  <2> QED
    BY <2>1, <2>2, AppendInv
<1>4. ASSUME NEW i \in 1 .. MaxCalls, NEW r \in {"ok", "refused", "empty"}, DeviceAnswers(i, r)
      PROVE  Inv'
  <2> USE <1>4 DEF DeviceAnswers
  <2>1. i \in 0 .. calls /\ i \in 0 .. MaxCalls /\ i # 0
    BY DEF Inv, TypeOK
  <2>2. stream' \in Seq(Frames) /\ toDevice' \subseteq 1 .. calls
    BY <1>1, <2>1 DEF Inv, TypeOK
  <2>3. answer' \in {"none", "ok", "refused", "empty"}
    BY DEF Inv, TypeOK
  <2>4. TypeOK'
    BY <2>2, <2>3 DEF Inv, TypeOK
  <2> QED
    BY <2>1, <2>4, AppendInv
<1> QED
  BY <1>2, <1>3, <1>4

\* A command begins, is sent, and returns.
LEMMA CommandInv ==
  ASSUME Inv,
         \/ \E k \in Kinds : Begin(k)
         \/ Sent \/ GiveUpUnsent \/ GiveUp
         \/ \E i \in 1 .. MaxCalls, torn \in BOOLEAN : Deliver(Frame(i, torn))
  PROVE  Inv'
<1> USE DEF callVars, goVars, tableVars, lifeVars, netVars
<1>1. ASSUME NEW k \in Kinds, Begin(k) PROVE Inv'
  <2> USE <1>1 DEF Begin
  <2>a. /\ calls \in Nat /\ MaxCalls \in Nat /\ calls < MaxCalls
        /\ calls' = calls + 1 /\ call' = calls + 1
    BY DEF Inv, TypeOK
  <2>b. call' \in 0 .. calls' /\ calls' \in 0 .. MaxCalls
    BY <2>a
  <2>c. toDevice' \subseteq 1 .. calls'
    <3>1. 1 .. calls \subseteq 1 .. calls'
      BY <2>a
    <3> QED
      BY <3>1 DEF Inv, TypeOK
  <2>d. {sent', worker', orphan', sizes', shutdown', running', connected', asked'} \subseteq BOOLEAN
    BY DEF Inv, TypeOK
  <2>e. succeeded' \in Responses /\ kind' \in Kinds /\ answer' \in {"none", "ok", "refused", "empty"}
    BY DEF NoResponse, Responses
  <2>1. TypeOK'
    BY <2>b, <2>c, <2>d, <2>e DEF Inv, TypeOK
  <2>2. Travelling' = Travelling
    BY DEF Travelling
  <2>3. \A f \in Travelling : f.of <= calls /\ f.of \in Nat
    <3>1. Travelling \subseteq Frames
      BY ElementOfSeq DEF Inv, TypeOK, Travelling
    <3> QED
      BY <3>1 DEF Inv, InOrder, Frames
  <2>4. \A f \in Travelling' : f.of <= calls' /\ f.of # call' /\ (f.torn => ~connected)
    BY <2>a, <2>2, <2>3 DEF Inv, InOrder
  <2>5. place # "new"
    BY DEF Uploads
  <2>6. InOrder'
    BY <2>4, <2>5 DEF Inv, InOrder
  <2>7. SuccessIsReal' /\ CutTypesMeetNoSymbol'
    BY DEF Inv, SuccessIsReal, CutTypesMeetNoSymbol
  <2> QED
    BY <2>1, <2>6, <2>7 DEF Inv
<1>2. CASE Sent
  <2> USE <1>2 DEF Sent
  <2>1. TypeOK'
    BY DEF Inv, TypeOK
  <2>2. Travelling' = Travelling
    BY DEF Travelling
  <2> QED
    BY <2>1, <2>2, Quiet DEF Inv, InOrder
<1>3. CASE GiveUpUnsent
  BY <1>3, ReturnInv DEF GiveUpUnsent, Responses
<1>4. CASE GiveUp
  BY <1>4, ReturnInv DEF GiveUp, Responses
<1>5. ASSUME NEW i \in 1 .. MaxCalls, NEW torn \in BOOLEAN, Deliver(Frame(i, torn)) PROVE Inv'
  <2> DEFINE f        == Frame(i, torn)
             response == IF torn THEN "torn" ELSE answer
  <2>1. f \in Travelling /\ f.of = call /\ f.torn = torn /\ call # 0
    BY <1>5 DEF Deliver, Frame, Travelling
  <2>2. answer # "none" /\ types # "cut" /\ (torn => ~connected)
    BY <2>1 DEF Inv, InOrder
  <2>3. response \in Responses
    BY <2>2 DEF Inv, TypeOK, Responses
  <2>4. Return(response) /\ handlers' \subseteq handlers /\ UNCHANGED orphan
    BY <1>5, <2>1 DEF Deliver
  <2>5. /\ response = "torn" => ~connected
        /\ response \in {"ok", "refused"} => answer = response
    BY <2>2 DEF Inv, TypeOK
  <2> HIDE DEF response
  <2> QED
    BY <2>1, <2>2, <2>3, <2>4, <2>5, ReturnInv
<1> QED
  BY <1>1, <1>2, <1>3, <1>4, <1>5

\* Every step.
LEMMA InvNext == Inv /\ [Next]_vars => Inv'
<1> SUFFICES ASSUME Inv, [Next]_vars PROVE Inv'
  OBVIOUS
<1>1. CASE UNCHANGED vars
  <2> USE <1>1 DEF vars, callVars, goVars, tableVars, lifeVars, netVars
  <2>1. TypeOK'
    BY DEF Inv, TypeOK
  <2>2. Travelling' = Travelling
    BY DEF Travelling
  <2> QED
    BY <2>1, <2>2, Quiet DEF Inv, InOrder
<1>2. CASE Next
  BY <1>2, DialInv, QuietInv, StreamInv, ArrivalInv, CommandInv
     DEF Next, CallStep, HandlerStep, ListenStep, DeviceStep
<1> QED
  BY <1>1, <1>2

\* The invariant that the rest follows from, type correctness included.
THEOREM Invariance == Spec => []Inv
<1> QED
  BY InvInit, InvNext, PTL DEF Spec

\* A command that reports success was carried out, but for a torn answer, an
\* answer without bytes to a command that needs none, and commands that do not
\* look at the device's error code.
THEOREM SuccessMeansDone == Spec => []SuccessIsReal
<1>1. Inv => SuccessIsReal
  BY DEF Inv
<1> QED
  BY <1>1, Invariance, PTL

\* Data types whose upload was cut off never meet a symbol.
THEOREM CutTypesStayAlone == Spec => []CutTypesMeetNoSymbol
<1>1. Inv => CutTypesMeetNoSymbol
  BY DEF Inv
<1> QED
  BY <1>1, Invariance, PTL
=============================================================================
