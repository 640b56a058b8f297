----------------------------- MODULE Connecting -----------------------------
(***************************************************************************)
(* Connect (connection.go) and the use of the connection it leaves: the    *)
(* handshake with a local router, which is a system frame and goes through *)
(* send and the channel systemResponse (comm.go), the three uploads, then  *)
(* commands, one at a time.  listen serves both kinds of frame, in order.  *)
(* The stream may end within a frame: listen then hands on what it has,    *)
(* the rest zeros.                                                         *)
(*                                                                         *)
(* A request is sent, answered and given up on as in Requests; one caller  *)
(* and one lock are enough here, so callers and map are left out.          *)
(***************************************************************************)
EXTENDS Naturals, Sequences, Commands

CONSTANTS Asked,      \* the kinds of command used once connected
          MaxCalls,   \* bound: requests made, the three uploads included
          MaxSystem   \* bound: system frames the router sends on its own

ASSUME BoundsAssumption == Asked \subseteq Kinds /\ MaxCalls \in Nat /\ MaxSystem \in Nat

VARIABLES
  place,       \* what the caller is doing
  call,        \* number of the request it waits for, 0 when none
  calls,       \* number of requests made
  kind,        \* the command that request is for
  sent,        \* it has been given to transmitWorker
  worker,      \* transmitWorker runs
  listener,    \* "select", "offer" (of a system frame), "exit"; "none" before it started
  handlers,    \* frames being handled
  orphan,      \* a handler holds activeRequestLock, with nobody to answer to
  succeeded,   \* the response on which the last command reported success
  sizes,       \* the size of the uploads is known
  types, table,\* conn.datatypes and conn.symbols: "none", "cut" or "whole"
  shutdown, running,
  connected,   \* the TCP connection is up
  asked,       \* the router has been asked for an address
  toDevice,    \* requests the device has not seen
  answer,      \* the response to the call, as it left the device: "none" yet
  stream,      \* frames on their way to the client
  strays       \* system frames the router sent on its own

callVars  == <<call, calls, kind, sent, succeeded>>
goVars    == <<worker, listener, handlers, orphan>>
tableVars == <<sizes, types, table>>
lifeVars  == <<shutdown, running>>
netVars   == <<connected, asked, toDevice, answer, stream, strays>>
vars == <<place, callVars, goVars, tableVars, lifeVars, netVars>>

Uploads   == {"info", "types", "symbols"}
NoResponse == "error"

Init ==
  /\ place = "new"
  /\ call = 0 /\ calls = 0 /\ kind = "Read" /\ sent = FALSE /\ succeeded = NoResponse
  /\ worker = FALSE /\ listener = "none" /\ handlers = {} /\ orphan = FALSE
  /\ sizes = FALSE /\ types = "none" /\ table = "none"
  /\ shutdown = FALSE /\ running = TRUE
  /\ connected = FALSE /\ asked = FALSE /\ toDevice = {} /\ answer = "none" /\ stream = <<>> /\ strays = 0

-----------------------------------------------------------------------------
(* Connect *)

At(p) == running /\ place = p

DialFails ==
  /\ At("new")
  /\ place' = "failed"
  /\ UNCHANGED <<callVars, goVars, tableVars, lifeVars, netVars>>

Dial(local) ==
  /\ At("new")
  /\ connected' = TRUE /\ worker' = TRUE /\ listener' = "select"
  /\ place' = IF local THEN "send" ELSE "info"
  /\ UNCHANGED <<callVars, handlers, orphan, tableVars, lifeVars,
                 asked, toDevice, answer, stream, strays>>

\* First select of send: transmitWorker takes the packet.
SendSystem ==
  /\ At("send") /\ worker
  /\ place' = "handshake" /\ asked' = connected
  /\ UNCHANGED <<callVars, goVars, tableVars, lifeVars,
                 connected, toDevice, answer, stream, strays>>

\* Second select of send: the first system frame to come is the answer.
Handshake ==
  /\ At("handshake") /\ listener = "offer"
  /\ place' = "info" /\ listener' = "select"
  /\ UNCHANGED <<callVars, worker, handlers, orphan, tableVars, lifeVars, netVars>>

\* Faulty: send does not look at the context.
HandshakeStays == FALSE

\* Either select of send, ctx.Done case: there is no time limit, and Connect
\* goes on without an address.
HandshakeCancelled ==
  /\ running /\ place \in {"send", "handshake"} /\ shutdown
  /\ place' = "info"
  /\ UNCHANGED <<callVars, goVars, tableVars, lifeVars, netVars>>

-----------------------------------------------------------------------------
(* Commands *)

\* sendRequest has got its invoke id.
Begin(k) ==
  /\ running /\ call = 0 /\ calls < MaxCalls /\ ~orphan
  /\ \/ place \in Uploads /\ k = "Read"
     \/ place \in {"open", "failed"} /\ k \in Asked
  /\ calls' = calls + 1 /\ call' = calls + 1 /\ kind' = k /\ sent' = FALSE
  /\ succeeded' = NoResponse /\ answer' = "none"
  /\ UNCHANGED <<place, goVars, tableVars, lifeVars, connected, asked, toDevice, stream, strays>>

\* Faulty: transmitWorker writes without having been given a packet.
SentAnything ==
  /\ running /\ worker /\ ~sent
  /\ sent' = TRUE
  /\ toDevice' = IF connected THEN toDevice \cup {call} ELSE toDevice
  /\ UNCHANGED <<place, call, calls, kind, succeeded, goVars, tableVars, lifeVars,
                 connected, asked, answer, stream, strays>>

\* transmitWorker takes the packet and writes it.
Sent ==
  /\ running /\ call # 0 /\ ~sent /\ worker
  /\ sent' = TRUE
  /\ toDevice' = IF connected THEN toDevice \cup {call} ELSE toDevice
  /\ UNCHANGED <<place, call, calls, kind, succeeded, goVars, tableVars, lifeVars,
                 connected, asked, answer, stream, strays>>

\* What parsing an upload leaves.  Without its size nothing is uploaded; the
\* end of a torn upload is parsed as zeros.
Parsed(response) == CASE response = "ok" /\ sizes -> "whole"
                      [] response = "torn"          -> "cut"
                      [] OTHER                      -> "none"

\* Faulty: the symbols before their types.
SymbolsFirst == CASE place = "info"    -> "symbols"
                  [] place = "symbols" -> "types"
                  [] place = "types"   -> "open"
                  [] OTHER             -> place

\* The errors of the uploads are logged, and Connect goes on.
NextPlace == CASE place = "info"    -> "types"
               [] place = "types"   -> "symbols"
               [] place = "symbols" -> "open"
               [] OTHER             -> place

Upload(p, old, response) ==
  IF place = p /\ succeeded' # NoResponse THEN Parsed(response) ELSE old

\* A symbol that was cut off leaves a zero entry, over which
\* ParseUploadSymbolInfoSymbols steps backwards: the process panics, unless
\* only the text of the last symbol is missing.
Return(response) ==
  /\ call' = 0
  /\ \E how \in Results(kind, response) :
       IF how = "success" THEN succeeded' = response /\ UNCHANGED answer
                          ELSE succeeded' = NoResponse /\ answer' = "none"
  /\ place' = NextPlace
  /\ sizes' = (sizes \/ (place = "info" /\ succeeded' # NoResponse))
  /\ types' = Upload("types", types, response)
  /\ table' = Upload("symbols", table, response)
  /\ running' \in IF table' = "cut" THEN BOOLEAN ELSE {running}
  /\ sent' = FALSE
  /\ UNCHANGED <<calls, kind, worker, listener, shutdown, connected, asked, toDevice, stream, strays>>

GiveUpUnsent ==
  /\ running /\ call # 0 /\ ~sent
  /\ Return("empty")
  /\ UNCHANGED <<handlers, orphan>>

GiveUp ==
  /\ running /\ call # 0 /\ sent
  /\ Return("error")
  /\ UNCHANGED <<handlers, orphan>>

-----------------------------------------------------------------------------
(* listen and handleReceive *)

\* The frame at the head of the stream.  One that was cut off within its
\* header, or before its invoke id and length were read, is dropped; a cut
\* system frame is handed on like a whole one.
ListenFrame ==
  /\ running /\ listener = "select" /\ stream # <<>>
  /\ stream' = Tail(stream)
  /\ \/ shutdown /\ listener' = "exit" /\ UNCHANGED handlers
     \/ Head(stream).of = 0 /\ listener' = "offer" /\ UNCHANGED handlers
     \/ Head(stream).of # 0 /\ handlers' = handlers \cup {Head(stream)} /\ UNCHANGED listener
     \/ Head(stream).torn /\ UNCHANGED <<listener, handlers>>
  /\ UNCHANGED <<place, callVars, worker, orphan, tableVars, lifeVars,
                 connected, asked, toDevice, answer, strays>>

\* Faulty: reads on.
ListenOn == FALSE

\* Either at its select, or after a read that failed.
ListenExit ==
  /\ running /\ listener = "select" /\ shutdown
  /\ listener' = "exit"
  /\ UNCHANGED <<place, callVars, worker, handlers, orphan, tableVars, lifeVars, netVars>>

Deliver(f) ==
  /\ running /\ f \in handlers /\ ~orphan /\ f.of = call /\ sent
  /\ handlers' = handlers \ {f}
  /\ Return(IF f.torn THEN "torn" ELSE answer)
  /\ UNCHANGED orphan

\* The answer to a call that gave up: its handler keeps activeRequestLock ...
Orphan(f) ==
  /\ running /\ f \in handlers /\ ~orphan /\ f.of # call
  /\ handlers' = handlers \ {f} /\ orphan' = TRUE
  /\ UNCHANGED <<place, callVars, worker, listener, tableVars, lifeVars, netVars>>

\* ... until the connection is shut down.
OrphanQuits ==
  /\ running /\ orphan /\ shutdown
  /\ orphan' = FALSE
  /\ UNCHANGED <<place, callVars, worker, listener, handlers, tableVars, lifeVars, netVars>>

WorkerExit ==
  /\ running /\ worker /\ shutdown
  /\ worker' = FALSE
  /\ UNCHANGED <<place, callVars, listener, handlers, orphan, tableVars, lifeVars, netVars>>

-----------------------------------------------------------------------------
(* Environment *)

Shutdown ==
  /\ ~shutdown
  /\ shutdown' = TRUE
  /\ UNCHANGED <<place, callVars, goVars, tableVars, running, netVars>>

Frame(i, torn) == [of |-> i, torn |-> torn]

\* The device carries a request out or refuses it, or a router answers for it.
DeviceAnswers(i, response) ==
  /\ connected /\ i \in toDevice
  /\ toDevice' = toDevice \ {i}
  /\ answer' = IF i = call THEN response ELSE answer
  /\ stream' = Append(stream, Frame(i, FALSE))
  /\ UNCHANGED <<place, callVars, goVars, tableVars, lifeVars, connected, asked, strays>>

RouterAnswers ==
  /\ connected /\ asked
  /\ asked' = FALSE
  /\ stream' = Append(stream, Frame(0, FALSE))
  /\ UNCHANGED <<place, callVars, goVars, tableVars, lifeVars,
                 connected, toDevice, answer, strays>>

RouterNotifies ==
  /\ connected /\ strays < MaxSystem
  /\ strays' = strays + 1
  /\ stream' = Append(stream, Frame(0, FALSE))
  /\ UNCHANGED <<place, callVars, goVars, tableVars, lifeVars,
                 connected, asked, toDevice, answer>>

Torn(s, n) == IF n = 0 THEN s ELSE [s EXCEPT ![n].torn = TRUE]

\* The link breaks: what comes before some place in the stream still arrives,
\* and that place may be within a frame.
LinkDown ==
  /\ connected
  /\ connected' = FALSE /\ asked' = FALSE /\ toDevice' = {}
  /\ \E n \in 0 .. Len(stream) : stream' \in {SubSeq(stream, 1, n), Torn(SubSeq(stream, 1, n), n)}
  /\ UNCHANGED <<place, callVars, goVars, tableVars, lifeVars, answer, strays>>

HandlerStep == \E i \in 1 .. MaxCalls, torn \in BOOLEAN :
                 Deliver(Frame(i, torn)) \/ Orphan(Frame(i, torn))
CallStep    == GiveUpUnsent \/ GiveUp \/ HandlerStep
ListenStep  == ListenFrame \/ ListenExit
DeviceStep  == \/ LinkDown \/ RouterAnswers \/ RouterNotifies
               \/ \E i \in 1 .. MaxCalls, r \in {"ok", "refused", "empty"} : DeviceAnswers(i, r)

Next == \/ DialFails \/ (\E local \in BOOLEAN : Dial(local)) \/ SendSystem \/ Handshake \/ HandshakeCancelled
        \/ \E k \in Kinds : Begin(k)
        \/ Sent \/ CallStep \/ ListenStep \/ OrphanQuits \/ WorkerExit \/ Shutdown \/ DeviceStep

Spec == Init /\ [][Next]_vars

\* Goroutines that can run do run, sendRequest has a time limit, and a read ends
\* when the link is down.  Nothing is assumed of the router, the device, the
\* link or the user.
Fairness ==
  /\ WF_vars(DialFails \/ \E local \in BOOLEAN : Dial(local))
  /\ WF_vars(SendSystem) /\ WF_vars(Handshake) /\ WF_vars(HandshakeCancelled)
  /\ WF_vars(place \in Uploads /\ Begin("Read")) /\ WF_vars(CallStep)
  /\ WF_vars(ListenFrame) /\ WF_vars(~connected /\ ListenExit)
  /\ WF_vars(OrphanQuits) /\ WF_vars(WorkerExit)

FairSpec == Spec /\ Fairness

-----------------------------------------------------------------------------
(* Properties *)

Frames == [of : 0 .. MaxCalls, torn : BOOLEAN]

TypeOK ==
  /\ place \in Uploads \cup {"new", "send", "handshake", "open", "failed"}
  /\ call \in 0 .. calls /\ calls \in 0 .. MaxCalls /\ kind \in Kinds
  /\ {sent, worker, orphan, sizes, shutdown, running, connected, asked} \subseteq BOOLEAN
  /\ succeeded \in Responses
  /\ listener \in {"none", "select", "offer", "exit"} /\ handlers \subseteq Frames
  /\ {types, table} \subseteq {"none", "cut", "whole"}
  /\ toDevice \subseteq 1 .. calls /\ answer \in {"none", "ok", "refused", "empty"}
  /\ stream \in Seq(Frames) /\ strays \in 0 .. MaxSystem

\* A command that returns without an error was carried out by the device, with
\* three exceptions: the stream ended within its answer; no byte came back, to a
\* command that needs none (the router refused it, or it was never sent, perhaps
\* because there is no connection); the command ignores the device's error code.
SuccessIsReal ==
  succeeded # NoResponse =>
    \/ answer = "ok"
    \/ succeeded = "torn" /\ ~connected
    \/ succeeded = "empty" /\ kind \in {"Write", "WriteRead", "Delete", "ReadState"}
    \/ kind \in {"ReadState", "ReadDeviceInfo"}

\* Types whose upload was cut off never meet a symbol, although Connect goes on
\* to upload the symbols: a type that lost its name would stop the process in
\* addOffset.
CutTypesMeetNoSymbol == types = "cut" => table = "none"

\* What these rest on: which frames may be on their way, to whom and when, and
\* the order in which Connect fills its tables.
Travelling == handlers \cup {stream[k] : k \in 1 .. Len(stream)}

InOrder ==
  /\ call \in {0, calls}
  /\ succeeded # NoResponse => call = 0
  /\ place = "new" => ~connected /\ Travelling = {} /\ calls = 0 /\ succeeded = NoResponse
  /\ types = "cut" => ~connected
  /\ \A f \in Travelling : /\ f.of <= calls
                           /\ f.torn => ~connected
                           /\ call # 0 /\ f.of = call => answer # "none" /\ types # "cut"
  /\ place \in {"new", "send", "handshake", "info", "types"} => types = "none" /\ table = "none"
  /\ place = "symbols" => table = "none"

Inv == TypeOK /\ InOrder /\ SuccessIsReal /\ CutTypesMeetNoSymbol

\* Connect returns, unless it waits for a router that does not answer, for the
\* lock that the handler of a late answer holds, or has panicked.
ConnectReturns ==
  place \notin {"open", "failed"} ~>
     place \in {"open", "failed"} \/ ~running \/ orphan \/ [](place = "handshake" /\ ~shutdown)

\* After a shutdown listen ends with the link, unless it is offering a system
\* frame that nobody takes: for that it does not look at the context.
Deaf == listener = "offer" /\ place \notin {"send", "handshake"}
ListenerEndsUnlessDeaf ==
  shutdown /\ ~connected /\ listener # "none" ~> listener = "exit" \/ Deaf \/ ~running
=============================================================================
