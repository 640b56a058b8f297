------------------------------ MODULE Commands ------------------------------
(***************************************************************************)
(* What each command of the client makes of the response to its request    *)
(* (command*.go).  A response is                                           *)
(*   "error"    sendRequest gave up waiting;                               *)
(*   "empty"    no bytes: sendRequest gave up before sending, or a router  *)
(*              answered for the device, its error code in the AMS header  *)
(*              that nobody reads;                                         *)
(*   "refused"  the device's error code;                                   *)
(*   "ok"       the device did it;                                         *)
(*   "torn"     a response whose end is zeros, since the stream ended.     *)
(***************************************************************************)
Kinds     == {"Read", "Write", "WriteRead", "Add", "Delete", "ReadState", "ReadDeviceInfo"}
Responses == {"error", "empty", "refused", "ok", "torn"}

\* Commands that insist on the bytes they decode ...
NeedsBytes == {"Read", "Add", "ReadDeviceInfo"}
\* ... and commands that look at the error code the device sent.  That of
\* ReadDeviceInfo is decoded into a copy, which stays zero.
LooksAtError == Kinds \ {"ReadState", "ReadDeviceInfo"}

\* Faulty: does not notice that there is nothing to decode.
FailsByCode(kind, response) ==
  response = "error" \/ (response = "refused" /\ kind \in LooksAtError)

Fails(kind, response) ==
  \/ response = "error"
  \/ response = "empty" /\ kind \in NeedsBytes
  \/ response = "refused" /\ kind \in LooksAtError

\* Of a torn response the zeros may be the error code, or the data.
\* ReadDeviceInfo insists on a length, and takes a refusal that has it.
Results(kind, response) ==
  IF response = "torn" \/ (response = "refused" /\ kind = "ReadDeviceInfo")
    THEN {"success", "failure"}
    ELSE {IF Fails(kind, response) THEN "failure" ELSE "success"}
=============================================================================
