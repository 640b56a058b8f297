--------------------------- MODULE RequestService ---------------------------
(***************************************************************************)
(* What the ADS client promises to a caller about one request, whatever    *)
(* goroutines, locks and channels it is made of.  The device executes a    *)
(* request at most once.  A call returns at most once, and the way it      *)
(* returns says something about the device:                                *)
(*   "answer"  the device executed the request before the call returned,   *)
(*             if only to refuse it with an error code of its own;         *)
(*   "error"   nothing is known: the device may have executed it, may      *)
(*             execute it later, or may never see it;                      *)
(*   "empty"   the device has not executed the request and never will: it  *)
(*             was not sent, or a router answered in the device's stead.   *)
(***************************************************************************)
CONSTANT InvokeIds      \* the requests a connection makes

VARIABLES outcome,      \* how each request stands
          executed      \* the requests the device has executed

svars == <<outcome, executed>>

Outcomes == {"none", "open", "answer", "error", "empty"}

ServiceTypeOK == /\ outcome \in [InvokeIds -> Outcomes]
                 /\ executed \in SUBSET InvokeIds

ServiceInit == /\ outcome = [i \in InvokeIds |-> "none"]
               /\ executed = {}

Begin(i) == /\ outcome[i] = "none"
            /\ outcome' = [outcome EXCEPT ![i] = "open"]
            /\ UNCHANGED executed

\* The device executes requests nobody has given up on before sending them.
Execute(S) == /\ \A i \in S : outcome[i] \in {"open", "error"} /\ i \notin executed
              /\ executed' = executed \cup S
              /\ UNCHANGED outcome

Return(i, how) == /\ outcome[i] = "open"
                  /\ how = "answer" => i \in executed
                  /\ how = "empty"  => i \notin executed
                  /\ outcome' = [outcome EXCEPT ![i] = how]
                  /\ UNCHANGED executed

ServiceNext == \/ \E i \in InvokeIds : Begin(i)
               \/ \E S \in SUBSET InvokeIds : Execute(S)
               \/ \E i \in InvokeIds, how \in {"answer", "error", "empty"} : Return(i, how)

ServiceSpec == ServiceInit /\ [][ServiceNext]_svars
=============================================================================
