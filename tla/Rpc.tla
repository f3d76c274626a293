-------------------------------- MODULE Rpc --------------------------------
(***************************************************************************)
(* The asynchronous client and the server on one connection.               *)
(***************************************************************************)
EXTENDS RpcClient, RpcServer

vars == <<wireVars, clientVars, serverVars>>

TypeOK == WireTypeOK /\ ClientTypeOK /\ ServerTypeOK

Init == WireInit /\ ClientInit /\ ServerInit

Done ==
  /\ server = "ended" /\ dispatch = "ended" /\ Running = {} /\ queue = <<>>
  /\ UNCHANGED vars

Next ==
  \/ ClientNext /\ UNCHANGED serverVars
  \/ ServerNext /\ UNCHANGED clientVars
  \/ Break /\ UNCHANGED <<clientVars, serverVars>>
  \/ \E i \in Ids : i \in tracked /\ ServerDeadline(i) /\ UNCHANGED <<clientVars, serverVars>>
  \/ Done

(* The tasks are polled when they can go on, deadlines come, and the       *)
(* worker reaches every request.  A service function need not complete:    *)
(* the deadline ends it.  A dead peer's stream need not end in an error.   *)
(* Where two steps of a call share a fairness condition, each of them      *)
(* happens once at most.                                                   *)
Fairness ==
  /\ WF_vars(ReadResponse /\ UNCHANGED serverVars)
  /\ WF_vars(WriteRequest /\ UNCHANGED serverVars)
  /\ WF_vars(WriteCancel /\ UNCHANGED serverVars)
  /\ WF_vars((FinishDispatch \/ LoseServer) /\ UNCHANGED serverVars)
  /\ WF_vars((StartRequest \/ CancelRequest) /\ UNCHANGED clientVars)
  /\ WF_vars(ForgetRequest /\ UNCHANGED clientVars)
  /\ WF_vars(SendResponse /\ UNCHANGED clientVars)
  /\ WF_vars((EndOfRequests \/ WriteFails) /\ UNCHANGED clientVars)
  /\ \A i \in Ids :
       /\ WF_vars((SendToDispatch(i) \/ Return(i)) /\ UNCHANGED serverVars)
       /\ WF_vars(DropCancels(i) /\ UNCHANGED serverVars)
       /\ WF_vars((Deadline(i) \/ ExpireCall(i)) /\ UNCHANGED serverVars)
       /\ WF_vars(i \in tracked /\ ServerDeadline(i) /\ UNCHANGED <<clientVars, serverVars>>)
       /\ WF_vars(ExpireAtServer(i) /\ UNCHANGED clientVars)
       /\ WF_vars((StartHandler(i) \/ BufferResponse(i)) /\ UNCHANGED clientVars)
       /\ WF_vars(StopHandler(i) /\ UNCHANGED clientVars)

Spec == Init /\ [][Next]_vars

FairSpec == Spec /\ Fairness

-----------------------------------------------------------------------------

(* A call that returns a response got it from a handler that ran to its    *)
(* end on the server, and the client's bookkeeping is over: the request is *)
(* neither in flight nor able to be answered again.                        *)
ResponseIsServed ==
  \A i \in Ids :
    call[i] = "ok" => handler[i] = "done" /\ i \notin inFlight \cup ToSet(down)

(* Every call ends, whatever is dropped by a full queue, expires on either *)
(* side or is lost with the connection: with a response, an expired        *)
(* deadline, a disconnection, or because its caller dropped it.            *)
CallsEnd == \A i \in Ids : Live(i) ~> ~Live(i)

(* Once the client has dropped its handles or the peer has died, both ends *)
(* terminate.                                                              *)
ConnectionEnds == (~open \/ ~link) ~> (dispatch = "ended" /\ server = "ended")

=============================================================================
