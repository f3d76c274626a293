----------------------------- MODULE RpcServer -----------------------------
(***************************************************************************)
(* The server end of a connection: BaseChannel with its map of in-flight   *)
(* requests, the Requests stream that reads requests and writes responses, *)
(* and the executor that runs the handlers: one worker with a bounded      *)
(* queue (execute_sequential) or one task per request                      *)
(* (TokioChannelExecutor).  The executor's future is polled by one task;   *)
(* handlers run in others and reach it through the response and            *)
(* cancellation channels.                                                  *)
(***************************************************************************)
EXTENDS RpcWire

CONSTANTS Sequential,   \* TRUE: execute_sequential
          QueueLen,     \* its max_requests
          RespBuf       \* pending_response_buffer

VARIABLES
  tracked,    \* in_flight_requests.request_data
  guards,     \* canceled_requests: ids sent by dropped ResponseGuards
  aborted,    \* requests whose abort handle was fired
  queue,      \* requests handed to the executor, not yet started
  handler,    \* handler[i]: where the execute future of request i is
  discards,   \* requests received whose client wants no response
  responses   \* pending_responses

serverVars == <<tracked, guards, aborted, queue, handler, discards, responses>>

HandlerState ==
  {"none", "queued", "dropped", "running", "replying", "done", "stopped", "panicked"}

ServerTypeOK ==
  /\ tracked \subseteq Ids /\ aborted \subseteq Ids /\ discards \subseteq Ids
  /\ guards \in Seq(Ids) /\ queue \in Seq(Ids)
  /\ responses \in Seq(Ids) /\ Len(responses) <= RespBuf
  /\ handler \in [Ids -> HandlerState]

ServerInit ==
  /\ tracked = {} /\ guards = <<>> /\ aborted = {} /\ queue = <<>>
  /\ handler = [i \in Ids |-> "none"] /\ discards = {} /\ responses = <<>>

Running == {i \in Ids : handler[i] \in {"running", "replying"}}

Becomes(i, state) == handler' = [handler EXCEPT ![i] = state]

DropSilently(i) == Becomes(i, "dropped") /\ UNCHANGED <<guards, queue>>

(* The drop of a request's ResponseGuard asks the channel to forget it.    *)
DropRequest(i) ==
  /\ guards' = Append(guards, i)
  /\ Becomes(i, "dropped")
  /\ UNCHANGED queue

(* The one worker's task is gone once a handler has panicked in it.        *)
WorkerDead == \E i \in Ids : handler[i] = "panicked"

(* The executor hands the request to its worker; a full queue drops it,    *)
(* and so does one that nobody reads any more.                             *)
Execute(i) ==
  IF Sequential /\ (Len(queue) >= QueueLen \/ WorkerDead)
    THEN DropRequest(i)
    ELSE queue' = Append(queue, i) /\ Becomes(i, "queued") /\ UNCHANGED guards

(* A request arrives; one whose id is already in flight is ignored.        *)
StartRequest ==
  /\ server = "running" /\ up # <<>> /\ Head(up).kind = "Request"
  /\ LET i == Head(up).id IN
       IF i \in tracked THEN UNCHANGED serverVars
       ELSE /\ tracked' = tracked \cup {i}
            /\ discards' = IF Head(up).discard THEN discards \cup {i} ELSE discards
            /\ Execute(i)
            /\ UNCHANGED <<aborted, responses>>
  /\ up' = Tail(up)
  /\ UNCHANGED <<down, upClosed, server, link, torn, late, lateAtServer>>

(* A cancellation arrives: it aborts the handler if it is still tracked.   *)
CancelRequest ==
  /\ server = "running" /\ up # <<>> /\ Head(up).kind = "Cancel"
  /\ aborted' = aborted \cup ({Head(up).id} \cap tracked)
  /\ tracked' = tracked \ {Head(up).id}
  /\ up' = Tail(up)
  /\ UNCHANGED <<guards, queue, handler, discards, responses>>
  /\ UNCHANGED <<down, upClosed, server, link, torn, late, lateAtServer>>

(* The channel drains the ids its dropped guards sent.                     *)
ForgetRequest ==
  /\ server = "running" /\ guards # <<>>
  /\ tracked' = tracked \ {Head(guards)}
  /\ guards' = Tail(guards)
  /\ UNCHANGED <<aborted, queue, handler, discards, responses>>
  /\ UNCHANGED wireVars

OverdueNever == {}

(* The tracked requests whose deadline has passed here.                    *)
Overdue == tracked \cap lateAtServer

(* A tracked request reaches its deadline: its handler is aborted and the  *)
(* client is sent nothing.                                                 *)
ExpireAtServer(i) ==
  /\ server = "running" /\ i \in Overdue
  /\ tracked' = tracked \ {i}
  /\ aborted' = aborted \cup {i}
  /\ UNCHANGED <<guards, queue, handler, discards, responses>>
  /\ UNCHANGED wireVars

CanStartAny(i) == i \in ToSet(queue)

CanStart(i) ==
  IF Sequential THEN queue # <<>> /\ i = Head(queue) /\ Running = {}
                ELSE i \in ToSet(queue)

(* The worker takes the next request, or a spawned task runs.  Abortable   *)
(* looks at its handle before it polls the handler for the first time.     *)
StartHandler(i) ==
  /\ CanStart(i)
  /\ queue' = Remove(queue, i)
  /\ Becomes(i, IF i \in aborted THEN "stopped" ELSE "running")
  /\ UNCHANGED <<tracked, guards, aborted, discards, responses>>
  /\ UNCHANGED wireVars

(* The service function completes.  An abort fired while the handler is    *)
(* being polled does not stop that poll.                                   *)
Serve(i) ==
  /\ handler[i] = "running"
  /\ Becomes(i, "replying")
  /\ UNCHANGED <<tracked, guards, aborted, queue, discards, responses>>
  /\ UNCHANGED wireVars

(* The service function panics: the request's guard is dropped with its    *)
(* task, and with the one worker the queue and the guards in it.           *)
HandlerPanics(i) ==
  /\ handler[i] = "running"
  /\ LET lost == IF Sequential THEN queue ELSE <<>> IN
       /\ queue' = IF Sequential THEN <<>> ELSE queue
       /\ guards' = IF server = "running" THEN guards \o <<i>> \o lost ELSE guards
       /\ handler' = [j \in Ids |-> IF j = i THEN "panicked"
                                    ELSE IF j \in ToSet(lost) THEN "dropped" ELSE handler[j]]
  /\ UNCHANGED <<tracked, aborted, discards, responses>>
  /\ UNCHANGED wireVars

(* The response goes into the bounded channel to the executor, which is    *)
(* gone when the executor has ended.                                       *)
BufferResponse(i) ==
  /\ handler[i] = "replying"
  /\ server = "running" => Len(responses) < RespBuf
  /\ Becomes(i, "done")
  /\ responses' = IF server = "running" THEN Append(responses, i) ELSE responses
  /\ UNCHANGED <<tracked, guards, aborted, queue, discards>>
  /\ UNCHANGED wireVars

(* An aborted handler is dropped at an await.                              *)
StopHandler(i) ==
  /\ i \in aborted \cap Running
  /\ Becomes(i, "stopped")
  /\ UNCHANGED <<tracked, guards, aborted, queue, discards, responses>>
  /\ UNCHANGED wireVars

(* BaseChannel::start_send: a response is written if its request is still  *)
(* tracked and its client wants it.                                        *)
Answered(i) == i \in tracked \ discards

StillTracked(i) == tracked

(* remove_request forgets a request that is answered.                      *)
Untracked(i) == tracked \ {i}

(* Requests::pump_write handles the next response.                         *)
SendResponse ==
  /\ server = "running" /\ responses # <<>>
  /\ LET i == Head(responses) IN
       /\ Answered(i) => link
       /\ down' = IF Answered(i) THEN Append(down, i) ELSE down
       /\ tracked' = Untracked(i)
  /\ responses' = Tail(responses)
  /\ UNCHANGED <<guards, aborted, queue, handler, discards>>
  /\ UNCHANGED <<up, upClosed, server, link, torn, late, lateAtServer>>

(* Dropping the executor drops the map of in-flight requests, which aborts *)
(* every handler it tracks.                                                *)
DropExecutor ==
  /\ server' = "ended"
  /\ aborted' = aborted \cup tracked
  /\ tracked' = {} /\ guards' = <<>> /\ responses' = <<>>
  /\ UNCHANGED <<queue, handler, discards>>
  /\ UNCHANGED <<up, down, upClosed, link, torn, late, lateAtServer>>

NothingLeftToRead == up = <<>> /\ responses = <<>>

(* Nothing is left to read, to run or to write.                            *)
NothingLeft == up = <<>> /\ tracked = {} /\ responses = <<>>

(* The stream of requests ends once the client has closed its half.        *)
EndOfRequests ==
  /\ server = "running" /\ (upClosed \/ ~link)
  /\ NothingLeft
  /\ DropExecutor

(* Writing a response to a dead peer ends the executor with an error.      *)
WriteFails ==
  /\ server = "running" /\ ~link
  /\ responses # <<>> /\ Answered(Head(responses))
  /\ DropExecutor

(* The stream of requests ends in an error, behind the last whole message. *)
ReadFails ==
  /\ server = "running" /\ torn /\ up = <<>>
  /\ DropExecutor

ServerNext ==
  \/ StartRequest \/ CancelRequest \/ ForgetRequest \/ SendResponse
  \/ EndOfRequests \/ WriteFails \/ ReadFails
  \/ \E i \in Ids :
       \/ ExpireAtServer(i) \/ StartHandler(i) \/ Serve(i)
       \/ HandlerPanics(i) \/ BufferResponse(i) \/ StopHandler(i)

-----------------------------------------------------------------------------

(* No tracked request is an orphan: as long as the channel counts it       *)
(* in flight, it is in the executor's queue, its handler runs, or a        *)
(* message is on its way that makes the channel forget it, also when the   *)
(* full queue dropped it, its client discards the response, or a handler   *)
(* panicked and took the queue with it.  An orphan would keep the          *)
(* connection open until its deadline.                                     *)
TrackedHasOwner ==
  \A i \in tracked :
    \/ handler[i] \in {"queued", "running", "replying"}
    \/ i \in ToSet(responses) \cup ToSet(guards)

(* A request is answered at most once, and only after its service function *)
(* has completed.                                                          *)
AnsweredOnce ==
  /\ IsInjective(down)
  /\ \A i \in ToSet(down) : handler[i] = "done" /\ i \notin tracked

=============================================================================
