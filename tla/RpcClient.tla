----------------------------- MODULE RpcClient -----------------------------
(***************************************************************************)
(* The asynchronous client end of a connection: the futures of             *)
(* Channel::call with their ResponseGuards, and the RequestDispatch task   *)
(* that writes requests and cancellations and completes the calls.  The    *)
(* task polls its sources one after the other while calls are made and     *)
(* dropped on other threads, so that a cancellation may be read before the *)
(* request it is about although requests are polled first.                 *)
(***************************************************************************)
EXTENDS RpcWire

CONSTANTS MaxInFlight,  \* max_in_flight_requests
          PendingBuf    \* pending_request_buffer

VARIABLES
  made,       \* next_request_id
  call,       \* call[i]: where the future of call i is
  reply,      \* reply[i]: what the dispatch sent through the call's oneshot
  pending,    \* pending_requests
  canceled,   \* canceled_requests
  inFlight,   \* in_flight_requests.request_data
  open,       \* some Channel handle exists
  dispatch    \* the dispatch future: "running" or "ended"

clientVars == <<made, call, reply, pending, canceled, inFlight, open, dispatch>>

CallState == {"none", "sending", "waiting", "closed", "dropped", "ok", "late", "disconnected"}

ClientTypeOK ==
  /\ made \in 0 .. MaxCalls /\ call \in [Ids -> CallState]
  /\ reply \in [Ids -> {"none", "ok", "late"}]
  /\ pending \in Seq(Ids) /\ Len(pending) <= PendingBuf /\ canceled \in Seq(Ids)
  /\ inFlight \subseteq Ids /\ Cardinality(inFlight) <= MaxInFlight
  /\ open \in BOOLEAN /\ dispatch \in {"running", "ended"}

ClientInit ==
  /\ made = 0 /\ call = [i \in Ids |-> "none"] /\ reply = [i \in Ids |-> "none"]
  /\ pending = <<>> /\ canceled = <<>> /\ inFlight = {} /\ open = TRUE
  /\ dispatch = "running"

Live(i) == call[i] \in {"sending", "waiting"}

(* A call takes the next id and creates its guard.                         *)
Call ==
  /\ open /\ made < MaxCalls
  /\ made' = made + 1
  /\ call' = [call EXCEPT ![made] = "sending"]
  /\ UNCHANGED <<reply, pending, canceled, inFlight, open, dispatch>>
  /\ UNCHANGED wireVars

(* The request enters the bounded channel to the dispatch task, or finds   *)
(* that the task has ended.                                                *)
SendToDispatch(i) ==
  /\ call[i] = "sending"
  /\ \/ /\ dispatch = "running" /\ Len(pending) < PendingBuf
        /\ pending' = Append(pending, i)
        /\ call' = [call EXCEPT ![i] = "waiting"]
     \/ /\ dispatch = "ended"
        /\ call' = [call EXCEPT ![i] = "disconnected"]
        /\ UNCHANGED pending
  /\ UNCHANGED <<made, reply, canceled, inFlight, open, dispatch>>
  /\ UNCHANGED wireVars

(* The call sees its oneshot completed, or its sender dropped.             *)
Return(i) ==
  /\ call[i] = "waiting"
  /\ \/ reply[i] # "none" /\ call' = [call EXCEPT ![i] = reply[i]]
     \/ /\ reply[i] = "none" /\ dispatch = "ended"
        /\ call' = [call EXCEPT ![i] = "disconnected"]
  /\ UNCHANGED <<made, reply, pending, canceled, inFlight, open, dispatch>>
  /\ UNCHANGED wireVars

Cancels(i) == canceled' = IF dispatch = "running" THEN Append(canceled, i) ELSE canceled

(* The future of a call is dropped: its guard first closes the oneshot ... *)
DropCloses(i) ==
  /\ Live(i)
  /\ call' = [call EXCEPT ![i] = "closed"]
  /\ UNCHANGED <<made, reply, pending, canceled, inFlight, open, dispatch>>
  /\ UNCHANGED wireVars

(* ... and then sends the cancellation.                                    *)
DropCancels(i) ==
  /\ call[i] = "closed"
  /\ call' = [call EXCEPT ![i] = "dropped"]
  /\ Cancels(i)
  /\ UNCHANGED <<made, reply, pending, inFlight, open, dispatch>>
  /\ UNCHANGED wireVars

(* The last Channel handle is dropped; the futures of calls borrow it.     *)
DropChannel ==
  /\ open /\ \A i \in Ids : ~Live(i) /\ call[i] # "closed"
  /\ open' = FALSE
  /\ UNCHANGED <<made, call, reply, pending, canceled, inFlight, dispatch>>
  /\ UNCHANGED wireVars

CompletedKept(i) == inFlight

(* complete_request takes a request out of flight.                         *)
Completed(i) == inFlight \ {i}

(* pump_read: a response completes its call if it is still in flight.      *)
ReadResponse ==
  /\ dispatch = "running" /\ down # <<>>
  /\ inFlight' = Completed(Head(down))
  /\ reply' = IF Head(down) \in inFlight THEN [reply EXCEPT ![Head(down)] = "ok"] ELSE reply
  /\ down' = Tail(down)
  /\ UNCHANGED <<made, call, pending, canceled, open, dispatch>>
  /\ UNCHANGED <<up, upClosed, server, link, torn, late, lateAtServer>>

AbandonedNever(i) == FALSE

(* response_completion.is_closed() of a request about to be written.       *)
Abandoned(i) == call[i] \in {"closed", "dropped"}

RoomAlways == TRUE

(* poll_next_request takes none while in_flight_requests is full.          *)
HasRoom == Cardinality(inFlight) < MaxInFlight

(* poll_write_request: the next request goes out and in flight unless its  *)
(* call is gone.                                                           *)
WriteRequest ==
  /\ dispatch = "running" /\ link /\ pending # <<>>
  /\ HasRoom
  /\ IF Abandoned(Head(pending))
       THEN UNCHANGED <<up, inFlight>>
       ELSE /\ up' = Append(up, Request(Head(pending), FALSE))
            /\ inFlight' = inFlight \cup {Head(pending)}
  /\ pending' = Tail(pending)
  /\ UNCHANGED <<made, call, reply, canceled, open, dispatch>>
  /\ UNCHANGED <<down, upClosed, server, link, torn, late, lateAtServer>>

(* poll_write_cancel: a cancellation goes out if its request is in flight. *)
WriteCancel ==
  /\ dispatch = "running" /\ link /\ canceled # <<>>
  /\ up' = IF Head(canceled) \in inFlight THEN Append(up, Cancel(Head(canceled))) ELSE up
  /\ inFlight' = inFlight \ {Head(canceled)}
  /\ canceled' = Tail(canceled)
  /\ UNCHANGED <<made, call, reply, pending, open, dispatch>>
  /\ UNCHANGED <<down, upClosed, server, link, torn, late, lateAtServer>>

ExpiredNever == {}

(* The requests in flight whose deadline has passed.                       *)
Expired == inFlight \cap late

(* poll_expired: the call is completed with DeadlineExceeded, and the      *)
(* server is told nothing.                                                 *)
ExpireCall(i) ==
  /\ dispatch = "running" /\ i \in Expired
  /\ inFlight' = inFlight \ {i}
  /\ reply' = [reply EXCEPT ![i] = "late"]
  /\ UNCHANGED <<made, call, pending, canceled, open, dispatch>>
  /\ UNCHANGED wireVars

(* The end of the dispatch future drops the transport and the receivers.   *)
EndDispatch ==
  /\ dispatch' = "ended" /\ upClosed' = TRUE
  /\ pending' = <<>> /\ canceled' = <<>> /\ inFlight' = {}
  /\ UNCHANGED <<made, call, reply, open>>
  /\ UNCHANGED <<up, down, server, link, torn, late, lateAtServer>>

(* No handle is left and everything was written: the write half is closed, *)
(* and with nothing in flight the task ends.                               *)
FinishDispatch ==
  /\ dispatch = "running" /\ ~open /\ pending = <<>> /\ canceled = <<>>
  /\ inFlight = {}
  /\ EndDispatch

(* The read half ends, or a write fails.                                   *)
LoseServer ==
  /\ dispatch = "running"
  /\ \/ ~link
     \/ server = "ended" /\ down = <<>>
  /\ EndDispatch

Deadline(i) ==
  /\ i < made /\ i \notin late
  /\ late' = late \cup {i}
  /\ UNCHANGED clientVars
  /\ UNCHANGED <<up, down, upClosed, server, link, torn, lateAtServer>>

ClientNext ==
  \/ Call \/ DropChannel \/ ReadResponse \/ WriteRequest \/ WriteCancel
  \/ FinishDispatch \/ LoseServer
  \/ \E i \in Ids :
       \/ SendToDispatch(i) \/ Return(i) \/ DropCloses(i) \/ DropCancels(i)
       \/ ExpireCall(i) \/ Deadline(i)

-----------------------------------------------------------------------------

(* A dropped call leaves nothing behind: once its guard has run, it is in  *)
(* flight only while its cancellation waits to be read, and so its slot is *)
(* given back even if the server never answers.                            *)
DroppedIsCancelled ==
  \A i \in inFlight : call[i] = "dropped" => i \in ToSet(canceled)

=============================================================================
