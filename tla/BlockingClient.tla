--------------------------- MODULE BlockingClient ---------------------------
(***************************************************************************)
(* The blocking client end of a connection, BlockingTransport, as the      *)
(* sidecar's clients use it through SidecarTransport: one thread at a time *)
(* holds the lock and either sends a request whose response the server     *)
(* discards, or calls and reads until the response with its id arrives.    *)
(* A read timeout, if one is set, ends a call early.  The client knows no  *)
(* deadline and never cancels.                                             *)
(***************************************************************************)
EXTENDS RpcServer

CONSTANT ReadTimeout    \* TRUE: set_read_timeout was given one

VARIABLES
  made,      \* requests_id
  waiting,   \* id of the call being waited for, or NoCall
  answered,  \* calls that returned their response
  exited     \* the client process is gone

NoCall == MaxCalls

callerVars == <<made, waiting, answered, exited>>
vars == <<wireVars, serverVars, callerVars>>

TypeOK ==
  /\ WireTypeOK /\ ServerTypeOK
  /\ made \in 0 .. MaxCalls /\ waiting \in 0 .. NoCall
  /\ answered \subseteq Ids /\ exited \in BOOLEAN

Init ==
  /\ WireInit /\ ServerInit
  /\ made = 0 /\ waiting = NoCall /\ answered = {} /\ exited = FALSE

Idle == waiting = NoCall /\ ~exited

(* new_client_message and do_send; writing to an ended server fails.       *)
Write(discard) ==
  /\ Idle /\ made < MaxCalls /\ server = "running"
  /\ up' = Append(up, Request(made, discard))
  /\ made' = made + 1
  /\ UNCHANGED serverVars
  /\ UNCHANGED <<answered, exited, down, upClosed, server, link, torn, late, lateAtServer>>

SendOnly == Write(TRUE) /\ UNCHANGED waiting

CallAndWait == Write(FALSE) /\ waiting' = made

ReadAny ==
  /\ waiting # NoCall /\ ~exited
  /\ down # <<>> /\ down' = Tail(down)
  /\ answered' = answered \cup {waiting}
  /\ waiting' = NoCall
  /\ UNCHANGED serverVars
  /\ UNCHANGED <<made, exited, up, upClosed, server, link, torn, late, lateAtServer>>

(* The call's loop over responses: one with another id is skipped.  At the *)
(* end of the stream read_item reads nothing again and again; an error     *)
(* ends the call, which is what a server leaves that had requests unread.  *)
ReadResponse ==
  /\ waiting # NoCall /\ ~exited
  /\ \/ /\ down # <<>> /\ down' = Tail(down)
        /\ answered' = IF Head(down) = waiting THEN answered \cup {waiting} ELSE answered
        /\ waiting' = IF Head(down) = waiting THEN NoCall ELSE waiting
     \/ /\ down = <<>> /\ server = "ended" /\ up # <<>>
        /\ waiting' = NoCall
        /\ UNCHANGED <<down, answered>>
  /\ UNCHANGED serverVars
  /\ UNCHANGED <<made, exited, up, upClosed, server, link, torn, late, lateAtServer>>

TimeOut ==
  /\ ReadTimeout /\ waiting # NoCall /\ ~exited
  /\ waiting' = NoCall
  /\ UNCHANGED serverVars
  /\ UNCHANGED <<made, answered, exited>> /\ UNCHANGED wireVars

(* The process exits, or drops the transport: the server can still read    *)
(* what was sent, and no longer respond.  A response left unread resets    *)
(* the connection, and a process killed inside do_send leaves part of a    *)
(* frame.                                                                  *)
Exit ==
  /\ ~exited
  /\ \E inSend \in BOOLEAN :
       /\ inSend => Idle /\ made < MaxCalls
       /\ torn' = (inSend \/ down # <<>>)
  /\ exited' = TRUE /\ upClosed' = TRUE /\ link' = FALSE
  /\ UNCHANGED serverVars
  /\ UNCHANGED <<made, waiting, answered, up, down, server, late, lateAtServer>>

(* Context::current() gives every request ten seconds, which the client    *)
(* does not watch.                                                         *)
Deadline(i) ==
  /\ i < made /\ i \notin late
  /\ late' = late \cup {i}
  /\ UNCHANGED <<callerVars, serverVars>>
  /\ UNCHANGED <<up, down, upClosed, server, link, torn, lateAtServer>>

Done == server = "ended" /\ exited /\ Running = {} /\ queue = <<>> /\ UNCHANGED vars

Next ==
  \/ SendOnly \/ CallAndWait \/ ReadResponse \/ TimeOut \/ Exit
  \/ \E i \in Ids :
       \/ Deadline(i)
       \/ i \in tracked /\ ServerDeadline(i) /\ UNCHANGED <<callerVars, serverVars>>
  \/ ServerNext /\ UNCHANGED callerVars
  \/ Done

Spec == Init /\ [][Next]_vars

-----------------------------------------------------------------------------

Begun(i) == handler[i] \in {"running", "replying", "done", "panicked"}

(* The requests of a connection are handled in the order in which the      *)
(* client sent them: none begins before an earlier one is over, whatever   *)
(* expires or is dropped in between.  It is about the handlers themselves, *)
(* not about the tasks that some of them spawn.                            *)
EffectsInOrder ==
  Sequential =>
    \A i, j \in Ids :
      i < j /\ Begun(j) => handler[i] \in {"done", "stopped", "dropped", "panicked"}

(* A call returns only the response to its own request, never one left     *)
(* over from an earlier call that timed out.                               *)
OwnResponse == \A i \in answered : handler[i] = "done" /\ i \notin ToSet(down)

(* What the client sent without waiting is carried out although the client *)
(* exits right after: a handler that the queue had room for is stopped     *)
(* only by its deadline, or because what the client wrote ends in an error *)
(* (it was killed inside a send, or left a response unread), never by the  *)
(* mere end of the connection.  With the sequential executor and without   *)
(* read timeouts only: a response that cannot be written ends the executor *)
(* and aborts every handler left, and there is none left only if the call  *)
(* was the last request and the ones before it are over.  A request queued *)
(* behind a handler that panics is dropped (HandlerPanics), as is one that *)
(* finds the queue full.                                                   *)
SendsCarriedOut ==
  Sequential /\ ~ReadTimeout =>
    \A i \in discards : handler[i] = "stopped" => i \in lateAtServer \/ torn

=============================================================================
