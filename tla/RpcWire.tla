------------------------------ MODULE RpcWire ------------------------------
(***************************************************************************)
(* One connection between an RPC client and an RPC server: an ordered,     *)
(* lossless pair of streams over a unix socket, closed in each direction   *)
(* by its writer, and cut for both when a peer dies.  The framing and the  *)
(* codec are left out: a message is its kind, its request id, and whether  *)
(* the client wants the response to be discarded.                          *)
(***************************************************************************)
EXTENDS Naturals, Sequences, FiniteSets, SequencesExt

CONSTANT MaxCalls               \* bound: requests made on this connection

Ids == 0 .. MaxCalls - 1

VARIABLES
  up,        \* client to server: requests and cancellations
  down,      \* server to client: ids of the requests responded to
  upClosed,  \* the client's write half is closed
  server,    \* the server's executor future: "running" or "ended"
  link,      \* FALSE once a peer has died
  torn,      \* what the client wrote may end in an error instead of an end of stream
  late,      \* requests whose deadline has passed on the client's clock
  lateAtServer  \* ... and on the server's, which restarts the remaining time

wireVars == <<up, down, upClosed, server, link, torn, late, lateAtServer>>

Message == [kind : {"Request", "Cancel"}, id : Ids, discard : BOOLEAN]

Request(i, d) == [kind |-> "Request", id |-> i, discard |-> d]
Cancel(i) == [kind |-> "Cancel", id |-> i, discard |-> FALSE]

WireTypeOK ==
  /\ up \in Seq(Message) /\ down \in Seq(Ids)
  /\ upClosed \in BOOLEAN /\ link \in BOOLEAN /\ torn \in BOOLEAN
  /\ server \in {"running", "ended"}
  /\ lateAtServer \subseteq late /\ late \subseteq Ids

WireInit ==
  /\ up = <<>> /\ down = <<>> /\ upClosed = FALSE /\ server = "running"
  /\ link = TRUE /\ torn = FALSE /\ late = {} /\ lateAtServer = {}

(* A peer dies: what is in the streams can still be read, nothing more can *)
(* be written.  Behind the last whole message the reader finds the end, or *)
(* an error: part of a frame, or a reset because messages were unread.     *)
Break ==
  /\ link
  /\ link' = FALSE /\ torn' = TRUE
  /\ UNCHANGED <<up, down, upClosed, server, late, lateAtServer>>

(* The context carries its deadline as the time that remains, so that the  *)
(* server's deadline is the client's plus the time the request travelled.  *)
(* Its timer runs while the server tracks the request.                     *)
ServerDeadline(i) ==
  /\ i \in late /\ i \notin lateAtServer
  /\ lateAtServer' = lateAtServer \cup {i}
  /\ UNCHANGED <<up, down, upClosed, server, link, torn, late>>

=============================================================================
