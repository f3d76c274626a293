----------------------------- MODULE MCSidecar ------------------------------
(***************************************************************************)
(* The sidecar's service, each part explored by itself: the trace flusher, *)
(* the sessions, the telemetry of a runtime, the fetchers of agent         *)
(* information, and a client's blocking connection, without read timeouts, *)
(* with them, and with an executor that spawns a task for every request.   *)
(***************************************************************************)
EXTENDS TraceFlusher

CONSTANTS
  p1, p2, p3,
  Conns, Sessions, Ops, MaxRequests, MaxObjects,            \* of SidecarSessions
  Queues, Services, MaxItems, MaxRegisters, StoreLen,       \* of TelemetryApps
  Endpoints, Guards, Tasks,                                 \* of AgentInfo
  MaxCalls, QueueLen, RespBuf                               \* of BlockingClient

VARIABLES
  part,
  conn, sent, early, inbox, work, running, uncounted, seen, stop, panicked,
  counter, session, objects, configured, stops, lates, lateMade,
  items, applications, stopped, apps, reg, waiting, log, spawned, dropped, gone,
          announced, metric, lost, overtaken,
  entry, guard, task, poisoned,
  up, down, upClosed, server, link, torn, late, lateAtServer,
  tracked, guards, aborted, queue, handler, discards, responses,
  made, awaited, answered, exited

sessionVars == <<conn, sent, early, inbox, work, running, uncounted, seen, stop, panicked,
                 counter, session, objects, configured, stops, lates, lateMade>>
appVars == <<items, applications, stopped, apps, reg, waiting, log, spawned, dropped, gone,
             announced, metric, lost, overtaken>>
infoVars == <<entry, guard, task, poisoned>>
callVars == <<up, down, upClosed, server, link, torn, late, lateAtServer,
              tracked, guards, aborted, queue, handler, discards, responses,
              made, awaited, answered, exited>>
allVars == <<vars, sessionVars, appVars, infoVars, callVars, part>>

MCSize == [p \in Payload |-> IF p = p3 THEN 2 ELSE 1]

Sidecar == INSTANCE SidecarSessions
Telemetry == INSTANCE TelemetryApps
Info == INSTANCE AgentInfo
Client == INSTANCE BlockingClient WITH
            waiting <- awaited, ReadTimeout <- FALSE, Sequential <- TRUE
TimedClient == INSTANCE BlockingClient WITH
            waiting <- awaited, ReadTimeout <- TRUE, Sequential <- TRUE
SpawningServer == INSTANCE BlockingClient WITH
            waiting <- awaited, ReadTimeout <- FALSE, Sequential <- FALSE

ASSUME Sidecar!SessionsAssumption

MCInit ==
  /\ part \in {"flusher", "sessions", "telemetry", "info", "client", "timed", "spawning"}
  /\ Init /\ Sidecar!Init /\ Telemetry!Init /\ Info!Init /\ Client!Init

MCNext ==
  \/ /\ part = "flusher" /\ Next
     /\ UNCHANGED <<sessionVars, appVars, infoVars, callVars, part>>
  \/ /\ part = "sessions" /\ Sidecar!Next
     /\ UNCHANGED <<vars, appVars, infoVars, callVars, part>>
  \/ /\ part = "telemetry" /\ Telemetry!Next
     /\ UNCHANGED <<vars, sessionVars, infoVars, callVars, part>>
  \/ /\ part = "info" /\ Info!Next
     /\ UNCHANGED <<vars, sessionVars, appVars, callVars, part>>
  \/ /\ \/ part = "client" /\ Client!Next
        \/ part = "timed" /\ TimedClient!Next
        \/ part = "spawning" /\ SpawningServer!Next
     /\ UNCHANGED <<vars, sessionVars, appVars, infoVars, part>>

MCSpec == MCInit /\ [][MCNext]_allVars

-----------------------------------------------------------------------------

(* Types; the buffer is bounded (BufferBounded) and flushed when it is     *)
(* over a limit (OverLimitFlushed); a flush request that reached the task  *)
(* covers what the buffer held (FlushCovers); and what join found is sent  *)
(* when it returns, or in the hands of a task started later (JoinSent).    *)
FlusherSound ==
  part = "flusher" => TypeOK /\ BufferBounded /\ OverLimitFlushed /\ FlushCovers /\ JoinSent

(* Types; a session's counter is the number of open connections that       *)
(* counted it (CounterExact); and it stays no longer than its users, those *)
(* made by late tasks and handlers apart (SessionHasOwner).                *)
SessionsSound ==
  part = "sessions" => Sidecar!SessionsTypeOK /\ Sidecar!CounterExact /\ Sidecar!SessionHasOwner

(* The worker of a service gets what was held back before what is enqueued *)
(* after the registration.                                                 *)
HeldGoFirst == part = "telemetry" => Telemetry!HeldGoFirst

(* Types; no enqueued telemetry item disappears, as long as no point runs  *)
(* ahead of its metric's registration (ItemsKept); and a runtime has one   *)
(* telemetry worker per service (OneWorker).                               *)
TelemetrySound ==
  part = "telemetry" => Telemetry!AppsTypeOK /\ Telemetry!ItemsKept /\ Telemetry!OneWorker

(* Types; an endpoint has one fetcher of its agent information             *)
(* (OneFetcher), and one that serves it if the map has it (EntryServed).   *)
AgentInfoSound ==
  part = "info" => Info!AgentInfoTypeOK /\ Info!OneFetcher /\ Info!EntryServed

(* A blocking client's requests are handled in the order sent; what their  *)
(* handlers leave to tasks of their own has no such order.                 *)
EffectsInOrder == part \in {"client", "timed"} => Client!EffectsInOrder

(* Types; and a blocking call returns the response to its own request      *)
(* only, though an earlier one timed out.                                  *)
OwnResponse ==
  part \in {"client", "timed", "spawning"} => Client!TypeOK /\ Client!OwnResponse

(* What a blocking client sent before it exited is carried out.            *)
SendsCarriedOut == part = "client" => Client!SendsCarriedOut

=============================================================================
