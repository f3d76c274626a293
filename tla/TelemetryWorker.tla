-------------------------- MODULE TelemetryWorker --------------------------
(***************************************************************************)
(* The telemetry worker: an event loop that takes actions from its mailbox *)
(* or from its deadlines and sends payloads                                *)
(* (ddtelemetry/src/worker/mod.rs, TelemetryWorker::run and                *)
(* dispatch_action, or with MetricsLogs run_metrics_logs and               *)
(* dispatch_metrics_logs_action), with its Scheduler                       *)
(* (worker/scheduler.rs) and two of its Stores (TelemetryStore):           *)
(* configurations, and dependencies, which stand for integrations too, as  *)
(* every handler treats both alike.                                        *)
(*                                                                         *)
(* The loop is one task. It handles one action at a time, the await of a   *)
(* request included, so an action of this module runs from one await to    *)
(* the next. Deadlines are kept relative to the present: a deadline of 0   *)
(* is due, a negative one overdue.                                         *)
(***************************************************************************)
EXTENDS Integers, Sequences, FiniteSets, SequencesExt

CONSTANTS Config, Dep, Log,  \* what the handle may add
          MaxItems,          \* capacity of a Store
          Lifecycle,         \* the lifecycle actions the handle may send
          EarlyHeartbeat,    \* TRUE: ExtendedHeartbeat may come before Start
          Restartable,       \* Config.restartable at the start
          MetricsLogs,       \* the worker that sends metrics and logs alone
          Threaded,          \* run or run_metrics_logs, not spawn_with_config
          MaxMsgs,           \* bound on the messages ever sent
          Capacity           \* of the mailbox

\* What TelemetryWorkerBuilder allows.
WorkerAssumption == /\ MaxItems \in Nat \ {0}
                    /\ {EarlyHeartbeat, Restartable, MetricsLogs, Threaded} \subseteq BOOLEAN
                    /\ MaxMsgs \in Nat /\ Capacity \in Nat

\* Scheduler.delays, in their order; the unit is one metrics interval.
Delay == [FlushMetricAggr |-> 1, FlushData |-> 2, ExtendedHeartbeat |-> 3]

VARIABLES
    mailbox, sent,        \* queued actions; how many were ever queued
    closed,               \* every handle is gone
    cancelled,            \* cancellation_token
    finished,             \* InnerTelemetryShutdown.is_shutdown
    pc,                   \* where the loop waits: "new", "recv", a request, or "ended"
    restartable, started, \* config.restartable, data.started
    deadlines,            \* Scheduler.deadlines: <<time left, action>>
    configItems, configPopped, configUnflushed,
    depItems, depPopped, depUnflushed,
    logs,                 \* data.logs: <<identifier, count>>, oldest first
    points, series,       \* metric_buckets: points aggregated, points to send
    inflight,             \* what the requests being awaited carry
    acked,                \* items some successful request carried
    logged, reported      \* occurrences of each log added / in successful requests

configs == <<configItems, configPopped, configUnflushed>>
deps == <<depItems, depPopped, depUnflushed>>
metrics == <<points, series>>
history == <<acked, logged, reported>>
vars == <<mailbox, sent, closed, cancelled, finished, pc, restartable, started, deadlines,
          configs, deps, logs, metrics, inflight, history>>

Configurations == INSTANCE TelemetryStore WITH
    Item <- Config, MaxInserts <- MaxMsgs,
    items <- configItems, popped <- configPopped, unflushed <- configUnflushed
Dependencies == INSTANCE TelemetryStore WITH
    Item <- Dep, MaxInserts <- MaxMsgs,
    items <- depItems, popped <- depPopped, unflushed <- depUnflushed

Nothing == [configs |-> <<>>, deps |-> <<>>, logs |-> <<>>, series |-> 0]

Init ==
    /\ mailbox = <<>> /\ sent = 0 /\ closed = FALSE /\ cancelled = FALSE /\ finished = FALSE
    /\ pc = "new" /\ restartable = Restartable /\ started = FALSE
    /\ deadlines = <<>>
    /\ Configurations!Init /\ Dependencies!Init
    /\ logs = <<>> /\ points = 0 /\ series = 0
    /\ inflight = Nothing
    /\ acked = {} /\ logged = [l \in Log |-> 0] /\ reported = [l \in Log |-> 0]

-----------------------------------------------------------------------------
(***************************************************************************)
(* Scheduler                                                               *)
(***************************************************************************)
Overdue == deadlines # <<>> /\ Head(deadlines)[1] < 0
Due == deadlines # <<>> /\ Head(deadlines)[1] = 0

\* schedule_event: the event's old deadline goes; the new one is inserted at
\* a place binary search finds, any place that keeps the order.
Schedulings(dl, ev) ==
    LET rest == SelectSeq(dl, LAMBDA d : d[2] # ev)
        left == Delay[ev]
    IN  {InsertAt(rest, k, <<left, ev>>) :
            k \in {j \in 1..(Len(rest) + 1) :
                     /\ \A m \in 1..(j - 1) : rest[m][1] <= left
                     /\ \A m \in j..Len(rest) : rest[m][1] >= left}}

Schedule(ev) == deadlines' \in Schedulings(deadlines, ev)

\* Two events, one after the other, from the same instant.
ScheduleBoth(first, second) ==
    \E dl \in Schedulings(deadlines, first) : deadlines' \in Schedulings(dl, second)

\* Time passes while the loop waits, for a message or for the end of a request:
\* its own steps take none next to the intervals of tens of seconds.
Tick ==
    /\ \/ pc \in {"start", "flush_app", "flush_obs", "heartbeat", "stop", "last"}
       \/ pc = "recv" /\ mailbox = <<>> /\ ~closed /\ ~Overdue
    /\ deadlines' = [i \in DOMAIN deadlines |->
                       <<IF deadlines[i][1] < 0 THEN -1 ELSE deadlines[i][1] - 1,
                         deadlines[i][2]>>]
    /\ UNCHANGED <<mailbox, sent, closed, cancelled, finished, pc, restartable, started,
                   configs, deps, logs, metrics, inflight, history>>

-----------------------------------------------------------------------------
\* The top of the loop, reached from the end of an action without an await:
\* only here is the cancellation looked at, a worker blocked in recv is not
\* woken by it.
LoopTop == IF cancelled THEN "ended" ELSE "recv"

Begin ==
    /\ pc = "new" /\ pc' = LoopTop
    /\ UNCHANGED <<mailbox, sent, closed, cancelled, finished, restartable, started, deadlines,
                   configs, deps, logs, metrics, inflight, history>>

(***************************************************************************)
(* recv_next_action. An overdue deadline is served before the mailbox, a   *)
(* deadline that is just due after it. When the mailbox is closed the      *)
(* worker stops for good.                                                  *)
(***************************************************************************)
FromDeadline(msg) ==
    /\ Overdue \/ (Due /\ mailbox = <<>> /\ ~closed)
    /\ msg = <<Head(deadlines)[2]>>
    /\ UNCHANGED <<mailbox, restartable>>

FromMailbox(msg) ==
    /\ ~Overdue
    /\ mailbox # <<>> /\ msg = Head(mailbox)
    /\ mailbox' = Tail(mailbox)
    /\ UNCHANGED restartable

FromClosed(msg) ==
    /\ ~Overdue
    /\ mailbox = <<>> /\ closed
    /\ msg = <<"Stop">>
    /\ restartable' = FALSE
    /\ UNCHANGED mailbox

Receive(msg) ==
    /\ pc = "recv"
    /\ FromDeadline(msg) \/ FromMailbox(msg) \/ FromClosed(msg)
    /\ UNCHANGED <<sent, closed, cancelled, finished>>

-----------------------------------------------------------------------------
(***************************************************************************)
(* dispatch_action                                                         *)
(***************************************************************************)
UnflushedConfigs == [i \in DOMAIN configUnflushed |-> Configurations!GetIdx(configUnflushed[i])]
UnflushedDeps == [i \in DOMAIN depUnflushed |-> Dependencies!GetIdx(depUnflushed[i])]

\* build_app_started / build_app_events_batch / build_observability_batch.
AppStarted(cs) == [Nothing EXCEPT !.configs = cs]
AppEvents == [Nothing EXCEPT !.configs = UnflushedConfigs, !.deps = UnflushedDeps]
Observability(n) == [Nothing EXCEPT !.logs = logs, !.series = n]

Start ==
    /\ ~MetricsLogs /\ Receive(<<"Start">>)
    /\ IF started THEN pc' = LoopTop /\ UNCHANGED inflight
       ELSE pc' = "start" /\ inflight' = AppStarted(UnflushedConfigs)
    /\ UNCHANGED <<started, deadlines, configs, deps, logs, metrics, history>>

AddConfig(c) ==
    /\ ~MetricsLogs /\ Receive(<<"AddConfig", c>>)
    /\ Configurations!Insert(c)
    /\ pc' = LoopTop
    /\ UNCHANGED <<started, deadlines, deps, logs, metrics, inflight, history>>

AddDependency(d) ==
    /\ ~MetricsLogs /\ Receive(<<"AddDependency", d>>)
    /\ Dependencies!Insert(d)
    /\ pc' = LoopTop
    /\ UNCHANGED <<started, deadlines, configs, logs, metrics, inflight, history>>

\* A log seen before is counted, a new one goes to the end of the queue.
Counted(l) ==
    IF \E i \in DOMAIN logs : logs[i][1] = l
    THEN [i \in DOMAIN logs |-> IF logs[i][1] = l THEN <<l, logs[i][2] + 1>> ELSE logs[i]]
    ELSE Append(logs, <<l, 1>>)

\* This one and the next two are the same in both dispatchers.
AddLog(l) ==
    /\ Receive(<<"AddLog", l>>)
    /\ logs' = Counted(l)
    /\ logged' = [logged EXCEPT ![l] = @ + 1]
    /\ pc' = LoopTop
    /\ UNCHANGED <<started, deadlines, configs, deps, metrics, inflight, acked, reported>>

AddPoint ==
    /\ Receive(<<"AddPoint">>)
    /\ points' = points + 1
    /\ pc' = LoopTop
    /\ UNCHANGED <<started, deadlines, configs, deps, logs, series, inflight, history>>

FlushMetricAggr ==
    /\ Receive(<<"FlushMetricAggr">>)
    /\ series' = series + points
    /\ points' = 0
    /\ Schedule("FlushMetricAggr")
    /\ pc' = LoopTop
    /\ UNCHANGED <<started, configs, deps, logs, inflight, history>>

\* A batch of app events, or a heartbeat alone.
FlushData ==
    /\ ~MetricsLogs /\ Receive(<<"FlushData">>)
    /\ IF started \/ restartable
       THEN pc' = "flush_app" /\ inflight' = AppEvents
       ELSE pc' = LoopTop /\ UNCHANGED inflight
    /\ UNCHANGED <<started, deadlines, configs, deps, logs, metrics, history>>

ExtendedHeartbeat ==
    /\ ~MetricsLogs /\ Receive(<<"ExtendedHeartbeat">>)
    /\ Configurations!UnflushStored /\ Dependencies!UnflushStored
    /\ pc' = "heartbeat"
    /\ inflight' = AppStarted(configItems)
    /\ UNCHANGED <<started, deadlines, logs, metrics, history>>

\* Two requests at once: the app events with app-closing, and what is to be
\* observed, the points not yet aggregated included.
Stop ==
    /\ ~MetricsLogs /\ Receive(<<"Stop">>)
    /\ IF started
       THEN /\ pc' = "stop"
            /\ series' = 0 /\ points' = 0
            /\ inflight' = [AppEvents EXCEPT !.logs = logs, !.series = series + points]
       ELSE /\ pc' = IF restartable' THEN LoopTop ELSE "ended"
            /\ UNCHANGED <<metrics, inflight>>
    /\ UNCHANGED <<started, deadlines, configs, deps, logs, history>>

-----------------------------------------------------------------------------
(***************************************************************************)
(* dispatch_metrics_logs_action: no app events, so nothing to wait for on  *)
(* Start, and the stores are not used.                                     *)
(***************************************************************************)
MetricsStart ==
    /\ MetricsLogs /\ Receive(<<"Start">>)
    /\ IF started THEN UNCHANGED deadlines ELSE ScheduleBoth("FlushMetricAggr", "FlushData")
    /\ started' = TRUE
    /\ pc' = LoopTop
    /\ UNCHANGED <<configs, deps, logs, metrics, inflight, history>>

MetricsIgnores(msg) ==
    /\ MetricsLogs /\ msg[1] \in {"AddConfig", "AddDependency", "ExtendedHeartbeat"}
    /\ Receive(msg)
    /\ pc' = LoopTop
    /\ UNCHANGED <<started, deadlines, configs, deps, logs, metrics, inflight, history>>

MetricsFlushData ==
    /\ MetricsLogs /\ Receive(<<"FlushData">>)
    /\ IF (started \/ restartable) /\ (logs # <<>> \/ series # 0)
       THEN pc' = "flush_obs" /\ inflight' = Observability(series) /\ series' = 0
            /\ UNCHANGED deadlines
       ELSE /\ IF started \/ restartable THEN Schedule("FlushData") ELSE UNCHANGED deadlines
            /\ pc' = LoopTop
            /\ UNCHANGED <<inflight, series>>
    /\ UNCHANGED <<started, configs, deps, logs, points, history>>

MetricsStop ==
    /\ MetricsLogs /\ Receive(<<"Stop">>)
    /\ IF started
       THEN /\ pc' = "last"
            /\ series' = 0 /\ points' = 0
            /\ inflight' = Observability(series + points)
       ELSE /\ pc' = IF restartable' THEN LoopTop ELSE "ended"
            /\ UNCHANGED <<metrics, inflight>>
    /\ UNCHANGED <<started, deadlines, configs, deps, logs, history>>

-----------------------------------------------------------------------------
(***************************************************************************)
(* The end of a request; it fails when the endpoint does, after a timeout  *)
(* or by cancellation.                                                     *)
(***************************************************************************)

\* How often the entries of s count log l.
OccurrencesIn(s, l) == LET at == {i \in DOMAIN s : s[i][1] = l}
                       IN  IF at = {} THEN 0 ELSE s[CHOOSE i \in at : TRUE][2]

\* Mutant: what a failed request carried is forgotten as if it had been sent.
AppSentAlways(ok) ==
    /\ Configurations!RemovedFlushed(Len(inflight.configs))
    /\ Dependencies!RemovedFlushed(Len(inflight.deps))
    /\ acked' = IF ok THEN acked \cup Range(inflight.configs) \cup Range(inflight.deps) ELSE acked

\* payload_sent_success for app events: as many entries leave the flush
\* queues as the payload carried.
AppSent(ok) ==
    IF ok
    THEN /\ Configurations!RemovedFlushed(Len(inflight.configs))
         /\ Dependencies!RemovedFlushed(Len(inflight.deps))
         /\ acked' = acked \cup Range(inflight.configs) \cup Range(inflight.deps)
    ELSE UNCHANGED <<configs, deps, acked>>

\* Mutant: the logs stay queued although they were reported.
ObservedKept(ok) ==
    /\ UNCHANGED logs
    /\ reported' = IF ok THEN [l \in Log |-> reported[l] + OccurrencesIn(inflight.logs, l)]
                   ELSE reported

\* payload_sent_success for logs: as many leave the queue as were sent. The
\* metrics left it when the batch was built.
Observed(ok) ==
    IF ok
    THEN /\ logs' = SubSeq(logs, Len(inflight.logs) + 1, Len(logs))
         /\ reported' = [l \in Log |-> reported[l] + OccurrencesIn(inflight.logs, l)]
    ELSE UNCHANGED <<logs, reported>>

Idle == pc' = LoopTop /\ inflight' = Nothing

Unchanged == UNCHANGED <<mailbox, sent, closed, cancelled, finished, restartable>>

\* Mutant: a worker whose app-started failed is not started.
StartSentIfOk(ok) ==
    /\ pc = "start"
    /\ AppSent(ok)
    /\ ScheduleBoth("FlushMetricAggr", "FlushData")
    /\ started' = ok
    /\ Idle
    /\ Unchanged /\ UNCHANGED <<logs, metrics, logged, reported>>

\* Start, after app-started.
StartSent(ok) ==
    /\ pc = "start"
    /\ AppSent(ok)
    /\ ScheduleBoth("FlushMetricAggr", "FlushData")
    /\ started' = TRUE
    /\ Idle
    /\ Unchanged /\ UNCHANGED <<logs, metrics, logged, reported>>

\* FlushData, after the app events: what is to be observed, if anything.
FlushAppSent(ok) ==
    /\ pc = "flush_app"
    /\ AppSent(ok)
    /\ IF logs = <<>> /\ series = 0
       THEN Idle /\ Schedule("FlushData") /\ UNCHANGED series
       ELSE /\ pc' = "flush_obs"
            /\ inflight' = Observability(series)
            /\ series' = 0
            /\ UNCHANGED deadlines
    /\ Unchanged /\ UNCHANGED <<started, logs, points, logged, reported>>

FlushObsSent(ok) ==
    /\ pc = "flush_obs"
    /\ Observed(ok)
    /\ Schedule("FlushData")
    /\ Idle
    /\ Unchanged /\ UNCHANGED <<started, configs, deps, metrics, acked, logged>>

HeartbeatSent(ok) ==
    /\ pc = "heartbeat"
    /\ AppSent(ok)
    /\ ScheduleBoth("FlushData", "ExtendedHeartbeat")
    /\ Idle
    /\ Unchanged /\ UNCHANGED <<started, logs, metrics, logged, reported>>

\* Stop, after both requests.
StopSent(app, obs) ==
    /\ pc = "stop"
    /\ AppSent(app) /\ Observed(obs)
    /\ started' = FALSE
    /\ deadlines' = IF restartable THEN deadlines ELSE <<>>
    /\ pc' = IF restartable THEN LoopTop ELSE "ended"
    /\ inflight' = Nothing
    /\ Unchanged /\ UNCHANGED <<metrics, logged>>

\* Stop of the worker for metrics and logs, after its only request: the logs it
\* carried are not taken out of the queue, payload_sent_success is not called.
MetricsStopSent(ok) ==
    /\ pc = "last"
    /\ reported' = IF ok THEN [l \in Log |-> reported[l] + OccurrencesIn(inflight.logs, l)]
                   ELSE reported
    /\ started' = FALSE
    /\ deadlines' = IF restartable THEN deadlines ELSE <<>>
    /\ pc' = IF restartable THEN LoopTop ELSE "ended"
    /\ inflight' = Nothing
    /\ Unchanged /\ UNCHANGED <<configs, deps, logs, metrics, acked, logged>>

\* Mutant: a cancelled worker ends without notice.
FinishUncancelled ==
    /\ pc = "ended" /\ Threaded /\ ~finished /\ ~cancelled
    /\ finished' = TRUE
    /\ UNCHANGED <<mailbox, sent, closed, cancelled, pc, restartable, started, deadlines,
                   configs, deps, logs, metrics, inflight, history>>

\* shutdown_finished, by the thread that ran the worker.
Finish ==
    /\ pc = "ended" /\ Threaded /\ ~finished
    /\ finished' = TRUE
    /\ UNCHANGED <<mailbox, sent, closed, cancelled, pc, restartable, started, deadlines,
                   configs, deps, logs, metrics, inflight, history>>

-----------------------------------------------------------------------------
(***************************************************************************)
(* The handles                                                             *)
(***************************************************************************)
Messages == {<<ev>> : ev \in Lifecycle} \cup {<<"AddPoint">>}
            \cup {<<"AddConfig", c>> : c \in Config} \cup {<<"AddDependency", d>> : d \in Dep}
            \cup {<<"AddLog", l>> : l \in Log}

\* try_send: fails when the mailbox is full or the worker gone.
Send(msg) ==
    /\ ~closed /\ pc # "ended"
    /\ sent < MaxMsgs /\ Len(mailbox) < Capacity
    /\ msg = <<"ExtendedHeartbeat">> =>
         EarlyHeartbeat \/ started \/ pc = "start" \/ <<"Start">> \in Range(mailbox)
    /\ mailbox' = Append(mailbox, msg)
    /\ sent' = sent + 1
    /\ UNCHANGED <<closed, cancelled, finished, pc, restartable, started, deadlines, configs,
                   deps, logs, metrics, inflight, history>>

\* The last handle is dropped.
Close ==
    /\ ~closed
    /\ closed' = TRUE
    /\ UNCHANGED <<mailbox, sent, cancelled, finished, pc, restartable, started, deadlines,
                   configs, deps, logs, metrics, inflight, history>>

\* cancel_requests_with_deadline, once the deadline has passed.
Cancel ==
    /\ ~cancelled
    /\ cancelled' = TRUE
    /\ UNCHANGED <<mailbox, sent, closed, finished, pc, restartable, started, deadlines,
                   configs, deps, logs, metrics, inflight, history>>

Dispatch == \/ Start \/ AddPoint \/ FlushMetricAggr \/ FlushData \/ ExtendedHeartbeat \/ Stop
            \/ MetricsStart \/ MetricsFlushData \/ MetricsStop
            \/ \E msg \in Messages : MetricsIgnores(msg)
            \/ \E c \in Config : AddConfig(c)
            \/ \E d \in Dep : AddDependency(d)
            \/ \E l \in Log : AddLog(l)

Answered == \/ \E ok \in BOOLEAN : \/ StartSent(ok) \/ FlushAppSent(ok) \/ FlushObsSent(ok)
                                   \/ HeartbeatSent(ok) \/ MetricsStopSent(ok)
            \/ \E app, obs \in BOOLEAN : StopSent(app, obs)

Next == \/ Begin \/ Dispatch \/ Answered \/ Finish
        \/ Tick \/ Close \/ Cancel
        \/ \E msg \in Messages : Send(msg)

\* The loop runs whenever it can; a request always ends, by its timeout at
\* the latest; the thread that ran the worker ends too.
Fairness == WF_vars(Begin) /\ WF_vars(Dispatch) /\ WF_vars(Answered) /\ WF_vars(Finish)

Spec == Init /\ [][Next]_vars
FairSpec == Spec /\ Fairness

-----------------------------------------------------------------------------
\* The two Stores keep their own invariant, a deadline is at most one delay
\* away (schedule_event), and a log that is queued was counted at least once.
TypeOK ==
    /\ Configurations!TypeOK /\ Dependencies!TypeOK
    /\ pc \in {"new", "recv", "start", "flush_app", "flush_obs", "heartbeat", "stop", "last", "ended"}
    /\ \A i \in DOMAIN deadlines : deadlines[i] \in (-1..Delay.ExtendedHeartbeat) \X DOMAIN Delay
    /\ logs \in Seq(Log \X (Nat \ {0}))
    /\ points \in Nat /\ series \in Nat

\* A stored item that is not queued for sending was in a request that
\* succeeded, whatever failed, was cancelled or was evicted in between.
ForgottenOnlyWhenSent ==
    /\ \A i \in DOMAIN configItems :
          configItems[i] \in acked \/ configPopped + i - 1 \in Range(configUnflushed)
    /\ \A i \in DOMAIN depItems :
          depItems[i] \in acked \/ depPopped + i - 1 \in Range(depUnflushed)

\* Every occurrence of a log is either queued or was reported in exactly one
\* request that succeeded; a worker for metrics and logs alone, whose Stop leaves
\* what it reported in the queue, promises it until it ends.
LogsReportedOnce ==
    \A l \in Log : \/ logged[l] = reported[l] + OccurrencesIn(logs, l)
                   \/ MetricsLogs /\ pc = "ended" /\ reported[l] <= logged[l]

\* An overdue deadline is served before the mailbox, so a handler that leaves it
\* in place starves every message, Stop included. FlushData is one when the
\* worker is neither started nor restartable: then it is not scheduled, whatever
\* requests failed, if nobody sends ExtendedHeartbeat before Start.
MailboxNotStarved ==
    pc = "recv" /\ (\E d \in Range(deadlines) : d[2] = "FlushData") => started \/ restartable

\* "To stop the worker, call send_stop which trigger flush asynchronously": a
\* Stop that was queued ends a worker that is not restartable.
StopEnds == (<<"Stop">> \in Range(mailbox)) ~> (pc = "ended" \/ restartable)

\* "... then wait_for_shutdown": which returns, if the worker runs on a thread of
\* its own (Threaded); nobody calls shutdown_finished for one that was spawned
\* as a task (spawn_with_config).
ShutdownAwaitable == (<<"Stop">> \in Range(mailbox)) ~> finished

=============================================================================
