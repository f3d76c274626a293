--------------------------- MODULE MCDataPipeline ---------------------------
(***************************************************************************)
(* What a traced process sends by itself, side by side: the data           *)
(* pipeline's SpanConcentrator, with clocks that are set back and without, *)
(* the TraceExporter which owns it, one thread sending, the telemetry      *)
(* worker in both flavours, and one of the worker's Stores alone, with     *)
(* more room and more items than a worker's whole state space allows.      *)
(***************************************************************************)
EXTENDS SpanConcentrator

CONSTANTS s1,                    \* the sending thread
          MaxSends, MaxInfos,    \* bounds of the TraceExporter
          Config, Dep, Log, MaxItems, Lifecycle, EarlyHeartbeat, Restartable, Threaded,
          MaxMsgs, Capacity,     \* of the TelemetryWorker
          StoreItem, StoreMaxItems, StoreMaxInserts

VARIABLES part,                  \* which of them this behaviour is about
          status, exporters, info, previous, pc, seen, payloads, counted, delivered, down,
          mailbox, sent, closed, cancelled, finished, workerPc, restartable, started, deadlines,
          configItems, configPopped, configUnflushed, depItems, depPopped, depUnflushed,
          logs, points, series, inflight, acked, logged, reported

storeVars == <<configItems, configPopped, configUnflushed>>
restVars == <<mailbox, sent, closed, cancelled, finished, workerPc, restartable, started,
              deadlines, depItems, depPopped, depUnflushed, logs, points, series,
              inflight, acked, logged, reported>>
exporterVars == <<status, exporters, info, previous, pc, seen, payloads, counted, delivered, down>>

Punctual == INSTANCE SpanConcentrator WITH Skew <- 0, ClockBack <- FALSE
Exporter == INSTANCE TraceExporter WITH Sender <- {s1}, handed <- delivered
Worker == INSTANCE TelemetryWorker WITH MetricsLogs <- FALSE, pc <- workerPc
MetricsWorker == INSTANCE TelemetryWorker WITH
                     MetricsLogs <- TRUE, Restartable <- FALSE, pc <- workerPc
Store == INSTANCE TelemetryStore WITH
             Item <- StoreItem, MaxItems <- StoreMaxItems, MaxInserts <- StoreMaxInserts,
             items <- configItems, popped <- configPopped, unflushed <- configUnflushed

ASSUME Worker!WorkerAssumption /\ Store!StoreAssumption

-----------------------------------------------------------------------------
(* Spans: one per way to be eligible or not, two resources and two peers.  *)
Plain == [resource |-> "a", kind |-> "internal", peer |-> "x",
          top |-> FALSE, measured |-> FALSE, partial |-> FALSE]

MCSpan == {[Plain EXCEPT !.top = TRUE],
           [Plain EXCEPT !.kind = "client", !.resource = "b", !.peer = "y"],
           [Plain EXCEPT !.measured = TRUE, !.partial = TRUE]}

MCKindSets == {{}, {"client"}}

-----------------------------------------------------------------------------
MCInit == /\ part \in {"skewed", "punctual", "exporter", "worker", "metrics", "store"}
          /\ Init /\ Exporter!Init
          /\ IF part = "metrics" THEN MetricsWorker!Init ELSE Worker!Init
          /\ part \notin {"skewed", "punctual"} => now = Epoch /\ kinds = {} /\ ~peerTags

MCNext ==
    /\ \/ /\ \/ part = "skewed" /\ Next
             \/ part = "punctual" /\ Punctual!Next
          /\ UNCHANGED <<exporterVars, storeVars, restVars>>
       \/ part = "exporter" /\ Exporter!Next /\ UNCHANGED <<vars, storeVars, restVars>>
       \/ part = "worker" /\ Worker!Next /\ UNCHANGED <<vars, exporterVars>>
       \/ part = "metrics" /\ MetricsWorker!Next /\ UNCHANGED <<vars, exporterVars>>
       \/ part = "store" /\ Store!Next /\ UNCHANGED <<vars, exporterVars, restVars>>
    /\ UNCHANGED part

MCSpec == MCInit /\ [][MCNext]_<<vars, exporterVars, storeVars, restVars, part>>

\* Types; and what no worker's queue holds any more was sent
\* (ForgottenOnlyWhenSent).
WorkerForgets == part = "worker" => Worker!TypeOK /\ Worker!ForgottenOnlyWhenSent

\* Every occurrence of a log is queued or was reported, once; by a worker for
\* metrics and logs alone until it ends (LogsReportedOnce).
LogsReportedOnce ==
    IF part = "metrics" THEN MetricsWorker!LogsReportedOnce ELSE Worker!LogsReportedOnce

\* Store, alone or as the worker uses it: the queue of what is to be sent is
\* the newest part of the map, so no index of it names an evicted item.
FlushQueueIsSuffix ==
    Worker!Configurations!FlushQueueIsSuffix /\ Worker!Dependencies!FlushQueueIsSuffix

\* Types; one thread: a payload that tells the agent its stats are computed has
\* them in a concentrator that will be flushed, or sent, up to a shutdown that
\* finds an exporter still at work that the agent had turned off
\* (ComputedStatsKept), and only the exporter the status names goes on forever
\* (OneExporter).
StatsKept ==
    part = "exporter" => Exporter!TypeOK /\ Exporter!ComputedStatsKept /\ Exporter!OneExporter
=============================================================================
