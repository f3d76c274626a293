------------------------------- MODULE MCLive -------------------------------
(***************************************************************************)
(* What must eventually happen, in five components that share nothing and  *)
(* are explored side by side: the TraceExporter of this module's           *)
(* configuration, the telemetry worker, and the sidecar's trace flusher,   *)
(* telemetry registrations and one-way shared memory.                      *)
(***************************************************************************)
EXTENDS TraceExporter

CONSTANTS l1, p1, p2, w1, q1, v1, Null

VARIABLES part,  \* the component this behaviour is about
          mailbox, sent, closed, cancelled, finished, workerPc, restartable, started, deadlines,
          configItems, configPopped, configUnflushed, depItems, depPopped, depUnflushed,
          logs, points, series, inflight, acked, logged, reported,
          size, where, completer, handle, flusherPc, future, done, need, joined, joinNeed,
          items, applications, stopped, apps, reg, waiting, log, spawned, dropped, gone,
          announced, metric, lost, overtaken,
          gen, shmSize, word, file, cut, writes, lenOf, ended, writer, want, mapped, stored,
          restarts, died, reader, view, seenGen, toCopy, copied, copy, current

workerVars == <<mailbox, sent, closed, cancelled, finished, workerPc, restartable, started,
                deadlines, configItems, configPopped, configUnflushed,
                depItems, depPopped, depUnflushed, logs, points, series,
                inflight, acked, logged, reported>>
flusherVars == <<size, where, completer, handle, flusherPc, future, done, need, joined, joinNeed>>
appVars == <<items, applications, stopped, apps, reg, waiting, log, spawned, dropped, gone,
             announced, metric, lost, overtaken>>
regionVars == <<gen, shmSize, word, file, cut, writes, lenOf, ended, writer, want, mapped,
                stored, restarts, died, reader, view, seenGen, toCopy, copied, copy, current>>
allVars == <<vars, workerVars, flusherVars, appVars, regionVars, part>>

Worker == INSTANCE TelemetryWorker WITH
    Config <- {}, Dep <- {}, Log <- {l1}, MaxItems <- 1,
    Lifecycle <- {"Start", "Stop", "ExtendedHeartbeat"},
    EarlyHeartbeat <- FALSE, Restartable <- FALSE, MetricsLogs <- FALSE, Threaded <- TRUE,
    MaxMsgs <- 3, Capacity <- 2, pc <- workerPc

Flusher == INSTANCE TraceFlusher WITH
    Payload <- {p1, p2}, SizeOf <- [p \in {p1, p2} |-> 1], Waiter <- {w1},
    ForceFlush <- 1, ForceDrop <- 3, pc <- flusherPc

Telemetry == INSTANCE TelemetryApps WITH
    Queues <- {q1}, Services <- {v1}, MaxItems <- 3, MaxRegisters <- 2, StoreLen <- 1

Region == INSTANCE OneWayShm WITH
    Words <- 2, PageWords <- 1, MaxWrites <- 2, MaxRestarts <- 1,
    size <- shmSize, finished <- ended

MCInit == /\ Init /\ Worker!Init /\ Flusher!Init /\ Telemetry!Init /\ Region!ShmInit
          /\ part \in {"exporter", "worker", "flusher", "telemetry", "region"}

InExporter(A) ==
    part = "exporter" /\ A /\ UNCHANGED <<workerVars, flusherVars, appVars, regionVars, part>>
InWorker(A) ==
    part = "worker" /\ A /\ UNCHANGED <<vars, flusherVars, appVars, regionVars, part>>
InFlusher(A) ==
    part = "flusher" /\ A /\ UNCHANGED <<vars, workerVars, appVars, regionVars, part>>
InTelemetry(A) ==
    part = "telemetry" /\ A /\ UNCHANGED <<vars, workerVars, flusherVars, regionVars, part>>
InRegion(A) ==
    part = "region" /\ A /\ UNCHANGED <<vars, workerVars, flusherVars, appVars, part>>

MCNext == \/ InExporter(Next) \/ InWorker(Worker!Next) \/ InFlusher(Flusher!Next)
          \/ InTelemetry(Telemetry!Next) \/ InRegion(Region!ShmNext)

\* The fairness of each component, as its own FairSpec states it.
MCFairness ==
    /\ WF_allVars(InExporter(\E s \in Sender : Joined(s)))
    /\ \A e \in 1..MaxInfos :
          WF_allVars(InExporter(e \in DOMAIN exporters /\ (FinalFlush(e) \/ StatsSent(e))))
    /\ WF_allVars(InWorker(Worker!Dispatch))
    /\ WF_allVars(InWorker(Worker!Answered))
    /\ WF_allVars(InWorker(Worker!Begin))
    /\ WF_allVars(InWorker(Worker!Finish))
    /\ \A t \in {p1, p2} : WF_allVars(InFlusher(Flusher!Step(t)))
    /\ \A k \in 1..2 : WF_allVars(InTelemetry(Telemetry!RegistrationStep(k)))
    /\ WF_allVars(InTelemetry(Telemetry!LateStep))
    /\ WF_allVars(InRegion(Region!ShmFinishWrite))
    /\ WF_allVars(InRegion(Region!ShmReaderNext))

MCSpec == MCInit /\ [][MCNext]_allVars /\ MCFairness

\* No overdue deadline is left in place before the mailbox (MailboxNotStarved).
MailboxNotStarved == part = "worker" => Worker!MailboxNotStarved

\* A Stop that was queued ends a worker that is not restartable, and the thread
\* that ran it announces the end to wait_for_shutdown, provided that the worker
\* has such a thread and nobody sends ExtendedHeartbeat before Start.
StopAnnounced == Worker!StopEnds /\ Worker!ShutdownAwaitable

\* Every payload the flusher stored is sent, although handlers run after join,
\* and no flush() and no join() waits forever.
FlusherDelivers == Flusher!EventuallySent /\ Flusher!WaitersReturn

\* A telemetry item enqueued after the registration is sent, dropped or lost in
\* the end, unless the registration's own task gave up.
LateItemsEnd == Telemetry!LateItemsEnd

\* A reader of a one-way region comes to hold the last write.
ReadsLastWrite == Region!ReadsLastWrite
=============================================================================
