---------------------------- MODULE TelemetryApps ----------------------------
(***************************************************************************)
(* Telemetry of one runtime in the sidecar: enqueue_actions and            *)
(* register_service_and_flush_queued_actions of sidecar_server.rs, get_app *)
(* and shutdown of runtime_info.rs, EnqueuedTelemetryData, AppInstance.    *)
(*                                                                         *)
(* Actions of a queue id are held back until its service is registered.    *)
(* Registering swaps the queue for the future of the service and spawns a  *)
(* task: the first for a service also spawns its telemetry worker.  The    *)
(* task sends what was held back and then completes the future; actions    *)
(* enqueued meanwhile each get a task of their own that waits for it.      *)
(*                                                                         *)
(* An enqueued list is abstracted to one item: "data" (a configuration,    *)
(* dependency or integration, kept in a Store), "metric" (which registers  *)
(* the one metric), "point" (of that metric), "action" (anything else) or  *)
(* "stop".  A client registers the metric on a queue before it adds points *)
(* there, and does not use a queue id again after its stop.                *)
(***************************************************************************)
EXTENDS Naturals, Sequences, FiniteSets, SequencesExt

CONSTANTS Queues, Services,
          MaxItems,      \* bound: items enqueued
          MaxRegisters,  \* bound: registrations that spawn a task
          StoreLen       \* MAX_ITEMS, the capacity of the Store

Kinds == {"data", "metric", "point", "action", "stop"}
Items == [n : 1..MaxItems, kind : Kinds]
Regs == 1..MaxRegisters
None == "none"

VARIABLES
  items,         \* number of items enqueued
  applications,  \* applications[q]: how the runtime holds queue q
  stopped,       \* queue ids whose client has enqueued the stop
  apps,          \* apps[s]: the app future of service s
  reg,           \* reg[k]: the task of the k-th registration
  waiting,       \* tasks of items enqueued after the registration
  log,           \* log[s]: what the worker of s was sent, with its sender
  spawned,       \* spawned[s]: workers spawned for s
  dropped,       \* items dropped on purpose
  gone,          \* the runtime was shut down
  announced,     \* queue ids whose client has enqueued the metric
  metric,        \* metric[s]: telemetry_metrics of the app of s
  lost,          \* items lost with a task that panicked
  overtaken      \* a point's task ran before that of its metric's registration

metricVars == <<announced, metric, lost, overtaken>>
vars == <<items, applications, stopped, apps, reg, waiting, log, spawned, dropped, gone,
          metricVars>>

Unused == [at |-> "unused", q |-> None, service |-> None, data |-> <<>>, owner |-> FALSE]
Absent == [at |-> "absent", data |-> <<>>, by |-> 0]

AppsTypeOK ==
  /\ items \in 0..MaxItems /\ gone \in BOOLEAN
  /\ applications \in [Queues -> [at : {"absent", "inactive", "queue", "app"},
                                  data : Seq(Items), by : Regs \cup {0}]]
  /\ stopped \subseteq Queues /\ dropped \subseteq 1..MaxItems
  /\ apps \in [Services -> {"absent", "pending", "ready", "failed"}]
  /\ reg \in [Regs -> [at : {"unused", "spawn", "send", "resend", "complete", "done", "stuck", "panicked"},
                       q : Queues \cup {None}, service : Services \cup {None},
                       data : Seq(Items), owner : BOOLEAN]]
  /\ waiting \subseteq [item : Items, by : Regs]
  /\ log \in [Services -> Seq([n : 1..MaxItems, by : Regs, late : BOOLEAN])]
  /\ spawned \in [Services -> Nat]
  /\ announced \subseteq Queues /\ metric \in [Services -> {"unknown", "known", "poisoned"}]
  /\ lost \subseteq 1..MaxItems /\ overtaken \in BOOLEAN

Init ==
  /\ items = 0 /\ stopped = {} /\ waiting = {} /\ dropped = {} /\ gone = FALSE
  /\ applications = [q \in Queues |-> Absent]
  /\ apps = [s \in Services |-> "absent"]
  /\ reg = [k \in Regs |-> Unused]
  /\ log = [s \in Services |-> <<>>]
  /\ spawned = [s \in Services |-> 0]
  /\ announced = {} /\ metric = [s \in Services |-> "unknown"]
  /\ lost = {} /\ overtaken = FALSE

-----------------------------------------------------------------------------
OnStop(q, kind) == IF kind = "stop" THEN stopped \cup {q} ELSE stopped

(* The item that EnqueuedTelemetryData's full Store gives up for item i.     *)
Evicted(data, i) ==
  LET stored == SelectSeq(data, LAMBDA j : j.kind = "data")
  IN IF i.kind = "data" /\ Len(stored) = StoreLen THEN {Head(stored)} ELSE {}

(* enqueue_actions.  A stop of a queue that holds nothing only forgets it; a *)
(* stop of a registered one forgets it and is still sent.                    *)
Enqueue(q, kind) ==
  LET i == [n |-> items + 1, kind |-> kind]
      a == applications[q]
  IN /\ ~gone /\ items < MaxItems /\ q \notin stopped
     /\ items' = items + 1
     /\ stopped' = OnStop(q, kind)
     /\ kind = "point" => q \in announced
     /\ announced' = IF kind = "metric" THEN announced \cup {q} ELSE announced
     /\ \/ /\ a.at \in {"absent", "inactive"} /\ kind = "stop"
           /\ applications' = [applications EXCEPT ![q] = Absent]
           /\ dropped' = dropped \cup {i.n}
           /\ UNCHANGED waiting
        \/ /\ \/ a.at \in {"absent", "inactive"} /\ kind # "stop"
              \/ a.at = "queue"
           /\ LET out == Evicted(a.data, i)
                  kept == SelectSeq(a.data, LAMBDA j : j \notin out)
              IN /\ applications' = [applications EXCEPT ![q].at = "queue",
                                                         ![q].data = Append(kept, i)]
                 /\ dropped' = dropped \cup {j.n : j \in out}
           /\ UNCHANGED waiting
        \/ /\ a.at = "app"
           /\ applications' = IF kind = "stop" THEN [applications EXCEPT ![q] = Absent]
                                               ELSE applications
           /\ waiting' = waiting \cup {[item |-> i, by |-> a.by]}
           /\ UNCHANGED dropped
     /\ UNCHANGED <<apps, reg, log, spawned, gone, metric, lost, overtaken>>

(* set_remote_config_data makes an inactive application for an unknown queue. *)
SetRemoteConfigData(q) ==
  /\ ~gone /\ q \notin stopped /\ applications[q].at = "absent"
  /\ applications' = [applications EXCEPT ![q].at = "inactive"]
  /\ UNCHANGED <<items, stopped, apps, reg, waiting, log, spawned, dropped, gone, metricVars>>

AlwaysOwner(s) == TRUE

(* get_app hands the completer, and with it the spawning of the worker, to   *)
(* the first who asks for the service.                                       *)
Owner(s) == apps[s] = "absent"

HeldNothing(q) == <<>>
HeldBack(q) == applications[q].data

AppOf(k) == [at |-> "app", data |-> <<>>, by |-> k]

(* register_service_and_flush_queued_actions: only a queue becomes an app,   *)
(* an unknown or inactive one has a task but stays as it is, and a second    *)
(* registration does nothing.                                                *)
Register(q, s) ==
  \E k \in Regs :
    /\ reg[k] = Unused /\ \A j \in Regs : j < k => reg[j] # Unused
    /\ ~gone /\ applications[q].at # "app"
    /\ applications' = IF applications[q].at = "queue"
                       THEN [applications EXCEPT ![q] = AppOf(k)]
                       ELSE applications
    /\ reg' = [reg EXCEPT ![k] = [at |-> IF Owner(s) THEN "spawn" ELSE "send", q |-> q,
                                  service |-> s, data |-> HeldBack(q),
                                  owner |-> Owner(s)]]
    /\ apps' = IF Owner(s) THEN [apps EXCEPT ![s] = "pending"] ELSE apps
    /\ UNCHANGED <<items, stopped, waiting, log, spawned, dropped, gone, metricVars>>

-----------------------------------------------------------------------------
Pick(k, kinds) == SelectSeq(reg[k].data, LAMBDA i : i.kind \in kinds)

(* The app of registration k is given these items. *)
SendTo(k, list) ==
  LET new == [i \in DOMAIN list |-> [n |-> list[i].n, by |-> k, late |-> FALSE]]
  IN log' = [log EXCEPT ![reg[k].service] = @ \o new]

(* The drained app future of a runtime that was shut down still completes.   *)
Completes(s, outcome) == IF apps[s] = "pending" THEN [apps EXCEPT ![s] = outcome] ELSE apps

(* The task of an owner: spawn the worker, send it the stored data and       *)
(* complete the app future, with the instance or with None.                  *)
SpawnWorker(k) ==
  /\ reg[k].at = "spawn"
  /\ \/ /\ reg' = [reg EXCEPT ![k].at = "send"]
        /\ apps' = Completes(reg[k].service, "ready")
        /\ spawned' = [spawned EXCEPT ![reg[k].service] = @ + 1]
        /\ SendTo(k, Pick(k, {"data"}))
        /\ UNCHANGED dropped
     \/ /\ reg' = [reg EXCEPT ![k].at = "stuck"]
        /\ apps' = Completes(reg[k].service, "failed")
        /\ dropped' = dropped \cup {i.n : i \in ToSet(reg[k].data)}
        /\ UNCHANGED <<log, spawned>>
  /\ UNCHANGED <<items, applications, stopped, waiting, gone, metricVars>>

(* Whether the app future registration k holds is complete, and with what: the *)
(* owner of the service has got past the spawning.                             *)
OwnerOf(k) == CHOOSE j \in Regs :
                /\ reg[j].owner /\ reg[j].service = reg[k].service /\ j <= k
                /\ \A l \in Regs : (reg[l].owner /\ reg[l].service = reg[k].service /\ l <= k) => l <= j
AppReady(k) == reg[OwnerOf(k)].at \notin {"spawn", "stuck"}
AppFailed(k) == reg[OwnerOf(k)].at = "stuck"

NotRegistered(s, list) == metric[s]

(* register_metric for each of the list's metrics, the first of which stays. *)
Registered(s, list) ==
  IF \E i \in DOMAIN list : list[i].kind = "metric" THEN "known" ELSE metric[s]

(* A list with a metric or a point locks telemetry_metrics, which a panic has *)
(* poisoned for good; a point's metric must be there.  The lookup's unwrap    *)
(* panics inside the lock.                                                    *)
Panics(s, list) ==
  /\ \E i \in DOMAIN list : list[i].kind \in {"metric", "point"}
  /\ \/ metric[s] = "poisoned"
     \/ Registered(s, list) = "unknown"

(* Then, for every registration: register the metrics, send the actions held *)
(* back and the points; one of them being a stop, forget the queue.          *)
SendHeld(k) ==
  LET s == reg[k].service IN
  /\ reg[k].at = "send" /\ AppReady(k) /\ ~Panics(s, reg[k].data)
  /\ reg' = [reg EXCEPT ![k].at = "resend"]
  /\ applications' = IF Pick(k, {"stop"}) # <<>>
                     THEN [applications EXCEPT ![reg[k].q] = Absent] ELSE applications
  /\ SendTo(k, Pick(k, {"metric"}) \o Pick(k, {"action", "stop"}) \o Pick(k, {"point"}))
  /\ metric' = [metric EXCEPT ![s] = Registered(s, reg[k].data)]
  /\ UNCHANGED <<items, stopped, apps, waiting, spawned, dropped, gone, announced, lost, overtaken>>

(* ... or panic: the service future is not completed. *)
HeldPanics(k) ==
  LET s == reg[k].service IN
  /\ reg[k].at = "send" /\ AppReady(k) /\ Panics(s, reg[k].data)
  /\ reg' = [reg EXCEPT ![k].at = "panicked"]
  /\ metric' = [metric EXCEPT ![s] = "poisoned"]
  /\ lost' = lost \cup ({i.n : i \in ToSet(reg[k].data)} \ {e.n : e \in ToSet(log[s])})
  /\ UNCHANGED <<items, applications, stopped, apps, waiting, log, spawned, dropped, gone,
                 announced, overtaken>>

(* A registration whose service has no worker ends without completing. *)
Abandon(k) ==
  /\ reg[k].at = "send" /\ AppFailed(k)
  /\ reg' = [reg EXCEPT ![k].at = "stuck"]
  /\ dropped' = dropped \cup {i.n : i \in ToSet(reg[k].data)}
  /\ UNCHANGED <<items, applications, stopped, apps, waiting, log, spawned, gone, metricVars>>

(* Send the stored data, again for an owner ... *)
SendData(k) ==
  /\ reg[k].at = "resend"
  /\ reg' = [reg EXCEPT ![k].at = "complete"]
  /\ SendTo(k, Pick(k, {"data"}))
  /\ UNCHANGED <<items, applications, stopped, apps, waiting, spawned, dropped, gone, metricVars>>

CompleteNever(k) == reg[k].at = "complete" /\ UNCHANGED vars

(* ... and complete the service future. *)
Complete(k) ==
  /\ reg[k].at = "complete"
  /\ reg' = [reg EXCEPT ![k].at = "done"]
  /\ UNCHANGED <<items, applications, stopped, apps, waiting, log, spawned, dropped, gone, metricVars>>

ServiceKnownEarly(k) == AppReady(k)
ServiceKnown(k) == reg[k].at = "done"

(* The task of a late item: once the service is known, find its app (gone if *)
(* the runtime was shut down meanwhile) and register the metric there or     *)
(* send to its worker, ...                                                   *)
SendLate(w) ==
  LET s == reg[w.by].service IN
  /\ w \in waiting /\ ServiceKnown(w.by)
  /\ waiting' = waiting \ {w}
  /\ \/ /\ apps[s] = "absent"
        /\ dropped' = dropped \cup {w.item.n}
        /\ UNCHANGED <<log, metric>>
     \/ /\ apps[s] = "ready" /\ ~Panics(s, <<w.item>>)
        /\ log' = [log EXCEPT ![s] = Append(@, [n |-> w.item.n, by |-> w.by, late |-> TRUE])]
        /\ metric' = [metric EXCEPT ![s] = Registered(s, <<w.item>>)]
        /\ UNCHANGED dropped
  /\ UNCHANGED <<items, applications, stopped, apps, reg, spawned, gone, announced, lost, overtaken>>

(* ... or panic. *)
LatePanics(w) ==
  LET s == reg[w.by].service IN
  /\ w \in waiting /\ ServiceKnown(w.by)
  /\ apps[s] = "ready" /\ Panics(s, <<w.item>>)
  /\ waiting' = waiting \ {w}
  /\ lost' = lost \cup {w.item.n}
  /\ metric' = [metric EXCEPT ![s] = "poisoned"]
  /\ overtaken' = \/ overtaken
                  \/ \E v \in waiting : v.by = w.by /\ v.item.kind = "metric" /\ v.item.n < w.item.n
  /\ UNCHANGED <<items, applications, stopped, apps, reg, log, spawned, dropped, gone, announced>>

(* RuntimeInfo::shutdown, after the session forgot the runtime: the apps are  *)
(* drained, what is still queued goes with the runtime.                       *)
Shutdown ==
  /\ ~gone
  /\ gone' = TRUE
  /\ apps' = [s \in Services |-> "absent"]
  /\ dropped' = dropped \cup UNION {{i.n : i \in ToSet(applications[q].data)} : q \in Queues}
  /\ applications' = [q \in Queues |-> Absent]
  /\ UNCHANGED <<items, stopped, reg, waiting, log, spawned, metricVars>>

Next ==
  \/ \E q \in Queues : \/ \E kind \in Kinds : Enqueue(q, kind)
                       \/ \E s \in Services : Register(q, s)
                       \/ SetRemoteConfigData(q)
  \/ \E k \in Regs : \/ SpawnWorker(k) \/ SendHeld(k) \/ HeldPanics(k) \/ Abandon(k)
                     \/ SendData(k) \/ Complete(k)
  \/ \E w \in waiting : SendLate(w) \/ LatePanics(w)
  \/ Shutdown

Spec == Init /\ [][Next]_vars

(* tokio polls every spawned task that can go on. *)
RegistrationStep(k) ==
  \/ SpawnWorker(k) \/ SendHeld(k) \/ HeldPanics(k) \/ Abandon(k)
  \/ SendData(k) \/ Complete(k)

LateStep == \E w \in waiting : SendLate(w) \/ LatePanics(w)

FairSpec ==
  /\ Spec
  /\ \A k \in Regs : WF_vars(RegistrationStep(k))
  /\ WF_vars(LateStep)

-----------------------------------------------------------------------------
(***************************************************************************)
(* "Ok, we dequeued all messages, now new enqueue_actions calls can handle *)
(* it" (sidecar_server.rs:654): an item enqueued after the registration    *)
(* reaches the worker only after every item the queue had held back.       *)
(***************************************************************************)
HeldGoFirst ==
  \A s \in Services : \A j \in DOMAIN log[s] : log[s][j].late =>
    \A i \in ToSet(reg[log[s][j].by].data) :
      \E h \in 1..(j - 1) : log[s][h].n = i.n

(***************************************************************************)
(* No enqueued item disappears: it is held back, on its way in a task,     *)
(* sent to a worker, or was dropped for a reason (a stop of an empty       *)
(* queue, a newer one in the full Store, a worker that could not be        *)
(* spawned, the runtime's shutdown).  None is lost to a panic either, as   *)
(* long as no late point's task runs before that of its metric's late      *)
(* registration: to_telemetry_point's unwrap then poisons the metrics of   *)
(* the app, and metrics, points and whatever is held back with them are    *)
(* lost from then on.                                                      *)
(***************************************************************************)
ItemsKept ==
  /\ lost = {} \/ overtaken
  /\ 1..items \subseteq
       dropped \cup lost \cup {w.item.n : w \in waiting}
            \cup UNION {{i.n : i \in ToSet(applications[q].data)} : q \in Queues}
            \cup UNION {{i.n : i \in ToSet(reg[k].data)} :
                          k \in {j \in Regs : reg[j].at \in {"spawn", "send", "resend", "complete"}}}
            \cup UNION {{e.n : e \in ToSet(log[s])} : s \in Services}

(***************************************************************************)
(* A runtime has one telemetry worker per service, however many queue ids  *)
(* register it and however their tasks interleave (get_app).               *)
(***************************************************************************)
OneWorker == \A s \in Services : spawned[s] <= 1

(***************************************************************************)
(* Every late item is sent, dropped or lost in the end, unless the         *)
(* registration it waits for gave up: after a failed spawn, or a panic,    *)
(* the service future is never completed and the tasks waiting for it stay *)
(* for good.                                                               *)
(***************************************************************************)
LateItemsEnd ==
  \A n \in 1..MaxItems :
    (\E w \in waiting : w.item.n = n)
      ~> (\A w \in waiting : w.item.n = n => reg[w.by].at \in {"stuck", "panicked"})
=============================================================================
