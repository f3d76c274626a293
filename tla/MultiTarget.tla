---------------------------- MODULE MultiTarget ----------------------------
(***************************************************************************)
(* MultiTargetFetcher (remote-config/src/fetch/multitarget.rs) as the      *)
(* sidecar uses it: RemoteConfigs (sidecar/src/service/remote_configs.rs)  *)
(* finds it in a map under a lock, ShmRemoteConfigsGuard                   *)
(* (sidecar/src/shm_remote_config.rs) undoes one add_runtime when dropped. *)
(*                                                                         *)
(* Callers, fetcher tasks and pending insertions are tasks of a runtime    *)
(* with Workers threads. A task is interruptible wherever it waits for a   *)
(* lock while other threads run; the locks of KnownTarget.status and       *)
(* SharedFetcher.runtime_id are innermost and held within one step. The    *)
(* endpoint is not a file:// one (add_runtime would ignore the runtime).   *)
(***************************************************************************)
EXTENDS Integers, FiniteSets, Sequences

CONSTANTS Runtime,    \* runtime ids
          Target,     \* (env, service, version) targets
          Caller,     \* concurrent users of the MultiTargetFetcher
          Insertion,  \* tasks that wait for a target to be removed, at most
          Workers,    \* worker threads of the runtime
          Permits,    \* fetcher_semaphore: DEFAULT_CLIENTS_LIMIT
          TestToken,  \* the endpoint has one: guards shut the fetcher down
          MaxGuards,  \* bound on the guards held at once
          MaxStarts   \* bound on the fetchers ever started

Fetcher == 1..MaxStarts
None == 0

ASSUME MultiTargetAssumption == /\ Workers \in Nat \ {0}
                                /\ Permits \in Nat \ {0}
                                /\ TestToken \in BOOLEAN
                                /\ MaxGuards \in Nat /\ MaxStarts \in Nat

Synthetic == "synthetic"
Task == Caller \cup Insertion \cup Fetcher
Lock == {"configs", "runtimes", "target_runtimes", "services"}

VARIABLES
    runtimes,        \* runtimes[r][t]: RuntimeInfo.targets, 0 when absent
    targetRuntimes,  \* target_runtimes
    services,        \* services[t]: the fetcher of the KnownTarget, or None
    known,           \* known[i]: KnownTarget of fetcher i
    started,         \* fetchers started so far
    permits,         \* available permits of fetcher_semaphore
    pending,         \* pending_async_insertions
    writers,         \* ConfigFileStorage.writers: targets with a published list
    listed,          \* the MultiTargetFetcher is in the map of RemoteConfigs
    deaths,          \* calls of MultiTargetHandlers::dead
    guards,          \* guards[r][t]: ShmRemoteConfigsGuard objects alive
    owner,           \* owner[l]: the task that holds lock l, or None
    pc, op,          \* where each task is and what it works on
    panicked         \* an unwrap, expect, unreachable! or subtraction failed

maps == <<runtimes, targetRuntimes, services, known>>
counts == <<started, permits, pending, writers, listed, deaths, guards>>
vars == <<maps, counts, owner, pc, op, panicked>>

Init ==
    /\ runtimes = [r \in Runtime |-> [t \in Target |-> 0]]
    /\ targetRuntimes = [t \in Target |-> {}]
    /\ services = [t \in Target |-> None]
    /\ known = <<>>
    /\ started = 0
    /\ permits = Permits
    /\ pending = 0
    /\ writers = {}
    /\ listed = TRUE
    /\ deaths = 0
    /\ guards = [r \in Runtime |-> [t \in Target |-> 0]]
    /\ owner = [l \in Lock |-> None]
    /\ pc = [a \in Task |-> "idle"]
    /\ op = [a \in Task |-> None]
    /\ panicked = FALSE

-----------------------------------------------------------------------------
TargetsOf(r) == {t \in Target : runtimes[r][t] > 0}
Guards == {<<r, t>> \in Runtime \X Target : guards[r][t] > 0}

\* A task between two awaits occupies a worker thread.
Awaiting == {"idle", "acquire", "run", "await", "done"}
WorkerFree == Cardinality({a \in Task : pc[a] \notin Awaiting}) < Workers

Free(l) == owner[l] = None
Taken(a, L) == [l \in Lock |-> IF l \in L THEN a ELSE owner[l]]
Released(a) == [l \in Lock |-> IF owner[l] = a THEN None ELSE owner[l]]
Goto(a, label) == pc' = [pc EXCEPT ![a] = label]
Panic == panicked' = TRUE /\ UNCHANGED <<maps, counts, owner, pc, op>>

-----------------------------------------------------------------------------
(***************************************************************************)
(* add_runtime and add_target.                                             *)
(***************************************************************************)

\* RemoteConfigs::add_runtime locks the map; a fetcher no longer listed there
\* is not used for additions any more.
AddRuntime(c, r, t) ==
    /\ pc[c] = "idle" /\ WorkerFree
    /\ Free("configs") /\ listed
    /\ Cardinality(Guards) < MaxGuards /\ guards[r][t] < 2
    /\ owner' = Taken(c, {"configs"})
    /\ op' = [op EXCEPT ![c] = [r |-> r, t |-> t, synthetic |-> FALSE]]
    /\ Goto(c, "add")
    /\ UNCHANGED <<maps, counts, panicked>>

GiveGuard(o) == guards' = [guards EXCEPT ![o.r][o.t] = @ + 1]

\* The runtimes entry: one more use of a known target, another target of a
\* known runtime, or a new runtime.
AddKnown(c) ==
    LET o == op[c]
    IN  /\ pc[c] = "add" /\ Free("runtimes")
        /\ IF runtimes[o.r][o.t] > 0
           THEN /\ runtimes' = [runtimes EXCEPT ![o.r][o.t] = @ + 1]
                /\ GiveGuard(o)
                /\ owner' = Released(c)
                /\ Goto(c, "idle")
                /\ op' = [op EXCEPT ![c] = None]
           ELSE /\ owner' = Taken(c, {"runtimes"})
                /\ op' = [op EXCEPT ![c].synthetic = TargetsOf(o.r) # {}]
                /\ Goto(c, IF Cardinality(TargetsOf(o.r)) = 1 THEN "primary" ELSE "target")
                /\ UNCHANGED <<runtimes, guards>>
        /\ UNCHANGED <<targetRuntimes, services, known, started, permits, pending, writers,
                       listed, deaths, panicked>>

\* A second target: the only one so far can no longer use this runtime's id.
AddSecond(c) ==
    LET i == services[CHOOSE t \in TargetsOf(op[c].r) : TRUE]
    IN  /\ pc[c] = "primary" /\ Free("services")
        /\ IF i = None
           THEN Panic
           ELSE /\ known' = IF known[i].synthetic THEN known
                            ELSE [known EXCEPT ![i].synthetic = TRUE, ![i].rid = Synthetic]
                /\ Goto(c, "target")
                /\ UNCHANGED <<runtimes, targetRuntimes, services, counts, owner, op, panicked>>

\* add_target, first part.
AddToTarget(a) ==
    /\ pc[a] = "target" /\ Free("target_runtimes")
    /\ targetRuntimes' = [targetRuntimes EXCEPT ![op[a].t] = @ \cup {op[a].r}]
    /\ Goto(a, "service")
    /\ UNCHANGED <<runtimes, services, known, counts, owner, op, panicked>>

\* The end of add_target: a caller completes add_runtime, a pending insertion
\* goes on to decrement pending_async_insertions.
Added(a) ==
    IF a \in Caller
    THEN /\ runtimes' = [runtimes EXCEPT ![op[a].r][op[a].t] = 1]
         /\ GiveGuard(op[a])
         /\ owner' = Released(a)
    ELSE UNCHANGED <<runtimes, guards, owner>>

AfterAdd(a) == IF a \in Caller THEN "idle" ELSE "inserted"

\* The id the fetcher uses: a runtime with this single target gives it its own.
Renamed(k, o) ==
    IF o.synthetic /\ ~k.synthetic /\ k.refcount = 0
    THEN [k EXCEPT !.synthetic = TRUE, !.rid = Synthetic]
    ELSE IF ~o.synthetic /\ k.synthetic
    THEN [k EXCEPT !.synthetic = FALSE, !.rid = o.r]
    ELSE k

\* Mutant: a further reference that is not counted.
ReferencedOnce(k, o) ==
    [Renamed(k, o) EXCEPT !.refcount = 1,
                          !.status = IF k.refcount = 0 THEN "Alive" ELSE @]

\* One more reference; a target that was to be removed is alive again.
Referenced(k, o) ==
    [Renamed(k, o) EXCEPT !.refcount = @ + 1,
                          !.status = IF k.refcount = 0 THEN "Alive" ELSE @]

\* add_target, second part, for a target that is known.
AddService(a) ==
    LET o == op[a]
        i == services[o.t]
        k == known[i]
    IN  /\ pc[a] = "service" /\ Free("services") /\ i # None
        /\ ~(k.refcount = 0 /\ k.status = "Removing")
        /\ IF k.refcount = 0 /\ k.status # "RemoveAt"
           THEN Panic
           ELSE /\ known' = [known EXCEPT ![i] = Referenced(k, o)]
                /\ Added(a)
                /\ Goto(a, AfterAdd(a))
                /\ op' = [op EXCEPT ![a] = None]
                /\ UNCHANGED <<targetRuntimes, services, started, permits, pending, writers,
                               listed, deaths, panicked>>

\* A target being removed: a task waits for the end of that fetcher.
AddLater(a) ==
    LET o == op[a]
        i == services[o.t]
    IN  /\ pc[a] = "service" /\ Free("services") /\ i # None
        /\ known[i].refcount = 0 /\ known[i].status = "Removing"
        /\ pending' = pending + 1
        /\ \E n \in Insertion :
             /\ pc[n] = "idle"
             /\ op' = [op EXCEPT ![a] = None, ![n] = [r |-> o.r, t |-> o.t, synthetic |-> o.synthetic,
                                                      after |-> i]]
             /\ pc' = [pc EXCEPT ![a] = AfterAdd(a), ![n] = "await"]
        /\ Added(a)
        /\ UNCHANGED <<targetRuntimes, services, known, started, permits, writers, listed,
                       deaths, panicked>>

\* A new target: start_fetcher.
AddFetcher(a) ==
    LET o == op[a]
        i == started + 1
    IN  /\ pc[a] = "service" /\ Free("services") /\ services[o.t] = None
        /\ started < MaxStarts
        /\ started' = i
        /\ services' = [services EXCEPT ![o.t] = i]
        /\ known' = Append(known, [target |-> o.t, refcount |-> 1, status |-> "Pending",
                                   synthetic |-> o.synthetic, cancelled |-> FALSE,
                                   rid |-> IF o.synthetic THEN Synthetic ELSE o.r])
        /\ pc' = [pc EXCEPT ![a] = AfterAdd(a), ![i] = "acquire"]
        /\ op' = [op EXCEPT ![a] = None]
        /\ Added(a)
        /\ UNCHANGED <<targetRuntimes, permits, pending, writers, listed, deaths, panicked>>

\* The pending insertion: await the removal, add_target, count down.
Awaited(n) ==
    /\ pc[n] = "await" /\ WorkerFree
    /\ pc[op[n].after] = "done"
    /\ Goto(n, "target")
    /\ UNCHANGED <<maps, counts, owner, op, panicked>>

Inserted(n) ==
    /\ pc[n] = "inserted"
    /\ pending' = pending - 1
    /\ Goto(n, "idle")
    /\ UNCHANGED <<maps, started, permits, writers, listed, deaths, guards, owner, op, panicked>>

-----------------------------------------------------------------------------
(***************************************************************************)
(* The drop of a ShmRemoteConfigsGuard: delete_runtime and remove_target,  *)
(* then, with a test token and no runtime left, shutdown.                  *)
(***************************************************************************)
Deleted(c) == /\ Goto(c, IF TestToken THEN "dropped" ELSE "idle")
              /\ op' = [op EXCEPT ![c] = None]

DropGuard(c, r, t) ==
    /\ pc[c] = "idle" /\ WorkerFree
    /\ guards[r][t] > 0
    /\ guards' = [guards EXCEPT ![r][t] = @ - 1]
    /\ op' = [op EXCEPT ![c] = [r |-> r, t |-> t]]
    /\ Goto(c, "delete")
    /\ UNCHANGED <<maps, started, permits, pending, writers, listed, deaths, owner, panicked>>

\* The runtimes entry; its last use of the target goes on to remove_target.
DeleteRuntime(c) ==
    LET o == op[c]
    IN  /\ pc[c] = "delete" /\ Free("runtimes")
        /\ IF TargetsOf(o.r) # {} /\ runtimes[o.r][o.t] = 0
           THEN Panic
           ELSE /\ runtimes' = IF TargetsOf(o.r) = {} THEN runtimes
                               ELSE [runtimes EXCEPT ![o.r][o.t] = @ - 1]
                /\ IF runtimes[o.r][o.t] = 1 THEN Goto(c, "remove") /\ UNCHANGED op ELSE Deleted(c)
                /\ UNCHANGED <<targetRuntimes, services, known, counts, owner, panicked>>

\* Mutant: the fetcher that has not started stays in services.
RemoveLastKept(c) ==
    LET i == services[op[c].t]
    IN  /\ pc[c] = "remove" /\ Free("services") /\ i # None
        /\ known[i].refcount = 1
        /\ known' = [known EXCEPT ![i].refcount = 0, ![i].status =
                       IF known[i].status = "Pending" THEN "Alive" ELSE "RemoveAt"]
        /\ owner' = Taken(c, {"services"})
        /\ Goto(c, "forget")
        /\ UNCHANGED <<runtimes, targetRuntimes, services, counts, op, panicked>>

\* The last runtime of a target: a fetcher that has not started is dropped, a
\* running one is kept for a while.
RemoveLast(c) ==
    LET t == op[c].t
        i == services[t]
        k == known[i]
    IN  /\ pc[c] = "remove" /\ Free("services") /\ i # None
        /\ k.refcount = 1
        /\ IF k.status \notin {"Pending", "Alive"}
           THEN Panic
           ELSE /\ IF k.status = "Pending"
                   THEN /\ known' = [known EXCEPT ![i].status = "Alive", ![i].cancelled = TRUE]
                        /\ services' = [services EXCEPT ![t] = None]
                   ELSE /\ known' = [known EXCEPT ![i].status = "RemoveAt", ![i].refcount = 0]
                        /\ UNCHANGED services
                /\ owner' = Taken(c, {"services"})
                /\ Goto(c, "forget")
                /\ UNCHANGED <<runtimes, targetRuntimes, counts, op, panicked>>

\* Not the last one: if the fetcher uses this runtime's id it needs another.
RemoveOne(c) ==
    LET i == services[op[c].t]
    IN  /\ pc[c] = "remove" /\ Free("services")
        /\ i # None => known[i].refcount # 1
        /\ IF i = None THEN Panic
           ELSE IF known[i].rid = op[c].r
           THEN /\ Goto(c, "rename")
                /\ owner' = Taken(c, {"services"})
                /\ UNCHANGED <<maps, counts, op, panicked>>
           ELSE IF known[i].refcount = 0 THEN Panic
           ELSE /\ known' = [known EXCEPT ![i].refcount = @ - 1]
                /\ Goto(c, "forget")
                /\ owner' = Taken(c, {"services"})
                /\ UNCHANGED <<runtimes, targetRuntimes, services, counts, op, panicked>>

Rename(c) ==
    LET t == op[c].t
        i == services[t]
        single == {r \in Runtime : TargetsOf(r) = {t}}
    IN  /\ pc[c] = "rename" /\ Free("runtimes")
        /\ IF known[i].refcount = 0
           THEN Panic
           ELSE /\ \E r \in IF single = {} THEN {Synthetic} ELSE single :
                     known' = [known EXCEPT ![i].rid = r, ![i].refcount = @ - 1,
                                            ![i].synthetic = @ \/ r = Synthetic]
                /\ Goto(c, "forget")
                /\ UNCHANGED <<runtimes, targetRuntimes, services, counts, owner, op, panicked>>

\* Mutant: the runtime stays in target_runtimes.
ForgetNothing(c) ==
    /\ pc[c] = "forget" /\ Free("target_runtimes")
    /\ owner' = Released(c)
    /\ Deleted(c)
    /\ UNCHANGED <<maps, counts, panicked>>

Forget(c) ==
    /\ pc[c] = "forget" /\ Free("target_runtimes")
    /\ targetRuntimes' = [targetRuntimes EXCEPT ![op[c].t] = @ \ {op[c].r}]
    /\ owner' = Released(c)
    /\ Deleted(c)
    /\ UNCHANGED <<runtimes, services, known, counts, panicked>>

\* active_runtimes() == 0 with a test token.
Dropped(c) ==
    /\ pc[c] = "dropped" /\ Free("runtimes")
    /\ Goto(c, IF \A r \in Runtime : TargetsOf(r) = {} THEN "shutdown" ELSE "idle")
    /\ UNCHANGED <<maps, counts, owner, op, panicked>>

\* RemoteConfigs::shutdown drains the map, then shuts down what was in it.
Drain(c) ==
    /\ pc[c] = "idle" /\ WorkerFree
    /\ Free("configs") /\ listed
    /\ owner' = Taken(c, {"configs"})
    /\ listed' = FALSE
    /\ Goto(c, "shutdown")
    /\ UNCHANGED <<maps, started, permits, pending, writers, deaths, guards, op, panicked>>

Shutdown(c) ==
    /\ pc[c] = "shutdown" /\ Free("services")
    /\ known' = [i \in DOMAIN known |->
                   IF services[known[i].target] = i /\ known[i].status = "RemoveAt"
                   THEN [known[i] EXCEPT !.cancelled = TRUE] ELSE known[i]]
    /\ owner' = Released(c)
    /\ Goto(c, "idle")
    /\ UNCHANGED <<runtimes, targetRuntimes, services, counts, op, panicked>>

-----------------------------------------------------------------------------
(***************************************************************************)
(* The task of start_fetcher.                                              *)
(***************************************************************************)

\* Mutant: the status is not looked at again once the permit is there.
AcquireUnchecked(i) ==
    /\ pc[i] = "acquire" /\ WorkerFree
    /\ permits > 0
    /\ permits' = permits - 1
    /\ known' = [known EXCEPT ![i].status = "Alive"]
    /\ Goto(i, "run")
    /\ UNCHANGED <<runtimes, targetRuntimes, services, started, pending, writers, listed,
                   deaths, guards, owner, op, panicked>>

\* The target may have been removed while the task waited for its permit.
Acquire(i) ==
    /\ pc[i] = "acquire" /\ WorkerFree
    /\ permits > 0
    /\ IF known[i].status = "Pending"
       THEN /\ permits' = permits - 1
            /\ known' = [known EXCEPT ![i].status = "Alive"]
            /\ Goto(i, "run")
       ELSE /\ Goto(i, "done")
            /\ UNCHANGED <<permits, known>>
    /\ UNCHANGED <<runtimes, targetRuntimes, services, started, pending, writers, listed,
                   deaths, guards, owner, op, panicked>>

\* run() hands the files to on_fetch, which publishes them; if the published
\* list changed, the runtimes of the target are notified.
Fetched(i) ==
    /\ pc[i] = "run" /\ WorkerFree
    /\ writers' = writers \cup {known[i].target}
    /\ \E changed \in BOOLEAN : Goto(i, IF changed THEN "notify" ELSE "run")
    /\ UNCHANGED <<maps, started, permits, pending, listed, deaths, guards, owner, op, panicked>>

Notify(i) ==
    LET rs == targetRuntimes[known[i].target]
    IN  /\ pc[i] = "notify" /\ Free("target_runtimes")
        /\ IF rs = {}
           THEN Goto(i, "run") /\ UNCHANGED <<owner, op>>
           ELSE /\ Goto(i, "lookup")
                /\ owner' = Taken(i, {"target_runtimes"})
                /\ op' = [op EXCEPT ![i] = rs]
        /\ UNCHANGED <<maps, counts, panicked>>

\* Each runtime is looked up under the runtimes lock, target_runtimes locked.
Lookup(i) ==
    /\ pc[i] = "lookup" /\ Free("runtimes")
    /\ \E r \in op[i] :
         IF op[i] = {r}
         THEN op' = [op EXCEPT ![i] = None] /\ owner' = Released(i) /\ Goto(i, "run")
         ELSE op' = [op EXCEPT ![i] = @ \ {r}] /\ UNCHANGED <<owner, pc>>
    /\ UNCHANGED <<maps, counts, panicked>>

\* The task checks the status between polls of run(): a target that is to be
\* removed goes when permits are short or its time has come.
GiveUp(i) ==
    /\ pc[i] = "run" /\ WorkerFree
    /\ known[i].status = "RemoveAt"
    /\ known' = [known EXCEPT ![i].status = "Removing", ![i].cancelled = TRUE]
    /\ Goto(i, "expire")
    /\ UNCHANGED <<runtimes, targetRuntimes, services, counts, owner, op, panicked>>

\* run() ended because it was cancelled.
RunEnded(i) ==
    /\ pc[i] = "run" /\ WorkerFree
    /\ known[i].cancelled
    /\ Goto(i, "expire")
    /\ UNCHANGED <<maps, counts, owner, op, panicked>>

\* Mutant: the published list stays.
ExpireNothing(i) ==
    /\ pc[i] = "expire"
    /\ Goto(i, "unlist")
    /\ UNCHANGED <<maps, counts, owner, op, panicked>>

\* MultiTargetHandlers::expired clears the published list.
Expire(i) ==
    /\ pc[i] = "expire"
    /\ writers' = writers \ {known[i].target}
    /\ Goto(i, "unlist")
    /\ UNCHANGED <<maps, started, permits, pending, listed, deaths, guards, owner, op, panicked>>

\* The target leaves services; the last one with nothing pending is the death
\* of the MultiTargetFetcher, else the task ends and wakes pending insertions.
Unlist(i) ==
    LET t    == known[i].target
        last == pending = 0 /\ \A u \in Target \ {t} : services[u] = None
    IN  /\ pc[i] = "unlist" /\ Free("services")
        /\ services' = [services EXCEPT ![t] = None]
        /\ known' = [known EXCEPT ![i].cancelled = TRUE]
        /\ Goto(i, IF last THEN "dead" ELSE "done")
        /\ owner' = IF last THEN Taken(i, {"services"}) ELSE owner
        /\ permits' = IF last THEN permits ELSE permits + 1
        /\ UNCHANGED <<runtimes, targetRuntimes, started, pending, writers, listed, deaths,
                       guards, op, panicked>>

\* dead(): the callback, which may be taken once, removes the MultiTargetFetcher
\* from the map of RemoteConfigs, with services still locked.
Dead(i) ==
    /\ pc[i] = "dead" /\ Free("configs")
    /\ IF deaths > 0
       THEN Panic
       ELSE /\ deaths' = 1
            /\ listed' = FALSE
            /\ owner' = Released(i)
            /\ permits' = permits + 1
            /\ Goto(i, "done")
            /\ UNCHANGED <<maps, started, pending, writers, guards, op, panicked>>

Next ==
    /\ ~panicked
    /\ \/ \E c \in Caller :
            \/ \E r \in Runtime, t \in Target : AddRuntime(c, r, t) \/ DropGuard(c, r, t)
            \/ AddKnown(c) \/ AddSecond(c)
            \/ DeleteRuntime(c) \/ RemoveLast(c) \/ RemoveOne(c) \/ Rename(c) \/ Forget(c)
            \/ Dropped(c) \/ Drain(c) \/ Shutdown(c)
       \/ \E a \in Caller \cup Insertion :
            AddToTarget(a) \/ AddService(a) \/ AddLater(a) \/ AddFetcher(a)
       \/ \E n \in Insertion : Awaited(n) \/ Inserted(n)
       \/ \E i \in 1..started :
            \/ Acquire(i) \/ Fetched(i) \/ Notify(i) \/ Lookup(i) \/ GiveUp(i) \/ RunEnded(i)
            \/ Expire(i) \/ Unlist(i) \/ Dead(i)

Spec == Init /\ [][Next]_vars

-----------------------------------------------------------------------------
\* Every KnownTarget in services was started, and neither the permits of
\* fetcher_semaphore nor pending_async_insertions leave their range.
TypeOK ==
    /\ runtimes \in [Runtime -> [Target -> Nat]]
    /\ targetRuntimes \in [Target -> SUBSET Runtime]
    /\ services \in [Target -> 0..started]
    /\ known \in Seq([target : Target, refcount : Nat, synthetic : BOOLEAN, cancelled : BOOLEAN,
                      status : {"Pending", "Alive", "RemoveAt", "Removing"},
                      rid : Runtime \cup {Synthetic}])
    /\ Len(known) = started
    /\ permits \in 0..Permits
    /\ pending \in 0..Cardinality(Insertion)
    /\ owner \in [Lock -> Task \cup {None}]

\* No operation is under way.
Quiet == \A a \in Caller \cup Insertion : pc[a] = "idle"

\* The unwrap of services.get_mut, the unreachable! arms on the status, the
\* subtraction of the refcount and the expect of on_dead never fail.
NeverPanics == ~panicked

WaitsFor(a) ==
    CASE pc[a] \in {"add", "delete", "rename", "lookup", "dropped"} -> "runtimes"
      [] pc[a] \in {"primary", "service", "remove", "unlist", "shutdown"} -> "services"
      [] pc[a] \in {"target", "forget", "notify"} -> "target_runtimes"
      [] pc[a] = "dead" -> "configs"
      [] OTHER -> "nothing"

\* No set of tasks each waits for a lock another of them holds.
NoLockCycle ==
    ~ \E S \in SUBSET {owner[l] : l \in Lock} \ {{}} :
        \A a \in S : a # None /\ WaitsFor(a) \in Lock /\ owner[WaitsFor(a)] \in S

\* Two fetchers never serve, and publish the files of, one target at a time.
ExclusiveFetcher ==
    \A i, j \in 1..started :
        /\ pc[i] \in {"run", "notify", "lookup", "expire", "unlist"}
        /\ pc[j] \in {"run", "notify", "lookup", "expire", "unlist"}
        /\ known[i].target = known[j].target
        => i = j

\* A published list belongs to a target that is being fetched: a fetcher that
\* ends clears it (expired, "to signal it's no longer being fetched").
PublishedFetched ==
    \A t \in writers : \E i \in 1..started :
        known[i].target = t /\ pc[i] \in {"run", "notify", "lookup", "expire"}

\* KnownTarget.refcount counts the runtimes of the target, and a target some
\* runtime uses has a fetcher.
RefcountExact ==
    Quiet => \A t \in Target :
        LET users == {r \in Runtime : runtimes[r][t] > 0}
        IN  IF services[t] = None THEN users = {}
            ELSE known[services[t]].refcount = Cardinality(users)

\* on_fetch finds every runtime of the target in target_runtimes.
NotifiesAll ==
    Quiet => \A t \in Target : targetRuntimes[t] = {r \in Runtime : runtimes[r][t] > 0}

=============================================================================
