------------------------ MODULE SharedFetcherThreads ------------------------
(***************************************************************************)
(* The clients of SharedFetcher on a runtime with several worker threads,  *)
(* as the sidecar runs them (sidecar/src/entry.rs builds a multi_thread    *)
(* runtime). The polls of SharedFetcher are split at every acquisition of  *)
(* the files lock and of the lock of RefcountingStorage::inactive, and at  *)
(* every atomic operation that others do not need one of the locks for     *)
(* which is held. Memory is sequentially consistent.                       *)
(***************************************************************************)
EXTENDS SharedFetcher

CONSTANT Workers  \* worker threads of the runtime

ASSUME WorkersAssumption == Workers \in Nat \ {0}

VARIABLES filesLock,     \* who holds target_files_by_path across a step
          inactiveLock,  \* who holds inactive across a step
          last,          \* last run id to watch for, dec_runners' result
          fetched,       \* the files of the answer being processed
          todo,          \* what the loop a client is in has left to visit
          cur            \* the file object it is visiting

locals == <<last, fetched, todo, cur>>
tvars == <<vars, filesLock, inactiveLock, locals>>

None == <<>>
Free(lock) == lock = None

\* A client between two awaits occupies a worker thread.
Awaiting == {"off", "sleeping", "fetching"}
Running == {f \in Fetcher : pc[f] \notin Awaiting}
WorkerFree == Cardinality(Running) < Workers

Goto(f, label) == pc' = [pc EXCEPT ![f] = label]
Set(fn, f, v) == [fn EXCEPT ![f] = v]

TInit == /\ Init
         /\ filesLock = None
         /\ inactiveLock = None
         /\ last = [f \in Fetcher |-> 0]
         /\ fetched = [f \in Fetcher |-> {}]
         /\ todo = [f \in Fetcher |-> {}]
         /\ cur = [f \in Fetcher |-> None]

-----------------------------------------------------------------------------
Poll(f) ==
    /\ pc[f] \in {"off", "sleeping"}
    /\ WorkerFree
    /\ runId < MaxRunId
    /\ IncRunners(f)
    /\ Goto(f, "advertise")
    /\ UNCHANGED <<store, cached, held, filesLock, inactiveLock, locals>>

Advertise(f) ==
    /\ pc[f] = "advertise"
    /\ Free(filesLock)
    /\ cached' = Set(cached, f, [p \in {q \in DOMAIN files : ~files[q].expiring} |-> files[p].hash])
    /\ Goto(f, "fetching")
    /\ UNCHANGED <<store, runners, runId, first, held, filesLock, inactiveLock, locals>>

\* Ok(None) or an error: clean_inactive is all that follows.
AnswerEmpty(f) ==
    /\ pc[f] = "fetching"
    /\ WorkerFree
    /\ fetched' = Set(fetched, f, held[f])
    /\ Goto(f, "leave")
    /\ UNCHANGED <<store, runners, runId, first, cached, held, filesLock, inactiveLock,
                   last, todo, cur>>

\* 404: no files, the previous ones are released.
AnswerNotActive(f) ==
    /\ pc[f] = "fetching"
    /\ WorkerFree
    /\ fetched' = Set(fetched, f, {})
    /\ todo' = Set(todo, f, held[f])
    /\ Goto(f, "leave")
    /\ UNCHANGED <<store, runners, runId, first, cached, held, filesLock, inactiveLock,
                   last, cur>>

\* fetch_once holds the files lock while it applies the answer.
Store(P, fs, copy) ==
    /\ \A p \in DOMAIN copy, g \in Fetcher : <<p, copy[p]>> \notin fetched[g]
    /\ files' = fs
    /\ rc' = Zeroed(rc, P, copy)
    /\ dropped' = Zeroed(dropped, P, copy)

AnswerConfigs(f, hash, sent) ==
    /\ pc[f] = "fetching"
    /\ WorkerFree
    /\ Free(filesLock)
    /\ DOMAIN hash \subseteq DOMAIN files \cup sent
    /\ \E copy \in FreshCopies(Inserted(sent, hash)) :
         LET P   == Inserted(sent, hash)
             fs  == Revived(Insert(P, hash, copy), DOMAIN hash)
             new == {fs[p].handle : p \in DOMAIN hash}
         IN  /\ Store(P, fs, copy)
             /\ fetched' = Set(fetched, f, new)
             /\ todo' = Set(todo, f, new)
    /\ Goto(f, "refer")
    /\ UNCHANGED <<inactive, runners, runId, first, cached, held, filesLock, inactiveLock,
                   last, cur>>

\* The answer names a file that is neither stored nor sent: fetch_once bails.
AnswerMissing(f, hash, sent) ==
    /\ pc[f] = "fetching"
    /\ WorkerFree
    /\ Free(filesLock)
    /\ ~(DOMAIN hash \subseteq DOMAIN files \cup sent)
    /\ \E copy \in FreshCopies(Inserted(sent, hash)), seen \in SUBSET DOMAIN hash :
         LET P == Inserted(sent, hash)
         IN  Store(P, Revived(Insert(P, hash, copy), seen), copy)
    /\ fetched' = Set(fetched, f, held[f])
    /\ Goto(f, "leave")
    /\ UNCHANGED <<inactive, runners, runId, first, cached, held, filesLock, inactiveLock,
                   last, todo, cur>>

-----------------------------------------------------------------------------
\* for file in files: get_expiring_run_id, ...
Refer(f) ==
    /\ pc[f] = "refer"
    /\ IF todo[f] = {}
       THEN Goto(f, "leave") /\ todo' = Set(todo, f, held[f]) /\ UNCHANGED cur
       ELSE \E h \in todo[f] :
              /\ cur' = Set(cur, f, h)
              /\ todo' = Set(todo, f, todo[f] \ {h})
              /\ Goto(f, IF dropped[h] # 0 THEN "reclaim" ELSE "incref")
    /\ UNCHANGED <<store, runners, runId, first, cached, held, filesLock, inactiveLock,
                   last, fetched>>

\* ... take it back from inactive under that lock (its two stores are one step:
\* who reads the run id between them waits for the lock and finds nothing), ...
Reclaim(f) ==
    /\ pc[f] = "reclaim"
    /\ Free(inactiveLock)
    /\ Goto(f, "incref")
    /\ IF cur[f][1] \in DOMAIN inactive
       THEN /\ inactive' = Without(inactive, {cur[f][1]})
            /\ rc' = Set(rc, cur[f], 0)
            /\ dropped' = Set(dropped, cur[f], 0)
       ELSE UNCHANGED <<inactive, rc, dropped>>
    /\ UNCHANGED <<files, runners, runId, first, cached, held, filesLock, inactiveLock, locals>>

\* ... incref.
IncRef(f) ==
    /\ pc[f] = "incref"
    /\ rc' = Set(rc, cur[f], rc[cur[f]] + 1)
    /\ Goto(f, "refer")
    /\ UNCHANGED <<files, inactive, dropped, runners, runId, first, cached, held,
                   filesLock, inactiveLock, locals>>

-----------------------------------------------------------------------------
\* clean_inactive: dec_runners, ...
Leave(f) ==
    /\ pc[f] = "leave"
    /\ DecRunners
    /\ last' = Set(last, f, runId)
    /\ cached' = Set(cached, f, <<>>)
    /\ Goto(f, "clean")
    /\ UNCHANGED <<store, first, held, filesLock, inactiveLock, fetched, todo, cur>>

\* ... lock inactive, ...
Clean(f) ==
    /\ pc[f] = "clean"
    /\ Free(inactiveLock)
    /\ inactiveLock' = f
    /\ Goto(f, "scan")
    /\ cur' = Set(cur, f, DOMAIN inactive)
    /\ UNCHANGED <<store, runners, runId, first, cached, held, filesLock, last, fetched, todo>>

\* ... visit every entry with delref, ...
Scan(f) ==
    /\ pc[f] = "scan"
    /\ \E p \in cur[f] :
         LET h == inactive[p]
             watched == first[f] <= dropped[h] /\ dropped[h] <= last[f]
         IN  /\ rc' = IF watched THEN Set(rc, h, rc[h] - 1) ELSE rc
             /\ IF watched /\ rc[h] = 1
                THEN Goto(f, "expire") /\ cur' = Set(cur, f, [visit |-> p, rest |-> cur[f] \ {p}])
                ELSE UNCHANGED pc /\ cur' = Set(cur, f, cur[f] \ {p})
    /\ UNCHANGED <<files, inactive, dropped, runners, runId, first, cached, held,
                   filesLock, inactiveLock, last, fetched, todo>>

\* ... take the files lock, with inactive still locked, to remove the file, ...
Expire(f) ==
    /\ pc[f] = "expire"
    /\ Free(filesLock)
    /\ files' = Expired(files, {cur[f].visit})
    /\ inactive' = Without(inactive, {cur[f].visit})
    /\ cur' = Set(cur, f, cur[f].rest)
    /\ Goto(f, "scan")
    /\ UNCHANGED <<rc, dropped, runners, runId, first, cached, held, filesLock, inactiveLock,
                   last, fetched, todo>>

\* ... and unlock it.
Scanned(f) ==
    /\ pc[f] = "scan"
    /\ cur[f] = {}
    /\ inactiveLock' = None
    /\ cur' = Set(cur, f, None)
    /\ Goto(f, "release")
    /\ UNCHANGED <<store, runners, runId, first, cached, held, filesLock, last, fetched, todo>>

-----------------------------------------------------------------------------
\* for file in last_files: delref; the last reference expires the file.
DelRef(f) ==
    /\ pc[f] \in {"release", "stopping"}
    /\ \E h \in todo[f] :
         /\ rc' = Set(rc, h, rc[h] - 1)
         /\ todo' = Set(todo, f, todo[f] \ {h})
         /\ IF rc[h] = 1
            THEN cur' = Set(cur, f, [file |-> h, back |-> pc[f]]) /\ Goto(f, "lock")
            ELSE UNCHANGED <<cur, pc>>
    /\ UNCHANGED <<files, inactive, dropped, runners, runId, first, cached, held,
                   filesLock, inactiveLock, last, fetched>>

\* RefcountingStorage::expire_file locks the files first, ...
LockFiles(f) ==
    /\ pc[f] = "lock"
    /\ Free(filesLock)
    /\ filesLock' = f
    /\ Goto(f, "park")
    /\ UNCHANGED <<store, runners, runId, first, cached, held, inactiveLock, locals>>

\* ... then inactive; it gives up if the file is in use again, ...
Park(f) ==
    LET p == cur[f].file[1] IN
    /\ pc[f] = "park"
    /\ Free(inactiveLock)
    /\ IF rc[cur[f].file] # 0
       THEN /\ filesLock' = None
            /\ cur' = Set(cur, f, None)
            /\ Goto(f, cur[f].back)
            /\ UNCHANGED <<files, inactiveLock>>
       ELSE /\ files' = IF p \in DOMAIN files THEN [files EXCEPT ![p].expiring = TRUE] ELSE files
            /\ inactiveLock' = f
            /\ Goto(f, "count")
            /\ UNCHANGED <<filesLock, cur>>
    /\ UNCHANGED <<inactive, rc, dropped, runners, runId, first, cached, held,
                   last, fetched, todo>>

Unlock(f) ==
    /\ filesLock' = None
    /\ inactiveLock' = None
    /\ cur' = Set(cur, f, None)
    /\ Goto(f, cur[f].back)

\* ... reads the runners and the run id, to remove the file if none runs, ...
CountRunners(f) ==
    /\ pc[f] = "count"
    /\ IF runners = 0
       THEN /\ files' = Expired(files, {cur[f].file[1]})
            /\ Unlock(f)
       ELSE /\ cur' = Set(cur, f, [file |-> cur[f].file, back |-> cur[f].back,
                                 runners |-> runners, run |-> runId])
            /\ Goto(f, "setref")
            /\ UNCHANGED <<files, filesLock, inactiveLock>>
    /\ UNCHANGED <<inactive, rc, dropped, runners, runId, first, cached, held,
                   last, fetched, todo>>

\* ... or else has every runner hold the file, ...
SetRef(f) ==
    /\ pc[f] = "setref"
    /\ rc' = Set(rc, cur[f].file, cur[f].runners)
    /\ Goto(f, "insert")
    /\ UNCHANGED <<files, inactive, dropped, runners, runId, first, cached, held,
                   filesLock, inactiveLock, locals>>

\* ... with the run id to watch for, and keeps it in inactive.
InsertInactive(f) ==
    LET h == cur[f].file IN
    /\ pc[f] = "insert"
    /\ dropped' = Set(dropped, h, cur[f].run)
    /\ inactive' = [q \in DOMAIN inactive \cup {h[1]} |-> IF q = h[1] THEN h ELSE inactive[q]]
    /\ Unlock(f)
    /\ UNCHANGED <<files, rc, runners, runId, first, cached, held, last, fetched, todo>>

\* last_files = files; on_fetch; the client goes to sleep.
Sleep(f) ==
    /\ pc[f] = "release"
    /\ todo[f] = {}
    /\ held' = Set(held, f, fetched[f])
    /\ fetched' = Set(fetched, f, {})
    /\ Goto(f, "sleeping")
    /\ UNCHANGED <<store, runners, runId, first, cached, filesLock, inactiveLock, last, todo, cur>>

\* The cancelled client releases its files and ends.
Cancelled(f) ==
    /\ pc[f] = "sleeping"
    /\ WorkerFree
    /\ todo' = Set(todo, f, held[f])
    /\ Goto(f, "stopping")
    /\ UNCHANGED <<store, runners, runId, first, cached, held, filesLock, inactiveLock,
                   last, fetched, cur>>

Ended(f) ==
    /\ pc[f] = "stopping"
    /\ todo[f] = {}
    /\ held' = Set(held, f, {})
    /\ Goto(f, "off")
    /\ UNCHANGED <<store, runners, runId, first, cached, filesLock, inactiveLock, locals>>

TNext == \E f \in Fetcher :
    \/ Poll(f) \/ Advertise(f)
    \/ AnswerEmpty(f) \/ AnswerNotActive(f)
    \/ \E hash \in Answers : \E sent \in Sendable(f, hash) :
          AnswerConfigs(f, hash, sent) \/ AnswerMissing(f, hash, sent)
    \/ Refer(f) \/ Reclaim(f) \/ IncRef(f)
    \/ Leave(f) \/ Clean(f) \/ Scan(f) \/ Expire(f) \/ Scanned(f)
    \/ DelRef(f) \/ LockFiles(f) \/ Park(f) \/ CountRunners(f)
    \/ SetRef(f) \/ InsertInactive(f) \/ Sleep(f)
    \/ Cancelled(f) \/ Ended(f)

TSpec == TInit /\ [][TNext]_tvars

=============================================================================
