---------------------------- MODULE SharedFetcher ----------------------------
(***************************************************************************)
(* Remote config clients that share one RefcountingStorage                 *)
(* (remote-config/src/fetch/shared.rs, SharedFetcher::run) and one         *)
(* ConfigFetcherState (remote-config/src/fetch/fetcher.rs, fetch_once).    *)
(*                                                                         *)
(* A client yields only while its request is in flight and while it        *)
(* sleeps, so each poll between two awaits is one action here: this is     *)
(* what a current-thread runtime executes. SharedFetcherThreads splits the *)
(* polls for a multi-thread runtime.                                       *)
(*                                                                         *)
(* The server is external and may answer anything, in any order, with one  *)
(* restriction its protocol gives: it sends the contents of a file it      *)
(* names unless the request advertised that file with that hash. With      *)
(* Faults, contents may be left out, be rejected, or fail to be stored.    *)
(***************************************************************************)
EXTENDS Integers, FiniteSets

CONSTANTS Fetcher,       \* the clients
          Path,          \* remote config paths
          Hash,          \* contents of a file, told apart by their hash
          Copy,          \* incarnations of the file object at a path
          Faults,        \* TRUE: contents may be missing, garbled or impossible to store
          Abandons,      \* TRUE: the future of run() may be dropped before it ends
          MaxRunId       \* bound on the generation counter, so that TLC stops

ASSUME FetcherAssumption == /\ IsFiniteSet(Fetcher)
                            /\ Faults \in BOOLEAN
                            /\ Abandons \in BOOLEAN
                            /\ MaxRunId \in Nat

Handle == Path \X Copy
Entry == [handle : Handle, hash : Hash, expiring : BOOLEAN]

VARIABLES
    files,     \* target_files_by_path: the stored files
    inactive,  \* RefcountingStorage.inactive: files awaiting in-flight requests
    rc,        \* FileRefcountData.rc of every file object
    dropped,   \* FileRefcountData.dropped_run_id of every file object
    runners,   \* RunnersGeneration: requests in flight ...
    runId,     \* ... and the generation
    pc,        \* where run() of each client waits
    first,     \* first_run_id of the current request
    cached,    \* cached_target_files of the current request: path -> hash
    held       \* last_files of each client

vars == <<files, inactive, rc, dropped, runners, runId, pc, first, cached, held>>
store == <<files, inactive, rc, dropped>>

Init == /\ files = <<>>
        /\ inactive = <<>>
        /\ rc = [h \in Handle |-> 0]
        /\ dropped = [h \in Handle |-> 0]
        /\ runners = 0
        /\ runId = 0
        /\ pc = [f \in Fetcher |-> "off"]
        /\ first = [f \in Fetcher |-> 0]
        /\ cached = [f \in Fetcher |-> <<>>]
        /\ held = [f \in Fetcher |-> {}]

Without(fn, S) == [x \in DOMAIN fn \ S |-> fn[x]]
PathsOf(S) == {h[1] : h \in S}

Fetching == {f \in Fetcher : pc[f] = "fetching"}
InUse == UNION {held[f] : f \in Fetcher}
Live == InUse \cup {files[p].handle : p \in DOMAIN files}
              \cup {inactive[p] : p \in DOMAIN inactive}

-----------------------------------------------------------------------------
(***************************************************************************)
(* RunnersGeneration                                                       *)
(***************************************************************************)

\* Mutant: a request that watches from the generation before its own.
IncRunnersEarly(f) == /\ runners' = runners + 1
                      /\ runId' = runId + 1
                      /\ first' = [first EXCEPT ![f] = runId]

\* inc_runners: the first run id to watch for is the new generation.
IncRunners(f) == /\ runners' = runners + 1
                 /\ runId' = runId + 1
                 /\ first' = [first EXCEPT ![f] = runId + 1]

\* dec_runners: the last run id to watch for is the old generation.
DecRunners == /\ runners' = runners - 1
              /\ runId' = runId + 1

-----------------------------------------------------------------------------
(***************************************************************************)
(* The first poll of a request: inc_runners, then every stored file that   *)
(* is not expiring is advertised as known.                                 *)
(***************************************************************************)
StartFetch(f) ==
    /\ pc[f] \in {"off", "sleeping"}
    /\ runId < MaxRunId
    /\ IncRunners(f)
    /\ pc' = [pc EXCEPT ![f] = "fetching"]
    /\ cached' = [cached EXCEPT ![f] =
                    [p \in {q \in DOMAIN files : ~files[q].expiring} |-> files[p].hash]]
    /\ UNCHANGED <<store, held>>

-----------------------------------------------------------------------------
(***************************************************************************)
(* The poll that consumes the answer. Its phases, in the code's order: the *)
(* response is applied to files; the files it names are referenced;        *)
(* clean_inactive; the previous files are released.                        *)
(***************************************************************************)

\* clean_inactive looks at the inactive files that expired while f's request
\* was in flight.
Watched(f, ina, drp) ==
    {p \in DOMAIN ina : first[f] <= drp[ina[p]] /\ drp[ina[p]] <= runId}

\* Those whose last in-flight request was this one (delref() == 1).
Gone(f, ina, r, drp) == {p \in Watched(f, ina, drp) : r[ina[p]] = 1}

CleanedRc(f, ina, r, drp) ==
    [h \in Handle |-> IF \E p \in Watched(f, ina, drp) : ina[p] = h
                      THEN r[h] - 1 ELSE r[h]]

\* Mutant: removing a file although an answer has named it again.
ExpiredRegardless(fs, S) == Without(fs, S)

\* ConfigFetcherFilesLock::expire_file removes only what is marked expiring.
Expired(fs, S) == Without(fs, {p \in S \cap DOMAIN fs : fs[p].expiring})

\* The answer changes nothing: no content, an error before the files lock is
\* taken, or a bail after it (fs then holds what was stored before the bail).
Conclude(f, fs, r, drp) ==
    /\ pc' = [pc EXCEPT ![f] = "sleeping"]
    /\ cached' = [cached EXCEPT ![f] = <<>>]
    /\ DecRunners
    /\ files' = Expired(fs, Gone(f, inactive, r, drp))
    /\ inactive' = Without(inactive, Gone(f, inactive, r, drp))
    /\ rc' = CleanedRc(f, inactive, r, drp)
    /\ dropped' = drp
    /\ UNCHANGED <<first, held>>

\* delref() == 1 for the objects of S that nobody else holds.
Orphans(S, r) == {h \in S : r[h] = 1}

\* Mutant: expiring at once, whatever is in flight.
ReleaseAtOnce(S, n, id, fs, ina, r, drp) ==
    /\ files' = Without(fs, PathsOf(Orphans(S, r)))
    /\ inactive' = ina
    /\ rc' = [h \in Handle |-> IF h \in S THEN r[h] - 1 ELSE r[h]]
    /\ dropped' = drp

\* delref on every object of S; those that reach zero go through
\* RefcountingStorage::expire_file, which either removes them at once or,
\* when n requests are in flight at generation id, parks them as inactive.
Release(S, n, id, fs, ina, r, drp) ==
    LET orphans == Orphans(S, r)
        paths   == PathsOf(orphans)
        parked  == IF n > 0 THEN orphans ELSE {}
    IN  /\ files' = IF n > 0
                    THEN [p \in DOMAIN fs |-> IF p \in paths
                                              THEN [fs[p] EXCEPT !.expiring = TRUE]
                                              ELSE fs[p]]
                    ELSE Without(fs, paths)
        /\ inactive' = [p \in DOMAIN ina \cup PathsOf(parked) |->
                          IF p \in PathsOf(parked)
                          THEN CHOOSE h \in parked : h[1] = p
                          ELSE ina[p]]
        /\ rc' = [h \in Handle |-> IF h \in parked THEN n
                                   ELSE IF h \in S THEN r[h] - 1 ELSE r[h]]
        /\ dropped' = [h \in Handle |-> IF h \in parked THEN id ELSE drp[h]]

\* Mutant: taking nothing back.
TakenBackNever(new, drp) == {}

\* The named files that get_expiring_run_id shows as expired and that are
\* still inactive.
TakenBack(new, drp) == {h \in new : drp[h] # 0 /\ h[1] \in DOMAIN inactive}

\* The answer names the files new: an inactive one is taken back (its count
\* restarts at zero), each gets a reference, then clean_inactive runs and the
\* files of the previous answer are released.
Deliver(f, new, fs, r, drp) ==
    LET back == TakenBack(new, drp)
        ina1 == Without(inactive, PathsOf(back))
        rc1  == [h \in Handle |-> (IF h \in back THEN 0 ELSE r[h])
                                  + (IF h \in new THEN 1 ELSE 0)]
        drp1 == [h \in Handle |-> IF h \in back THEN 0 ELSE drp[h]]
        gone == Gone(f, ina1, rc1, drp1)
    IN  /\ pc' = [pc EXCEPT ![f] = "sleeping"]
        /\ cached' = [cached EXCEPT ![f] = <<>>]
        /\ DecRunners
        /\ Release(held[f], runners - 1, runId + 1, Expired(fs, gone),
                   Without(ina1, gone), CleanedRc(f, ina1, rc1, drp1), drp1)
        /\ held' = [held EXCEPT ![f] = new]
        /\ UNCHANGED first

\* fetch_once returns Ok(None) or fails before it locks the files.
NothingNew(f) == /\ pc[f] = "fetching"
                 /\ Conclude(f, files, rc, dropped)

\* 404, or an agentless endpoint: the answer names no file.
NotActive(f) == /\ pc[f] = "fetching"
                /\ Deliver(f, {}, files, rc, dropped)

\* The contents that have to come with an answer naming these hashes.
Needed(f, hash) == {p \in DOMAIN hash : p \notin DOMAIN cached[f] \/ cached[f][p] # hash[p]}

\* What may really come with it.
Sendable(f, hash) == IF Faults THEN SUBSET Needed(f, hash) ELSE {Needed(f, hash)}

\* Of the contents sent, what fetch_once stores or updates: a known hash is
\* skipped.
Inserted(sent, hash) == {p \in sent : p \notin DOMAIN files \/ files[p].hash # hash[p]}

\* Mutant: storing a new object where the old one should be updated.
InsertRecreated(P, hash, copy) ==
    [p \in DOMAIN files \cup P |->
        IF p \notin P THEN files[p]
        ELSE [handle   |-> <<p, IF p \in DOMAIN copy THEN copy[p]
                                ELSE CHOOSE c \in Copy : c # files[p].handle[2]>>,
              hash     |-> hash[p],
              expiring |-> FALSE]]

\* fetch_once's insertions for the paths P; a path without an entry gets a
\* new file object, the others keep theirs (FileStorage::store and update).
Insert(P, hash, copy) ==
    [p \in DOMAIN files \cup P |->
        IF p \notin P THEN files[p]
        ELSE [handle   |-> IF p \in DOMAIN files THEN files[p].handle ELSE <<p, copy[p]>>,
              hash     |-> hash[p],
              expiring |-> FALSE]]

\* A new file object starts with FileRefcountData::new.
Zeroed(cnt, P, copy) ==
    [h \in Handle |-> IF h[1] \in P \ DOMAIN files /\ copy[h[1]] = h[2] THEN 0 ELSE cnt[h]]

Revived(fs, P) == [p \in DOMAIN fs |-> IF p \in P THEN [fs[p] EXCEPT !.expiring = FALSE]
                                                  ELSE fs[p]]

\* A fresh file object for each path of P that has no entry.
FreshCopies(P) == {copy \in [P \ DOMAIN files -> Copy] :
                      \A p \in P \ DOMAIN files : <<p, copy[p]>> \notin Live}

\* The answer names the files of DOMAIN hash and all of them are stored.
GotConfigs(f, hash, sent) ==
    /\ pc[f] = "fetching"
    /\ DOMAIN hash \subseteq DOMAIN files \cup sent
    /\ \E copy \in FreshCopies(Inserted(sent, hash)) :
         LET P  == Inserted(sent, hash)
             fs == Revived(Insert(P, hash, copy), DOMAIN hash)
         IN  Deliver(f, {fs[p].handle : p \in DOMAIN hash}, fs,
                     Zeroed(rc, P, copy), Zeroed(dropped, P, copy))

\* The answer names a file that is neither stored nor sent: fetch_once bails
\* after it stored the others and looked at some of the named ones.
MissingFile(f, hash, sent) ==
    /\ pc[f] = "fetching"
    /\ ~(DOMAIN hash \subseteq DOMAIN files \cup sent)
    /\ \E copy \in FreshCopies(Inserted(sent, hash)), seen \in SUBSET DOMAIN hash :
         LET P == Inserted(sent, hash)
         IN  Conclude(f, Revived(Insert(P, hash, copy), seen),
                      Zeroed(rc, P, copy), Zeroed(dropped, P, copy))

\* A sent file is rejected (hash, version or base64), or FileStorage fails on
\* it: fetch_once bails after it stored some of the others.
RejectedFile(f, hash, sent) ==
    /\ Faults
    /\ pc[f] = "fetching"
    /\ \E bad \in Inserted(sent, hash) : \E P \in SUBSET (Inserted(sent, hash) \ {bad}) :
         \E copy \in FreshCopies(P) :
           Conclude(f, Insert(P, hash, copy), Zeroed(rc, P, copy), Zeroed(dropped, P, copy))

-----------------------------------------------------------------------------
\* The cancelled client wakes up and releases its files; another client may
\* be started later (Fetcher names the places, not the objects).
Stop(f) ==
    /\ pc[f] = "sleeping"
    /\ pc' = [pc EXCEPT ![f] = "off"]
    /\ held' = [held EXCEPT ![f] = {}]
    /\ Release(held[f], runners, runId, files, inactive, rc, dropped)
    /\ UNCHANGED <<runners, runId, first, cached>>

\* MultiTargetFetcher cancels a client whose target is to be removed and drops
\* the future of run() with its own task: what follows the await the client
\* is in never runs, its files are not released and its request, if one is in
\* flight, stays counted.
Abandon(f) ==
    /\ Abandons
    /\ pc[f] # "off"
    /\ pc' = [pc EXCEPT ![f] = "off"]
    /\ held' = [held EXCEPT ![f] = {}]
    /\ cached' = [cached EXCEPT ![f] = <<>>]
    /\ UNCHANGED <<store, runners, runId, first>>

\* Every answer the server can name: some paths, each with a hash.
Answers == UNION {[P -> Hash] : P \in SUBSET Path}

Next == \E f \in Fetcher :
           \/ StartFetch(f)
           \/ NothingNew(f)
           \/ NotActive(f)
           \/ \E hash \in Answers : \E sent \in Sendable(f, hash) :
                 \/ GotConfigs(f, hash, sent)
                 \/ MissingFile(f, hash, sent)
                 \/ RejectedFile(f, hash, sent)
           \/ Stop(f)
           \/ Abandon(f)

Spec == Init /\ [][Next]_vars

-----------------------------------------------------------------------------
\* The maps of fetch_once and RefcountingStorage name known files, and neither
\* rc, dropped_run_id nor the runners count of RunnersGeneration goes below zero.
TypeOK ==
    /\ DOMAIN files \subseteq Path /\ \A p \in DOMAIN files : files[p] \in Entry
    /\ DOMAIN inactive \subseteq Path /\ \A p \in DOMAIN inactive : inactive[p] \in Handle
    /\ rc \in [Handle -> Nat]
    /\ dropped \in [Handle -> Nat]
    /\ runners \in Nat /\ runId \in Nat
    /\ pc \in [Fetcher -> {"off", "sleeping", "fetching"}]
    /\ first \in [Fetcher -> Nat]
    /\ \A f \in Fetcher : DOMAIN cached[f] \subseteq Path
    /\ held \in [Fetcher -> SUBSET Handle]

\* The comment on RefcountingStorage::inactive: a file advertised by a request
\* in flight stays stored until that request is processed, because the
\* server will not resend it. fetch_once therefore never meets a named file
\* that is not stored.
AdvertisedStored ==
    \A f \in Fetching : DOMAIN cached[f] \subseteq DOMAIN files

\* "The state is always valid, i.e. there will be no intermittently expired
\* files": a file some client holds is stored, not inactive.
HeldStored ==
    \A h \in InUse : /\ h[1] \in DOMAIN files /\ files[h[1]].handle = h
                     /\ h[1] \notin DOMAIN inactive

\* The doc comment of FileRefcountData.rc: while a file is in use its count
\* is the number of clients holding it; while it is inactive, the number of
\* requests that were in flight when it expired and still are.
RefcountExact ==
    /\ \A h \in InUse : rc[h] = Cardinality({f \in Fetcher : h \in held[f]})
    /\ \A p \in DOMAIN inactive :
          rc[inactive[p]] = Cardinality({f \in Fetching : first[f] <= dropped[inactive[p]]})

\* "It does not leak files which are no longer in use": a stored file is held
\* by a client or waits for a request in flight.
NoLeak ==
    \A p \in DOMAIN files : \/ files[p].handle \in InUse
                            \/ /\ p \in DOMAIN inactive
                               /\ \E f \in Fetching : first[f] <= dropped[inactive[p]]

=============================================================================
