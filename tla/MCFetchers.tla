----------------------------- MODULE MCFetchers -----------------------------
(***************************************************************************)
(* The clients of SharedFetcher in four worlds, explored side by side: all *)
(* goes well, as the constants of the configuration say, answers have      *)
(* faults, clients are abandoned, and polls are split over two worker      *)
(* threads while answers have faults.                                      *)
(***************************************************************************)
EXTENDS SharedFetcherThreads

CONSTANT p1

VARIABLE world  \* which of the four this behaviour is in

Faulty == INSTANCE SharedFetcher WITH Faults <- TRUE, Hash <- {"x"}, MaxRunId <- MaxRunId - 1
Abandoning == INSTANCE SharedFetcher WITH Abandons <- TRUE, Hash <- {"x"}, MaxRunId <- MaxRunId - 1
Threaded == INSTANCE SharedFetcherThreads WITH Faults <- TRUE, Path <- {p1}, Hash <- {"x"}

MCInit == \/ world \in {"sound", "faulty", "abandoning"} /\ TInit
          \/ world = "threaded" /\ Threaded!TInit

MCNext == /\ \/ world = "sound" /\ Next /\ UNCHANGED <<filesLock, inactiveLock, locals>>
             \/ world = "faulty" /\ Faulty!Next /\ UNCHANGED <<filesLock, inactiveLock, locals>>
             \/ world = "abandoning" /\ Abandoning!Next /\ UNCHANGED <<filesLock, inactiveLock, locals>>
             \/ world = "threaded" /\ Threaded!TNext
          /\ UNCHANGED world

MCSpec == MCInit /\ [][MCNext]_<<tvars, world>>

\* Types; unless polls overlap, a file a client holds is stored (HeldStored);
\* reference counts are exact (RefcountExact) as long as no client is abandoned;
\* and no file leaks (NoLeak) when all goes well.
FilesSound ==
  /\ world # "threaded" => TypeOK /\ HeldStored
  /\ world \in {"sound", "faulty"} => RefcountExact
  /\ world = "sound" => NoLeak

Promise == INSTANCE FileRegistry WITH
               stored <- IF world = "sound" THEN {files[p].handle : p \in DOMAIN files} ELSE {},
               held <- IF world = "sound" THEN held ELSE [f \in Fetcher |-> {}],
               fetching <- IF world = "sound" THEN Fetching ELSE {}

\* When all goes well the clients implement the promise of the doc comment of
\* SharedFetcher, FileRegistry.
PromiseKept == Promise!Spec
=============================================================================
