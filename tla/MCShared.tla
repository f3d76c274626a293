------------------------------ MODULE MCShared ------------------------------
(***************************************************************************)
(* What the sidecar shares with the traced processes through memory, each  *)
(* part explored by itself: a one-way region, the remote configuration     *)
(* that a process reads from such regions, the slots of the shared         *)
(* limiter, and the counters of one limiter.                               *)
(***************************************************************************)
EXTENDS OneWayShm, RemoteConfigManager, ShmLimiter, RateLimiter, TLC

CONSTANTS a, b, x, y

VARIABLE part

allVars == <<shmVars, rcmVars, limiterVars, rateVars, part>>

ProductOf == a :> x @@ b :> y

\* Targets, the sidecar's threads and a limiter's threads are interchangeable.
Symmetry ==
  Permutations(RcTargets) \cup Permutations(Allocators) \cup Permutations(LimThreads)

MCInit ==
  /\ part \in {"region", "config", "slots", "rate"}
  /\ ShmInit /\ RcmInit /\ LimiterInit /\ RateInit

MCNext ==
  \/ part = "region" /\ ShmNext /\ UNCHANGED <<rcmVars, limiterVars, rateVars, part>>
  \/ part = "config" /\ RcmNext /\ UNCHANGED <<shmVars, limiterVars, rateVars, part>>
  \/ part = "slots" /\ LimiterNext /\ UNCHANGED <<shmVars, rcmVars, rateVars, part>>
  \/ part = "rate" /\ RateNext /\ UNCHANGED <<shmVars, rcmVars, limiterVars, part>>

MCSpec == MCInit /\ [][MCNext]_allVars

-----------------------------------------------------------------------------

(* Types; in a region that was new to this sidecar, the count of a slot is *)
(* the number of its references, and every slot is in use, free or on its  *)
(* way, in one of these ways only.                                         *)
SlotsSound == part = "slots" => LimiterTypeOK /\ CountsReferences /\ SlotsPartitioned

(* Types; from its start on a limiter lets no more through than the limit, *)
(* an interval's burst and a call per thread, and a pause saves up no      *)
(* credit.                                                                 *)
RateHolds == part = "rate" => RateTypeOK /\ LongRunLimit /\ NoCreditSaved

=============================================================================
