----------------------------- MODULE MCTargets ------------------------------
(***************************************************************************)
(* MultiTarget on one worker thread with two targets, as the constants of  *)
(* the configuration say, and on two worker threads with two callers, one  *)
(* target and a test token, explored side by side.                         *)
(***************************************************************************)
EXTENDS MultiTarget

CONSTANTS c1, c2, t1

VARIABLE world  \* which of the two this behaviour is in

Threaded == INSTANCE MultiTarget WITH
                Workers <- 2, Caller <- {c1, c2}, Target <- {t1}, TestToken <- TRUE,
                MaxGuards <- MaxGuards, MaxStarts <- MaxStarts - 1

MCInit == \/ world = "single" /\ Init
          \/ world = "threaded" /\ Threaded!Init

MCNext == /\ \/ world = "single" /\ Next
             \/ world = "threaded" /\ Threaded!Next
          /\ UNCHANGED world

MCSpec == MCInit /\ [][MCNext]_<<vars, world>>

\* On one thread, and without a test token (with one, drop stops a fetcher that
\* add_runtime may revive), no unwrap, unreachable! or subtraction fails
\* (NeverPanics).
SafeAlone == world = "single" => NeverPanics

\* Types; and on one thread, without a test token, KnownTarget.refcount is exact
\* (RefcountExact) and target_runtimes lists every runtime (NotifiesAll).
TargetsSound ==
  IF world = "single" THEN TypeOK /\ RefcountExact /\ NotifiesAll ELSE Threaded!TypeOK
=============================================================================
