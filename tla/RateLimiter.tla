---------------------------- MODULE RateLimiter -----------------------------
(***************************************************************************)
(* LocalLimiter of ddcommon/src/rate_limiter.rs, the counter behind every  *)
(* limiter, shared by threads (and, in shared memory, by processes).  Hits *)
(* are counted in units of time: a hit is worth the granularity, and the   *)
(* time that has passed, times the limit, is taken off on every call.  The *)
(* atomics are accessed one after the other, with other threads' accesses  *)
(* in between.  Each call of inc has a limit of its own; the clock, which  *)
(* is monotonic, is read at the start of a call.                           *)
(***************************************************************************)
EXTENDS Integers, FiniteSets, FiniteSetsExt

CONSTANTS LimThreads,
          Limits,        \* the limits per interval that calls are made with
          Granularity,   \* the length of the interval, in ticks
          MaxNow,        \* bound: the clock
          MaxIncs,       \* bound: calls of inc
          MaxRates       \* bound: calls of update_rate

ASSUME RateAssumption ==
  /\ Limits \subseteq Nat \ {0} /\ Limits # {} /\ Granularity \in Nat \ {0}
  /\ MaxNow \in Nat /\ MaxIncs \in Nat /\ MaxRates \in Nat

VARIABLES
  now, lastUpdate, hitCount, lastLimit,
  call,      \* call[t]: the call t is in, its step and its locals
  incs,      \* calls of inc so far
  rates,     \* calls of update_rate so far
  admitted   \* calls of inc that returned true

counters == <<incs, rates, admitted>>
rateVars == <<now, lastUpdate, hitCount, lastLimit, call, counters>>

NoCall == [of |-> "none", step |-> "", limit |-> 0, now |-> 0, clear |-> 0, previous |-> 0]

RateTypeOK ==
  /\ now \in 0..MaxNow /\ lastUpdate \in 0..MaxNow /\ hitCount \in Int
  /\ lastLimit \in Limits \cup {0}
  /\ call \in [LimThreads -> [of : {"none", "inc", "rate"},
                              step : {"", "swap", "load", "subtract", "floor", "decide"},
                              limit : Limits \cup {0}, now : 0..MaxNow, clear : Int, previous : Int]]
  /\ incs \in 0..MaxIncs /\ rates \in 0..MaxRates
  /\ admitted \in 0..MaxIncs

RateInit ==
  /\ now = 0 /\ lastUpdate = 0 /\ hitCount = 0 /\ lastLimit = 0
  /\ call = [t \in LimThreads |-> NoCall]
  /\ incs = 0 /\ rates = 0 /\ admitted = 0

Tick == /\ now < MaxNow /\ now' = now + 1
        /\ UNCHANGED <<lastUpdate, hitCount, lastLimit, call, counters>>

-----------------------------------------------------------------------------
StartInc(t) ==
  /\ call[t] = NoCall /\ incs < MaxIncs
  /\ incs' = incs + 1
  /\ \E limit \in Limits :
       call' = [call EXCEPT ![t] = [NoCall EXCEPT !.of = "inc", !.step = "swap",
                                                  !.limit = limit, !.now = now]]
  /\ UNCHANGED <<now, lastUpdate, hitCount, lastLimit, rates, admitted>>

(* update_rate, whose limit is 0. *)
StartUpdateRate(t) ==
  /\ call[t] = NoCall /\ rates < MaxRates
  /\ rates' = rates + 1
  /\ call' = [call EXCEPT ![t] = [NoCall EXCEPT !.of = "rate", !.step = "swap", !.now = now]]
  /\ UNCHANGED <<now, lastUpdate, hitCount, lastLimit, incs, admitted>>

NotSwapped(t) == lastUpdate
SwappedIn(t) == call[t].now

(* update: the time since the last update, of whichever thread, ...          *)
Swap(t) ==
  /\ call[t].step = "swap"
  /\ lastUpdate' = SwappedIn(t)
  /\ call' = [call EXCEPT ![t].step = "load", ![t].clear = call[t].now - lastUpdate]
  /\ UNCHANGED <<now, hitCount, lastLimit, counters>>

(* ... times the larger of this call's and the last admitted call's limit, ... *)
TimesLimit(t) ==
  [call[t] EXCEPT !.step = "subtract", !.clear = @ * Max({call[t].limit, lastLimit})]

LoadLimit(t) ==
  /\ call[t].step = "load"
  /\ call' = [call EXCEPT ![t] = TimesLimit(t)]
  /\ UNCHANGED <<now, lastUpdate, hitCount, lastLimit, counters>>

HitUncounted(c) == c.clear

SubtractOf(c) == c.clear - Granularity

(* ... is taken off and the hit put on, ...                                  *)
Subtract(t) ==
  /\ call[t].step = "subtract"
  /\ hitCount' = hitCount - SubtractOf(call[t])
  /\ call' = [call EXCEPT ![t].previous = hitCount,
                          ![t].step = IF hitCount < SubtractOf(call[t]) THEN "floor" ELSE "decide"]
  /\ UNCHANGED <<now, lastUpdate, lastLimit, counters>>

FloorForgotten(c) == 0

(* ... and what was taken off below zero put back.                           *)
PutBack(c) == c.clear - (IF c.previous > 0 THEN c.previous ELSE 0)

Floor(t) ==
  /\ call[t].step = "floor"
  /\ hitCount' = hitCount + PutBack(call[t])
  /\ call' = [call EXCEPT ![t].step = "decide",
                          ![t].previous = @ + PutBack(call[t]) - call[t].clear]
  /\ UNCHANGED <<now, lastUpdate, lastLimit, counters>>

(* previous_hits / granularity >= limit                                      *)
Exceeded(c) == c.previous >= c.limit * Granularity

(* A call that is refused takes its hit back.                                *)
HitTakenBack == hitCount - Granularity

(* The rest of inc; update_rate goes on to read the rate, and keeps its hit. *)
Decide(t) ==
  /\ call[t].step = "decide"
  /\ call' = [call EXCEPT ![t] = NoCall]
  /\ \/ /\ call[t].of = "inc" /\ Exceeded(call[t])
        /\ hitCount' = HitTakenBack
        /\ UNCHANGED <<lastLimit, admitted>>
     \/ /\ call[t].of = "inc" /\ ~Exceeded(call[t])
        /\ lastLimit' = call[t].limit /\ admitted' = admitted + 1
        /\ UNCHANGED hitCount
     \/ /\ call[t].of = "rate"
        /\ UNCHANGED <<hitCount, lastLimit, admitted>>
  /\ UNCHANGED <<now, lastUpdate, incs, rates>>

RateNext ==
  \/ Tick
  \/ \E t \in LimThreads : \/ StartInc(t) \/ StartUpdateRate(t) \/ Swap(t) \/ LoadLimit(t)
                            \/ Subtract(t) \/ Floor(t) \/ Decide(t)

RateSpec == RateInit /\ [][RateNext]_rateVars

-----------------------------------------------------------------------------
AtRest == \A t \in LimThreads : call[t] = NoCall

(* From its start on, and however the steps of calls interleave, a limiter   *)
(* admits no more calls than the limit for the time that has passed, one     *)
(* interval's and one for each thread: clearing the same time twice, or a    *)
(* floor applied twice, would admit more.  (Not so for any later stretch of  *)
(* time: a call that has read the clock and is late to swap it in sets       *)
(* last_update back, and what it adds to the hits comes later still.)        *)
LongRunLimit ==
  admitted * Granularity
    <= Max(Limits) * now + (Max(Limits) + Cardinality(LimThreads)) * Granularity

(* "Handle where the limiter goes below zero": once no call is under way,    *)
(* idle time has not been saved up as credit for more than a call per thread.*)
NoCreditSaved == AtRest => hitCount >= -Granularity * Cardinality(LimThreads)
=============================================================================
