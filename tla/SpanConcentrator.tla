-------------------------- MODULE SpanConcentrator --------------------------
(***************************************************************************)
(* The SpanConcentrator (data-pipeline/src/span_concentrator/mod.rs and    *)
(* aggregation.rs): spans are counted in time buckets by their end time,   *)
(* and a flush hands over the buckets that are old enough.                 *)
(*                                                                         *)
(* Times are natural numbers; a flush reads the system clock, which runs   *)
(* ahead freely and, with ClockBack, may be set back.                      *)
(***************************************************************************)
EXTENDS Integers, FiniteSets, FiniteSetsExt

CONSTANTS Span,        \* what spans look like: [resource, kind, peer, top, measured, partial]
          KindSets,    \* values of span_kinds_stats_computed the agent sends
          BucketSize,  \* nanoseconds in a bucket, scaled down
          MaxTime,     \* bound on the clock
          Skew,        \* how far beyond the clock a span may end
          ClockBack,   \* TRUE: the clock may be set back
          MaxSpans     \* bound on the spans aggregated

\* buffer_len: the current bucket and the previous one.
BufferLen == 2

\* The clock is at least two buckets after 1970.
Epoch == BufferLen * BucketSize

ASSUME ConcentratorAssumption == /\ BucketSize \in Nat \ {0}
                                 /\ MaxTime \in Nat /\ Skew \in Nat
                                 /\ ClockBack \in BOOLEAN
                                 /\ MaxSpans \in Nat

VARIABLES buckets,   \* start -> (aggregation key -> hits)
          oldest,    \* oldest_timestamp
          kinds,     \* span_kinds_stats_computed
          peerTags,  \* peer_tag_keys is not empty
          now,       \* the system clock
          retired,   \* starts of the buckets regular flushes handed over since
                     \* the clock was last set back
          handed,    \* hits handed over
          added      \* spans aggregated

vars == <<buckets, oldest, kinds, peerTags, now, retired, handed, added>>

\* align_timestamp.
Align(t) == t - (t % BucketSize)

Init == /\ now \in Epoch..MaxTime
        /\ oldest = Align(now)
        /\ buckets = <<>>
        /\ kinds \in KindSets /\ peerTags \in BOOLEAN
        /\ retired = {} /\ handed = 0 /\ added = 0

-----------------------------------------------------------------------------
\* should_ignore_span.
Ignored(s) == ~(s.top \/ s.measured \/ s.kind \in kinds) \/ s.partial

\* AggregationKey::from_span: peer tags count for clients and producers only.
AggregationKey(s) ==
    <<s.resource, s.kind, IF peerTags /\ s.kind \in {"client", "producer"} THEN s.peer ELSE "none">>

\* A span that is too old goes to the oldest bucket that is still allowed.
BucketOf(end) == IF Align(end) < oldest THEN oldest ELSE Align(end)

\* Mutant: the key replaces what its bucket held.
CountedAlone(t, key) ==
    [u \in DOMAIN buckets \cup {t} |-> IF u = t THEN [k \in {key} |-> 1] ELSE buckets[u]]

\* StatsBucket::insert.
Counted(t, key) ==
    LET old  == IF t \in DOMAIN buckets THEN buckets[t] ELSE <<>>
        hits == [k \in DOMAIN old \cup {key} |->
                   (IF k \in DOMAIN old THEN old[k] ELSE 0) + (IF k = key THEN 1 ELSE 0)]
    IN  [u \in DOMAIN buckets \cup {t} |-> IF u = t THEN hits ELSE buckets[u]]

AddSpan(s, end) ==
    /\ added < MaxSpans
    /\ IF Ignored(s)
       THEN UNCHANGED <<buckets, added>>
       ELSE /\ buckets' = Counted(BucketOf(end), AggregationKey(s))
            /\ added' = added + 1
    /\ UNCHANGED <<oldest, kinds, peerTags, now, retired, handed>>

\* set_span_kinds and set_peer_tags, one after the other under the lock.
Configure(ks, tags) ==
    /\ kinds' = ks /\ peerTags' = tags
    /\ UNCHANGED <<buckets, oldest, now, retired, handed, added>>

Hits(b) == MapThenSumSet(LAMBDA k : b[k], DOMAIN b)
HitsIn(bs, T) == MapThenSumSet(LAMBDA t : Hits(bs[t]), T)

\* The buckets a flush keeps.
Kept(force) == {t \in DOMAIN buckets : ~force /\ t > now - BufferLen * BucketSize}

\* Mutant: buffer_len is off by two.
OldestAfterEarlier(force) ==
    IF force THEN Align(now) ELSE Align(now) - (BufferLen + 1) * BucketSize

OldestAfter(force) ==
    IF force THEN Align(now) ELSE Align(now) - (BufferLen - 1) * BucketSize

Flush(force) ==
    LET gone == DOMAIN buckets \ Kept(force)
    IN  /\ oldest' = OldestAfter(force)
        /\ buckets' = [t \in Kept(force) |-> buckets[t]]
        /\ retired' = IF force THEN retired ELSE retired \cup gone
        /\ handed' = handed + HitsIn(buckets, gone)
        /\ UNCHANGED <<kinds, peerTags, now, added>>

\* The system clock.
Tick(t) ==
    /\ t > now \/ ClockBack
    /\ now' = t
    /\ retired' = IF t < now THEN {} ELSE retired
    /\ UNCHANGED <<buckets, oldest, kinds, peerTags, handed, added>>

Next == \/ \E s \in Span, end \in 0..(now + Skew) : AddSpan(s, end)
        \/ \E ks \in KindSets, tags \in BOOLEAN : Configure(ks, tags)
        \/ \E force \in BOOLEAN : Flush(force)
        \/ \E t \in Epoch..MaxTime : Tick(t)

Spec == Init /\ [][Next]_vars

-----------------------------------------------------------------------------
\* Times stay natural numbers, so the u64 subtractions of flush do not wrap, and
\* no group is empty.
TypeOK ==
    /\ \A t \in DOMAIN buckets : t \in Nat /\ \A k \in DOMAIN buckets[t] : buckets[t][k] \in Nat \ {0}
    /\ oldest \in Nat
    /\ now \in Epoch..MaxTime
    /\ handed \in Nat /\ added \in Nat

\* The doc comment of oldest_timestamp, "oldest time bucket for which we allow
\* data": every bucket is aligned and none is older, whatever the clock did.
BucketsAllowed ==
    /\ oldest % BucketSize = 0
    /\ \A t \in DOMAIN buckets : t % BucketSize = 0 /\ t >= oldest

\* A bucket a regular flush handed over is closed: no later span, however
\* late, opens a bucket with that start again, so no bucket is sent twice
\* unless the clock was set back in between.
RetiredClosed ==
    \A t \in retired : t < oldest /\ t \notin DOMAIN buckets

\* Every aggregated span is in exactly one bucket, kept or handed over.
HitsConserved == added = handed + HitsIn(buckets, DOMAIN buckets)

=============================================================================
