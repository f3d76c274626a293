----------------------- MODULE SpanConcentratorProofs -----------------------
(***************************************************************************)
(* For every bucket size: no bucket is older than oldest_timestamp,        *)
(* whatever the clock does, and while the clock is not set back a bucket   *)
(* that a regular flush handed over is never opened again.                 *)
(***************************************************************************)
EXTENDS SpanConcentrator, TLAPS

-----------------------------------------------------------------------------
(***************************************************************************)
(* Multiples of the bucket size.                                           *)
(***************************************************************************)

\* A number less its remainder is a multiple.
LEMMA RemainderRemoved ==
    ASSUME NEW n \in Int, NEW b \in Nat \ {0}
    PROVE  (n - (n % b)) % b = 0
OBVIOUS

\* align_timestamp moves a time back by less than a bucket, to a multiple.
LEMMA AlignProperties ==
    ASSUME NEW t \in Nat
    PROVE  /\ Align(t) \in Nat
           /\ Align(t) <= t /\ t < Align(t) + BucketSize
           /\ Align(t) % BucketSize = 0
<1>1. t % BucketSize \in 0..(BucketSize - 1)
  BY ConcentratorAssumption
<1>2. t % BucketSize <= t
  <2>1. CASE t < BucketSize
    <3>1. t % BucketSize = t
      BY <2>1, ConcentratorAssumption
    <3> QED BY <3>1
  <2>2. CASE t >= BucketSize
    BY <1>1, <2>2, ConcentratorAssumption
  <2> QED BY <2>1, <2>2, ConcentratorAssumption
<1>3. (t - (t % BucketSize)) % BucketSize = 0
  BY RemainderRemoved, ConcentratorAssumption
<1> QED BY <1>1, <1>2, <1>3, ConcentratorAssumption DEF Align

\* What align_timestamp returns and what a whole number of buckets before it
\* begins at is some multiple of the bucket size.
LEMMA IsMultiple ==
    ASSUME NEW a \in Int, a % BucketSize = 0
    PROVE  \E i \in Int : a = BucketSize * i
BY ConcentratorAssumption

\* Two starts of buckets that are less than a bucket apart are in order.
LEMMA BucketsApart ==
    ASSUME NEW a \in Int, NEW c \in Int,
           a % BucketSize = 0, c % BucketSize = 0, a > c - BucketSize
    PROVE  a >= c
<1> USE ConcentratorAssumption
<1>1. PICK i \in Int : a = BucketSize * i
  BY IsMultiple
<1>2. PICK j \in Int : c = BucketSize * j
  BY IsMultiple
<1>3. CASE i < j
  <2>1. BucketSize * i <= BucketSize * j - BucketSize
    BY <1>3
  <2> QED BY <1>1, <1>2, <2>1
<1>4. CASE i >= j
  <2>1. BucketSize * i >= BucketSize * j
    BY <1>4
  <2> QED BY <1>1, <1>2, <2>1
<1> QED BY <1>3, <1>4

\* The bucket before an aligned time is aligned.
LEMMA PreviousAligned ==
    ASSUME NEW a \in Int, a % BucketSize = 0
    PROVE  (a - BucketSize) % BucketSize = 0
<1> USE ConcentratorAssumption
<1>1. PICK i \in Int : a = BucketSize * i
  BY IsMultiple
<1>2. a - BucketSize = BucketSize * (i - 1)
  BY <1>1
<1> QED BY <1>2

\* What a flush makes oldest_timestamp is aligned, and the clock is less than
\* two buckets ahead of it.
LEMMA OldestAfterProperties ==
    ASSUME now \in Nat, now >= Epoch, NEW force \in BOOLEAN
    PROVE  /\ OldestAfter(force) \in Nat
           /\ OldestAfter(force) % BucketSize = 0
           /\ now < OldestAfter(force) + BufferLen * BucketSize
<1> USE ConcentratorAssumption DEF OldestAfter, BufferLen, Epoch
<1>1. Align(now) \in Nat /\ now < Align(now) + BucketSize /\ Align(now) % BucketSize = 0
  BY AlignProperties
<1>2. (Align(now) - BucketSize) % BucketSize = 0
  BY <1>1, PreviousAligned
<1>3. CASE force
  BY <1>1, <1>3
<1>4. CASE ~force
  <2>1. OldestAfter(force) = Align(now) - BucketSize
    BY <1>1, <1>4
  <2> QED BY <1>1, <1>2, <2>1
<1> QED BY <1>3, <1>4

-----------------------------------------------------------------------------
\* The clock stays beyond the second bucket after 1970, and every bucket is
\* allowed.
AllowedInv == /\ now \in Nat /\ now >= Epoch
              /\ oldest \in Nat
              /\ DOMAIN buckets \subseteq Nat
              /\ BucketsAllowed

\* A new concentrator has no bucket and starts at the current one.
LEMMA AllowedInit == Init => AllowedInv
BY AlignProperties, ConcentratorAssumption
   DEF Init, AllowedInv, BucketsAllowed, Epoch, BufferLen

\* add_span opens a bucket at or after oldest_timestamp, and a flush keeps
\* none that begins before the one it sets.
LEMMA AllowedStep == AllowedInv /\ [Next]_vars => AllowedInv'
<1> SUFFICES ASSUME AllowedInv, [Next]_vars PROVE AllowedInv'
  OBVIOUS
<1> USE DEF AllowedInv, BucketsAllowed
<1>1. ASSUME NEW s \in Span, NEW end \in 0..(now + Skew), AddSpan(s, end) PROVE AllowedInv'
  <2>1. end \in Nat
    BY ConcentratorAssumption
  <2>2. BucketOf(end) \in Nat /\ BucketOf(end) >= oldest /\ BucketOf(end) % BucketSize = 0
    BY <2>1, AlignProperties DEF BucketOf
  <2>3. DOMAIN buckets' \subseteq DOMAIN buckets \cup {BucketOf(end)}
    BY <1>1 DEF AddSpan, Counted
  <2> QED BY <1>1, <2>2, <2>3 DEF AddSpan
<1>2. ASSUME NEW ks \in KindSets, NEW tags \in BOOLEAN, Configure(ks, tags) PROVE AllowedInv'
  BY <1>2 DEF Configure
<1>3. ASSUME NEW force \in BOOLEAN, Flush(force) PROVE AllowedInv'
  <2>1. /\ oldest' = OldestAfter(force)
        /\ DOMAIN buckets' = Kept(force)
        /\ now' = now
    BY <1>3 DEF Flush
  <2>2. /\ OldestAfter(force) \in Nat
        /\ OldestAfter(force) % BucketSize = 0
        /\ now < OldestAfter(force) + BufferLen * BucketSize
    BY OldestAfterProperties
  <2>3. ASSUME NEW t \in Kept(force) PROVE t >= OldestAfter(force)
    <3>1. t \in Nat /\ t % BucketSize = 0 /\ t > now - BufferLen * BucketSize /\ ~force
      BY <2>3 DEF Kept
    <3>2. Align(now) \in Nat /\ Align(now) <= now
      BY AlignProperties
    <3>3. OldestAfter(force) = Align(now) - BucketSize
      BY <3>1, <3>2, ConcentratorAssumption DEF OldestAfter, BufferLen
    <3>4. t > OldestAfter(force) - BucketSize
      BY <3>1, <3>2, <3>3, ConcentratorAssumption DEF BufferLen
    <3> QED BY <2>2, <3>1, <3>4, BucketsApart
  <2> QED BY <2>1, <2>2, <2>3 DEF Kept
<1>4. ASSUME NEW t \in Epoch..MaxTime, Tick(t) PROVE AllowedInv'
  BY <1>4, ConcentratorAssumption DEF Tick, Epoch, BufferLen
<1>5. CASE UNCHANGED vars
  BY <1>5 DEF vars
<1> QED BY <1>1, <1>2, <1>3, <1>4, <1>5 DEF Next

\* The doc comment of oldest_timestamp holds in every reachable state, for
\* every bucket size and with a clock that may be set back.
THEOREM NoBucketTooOld == Spec => []BucketsAllowed
<1>1. AllowedInv => BucketsAllowed
  BY DEF AllowedInv
<1> QED BY AllowedInit, AllowedStep, <1>1, PTL DEF Spec

-----------------------------------------------------------------------------
\* A bucket that was handed over began at least buffer_len buckets ago.
RetiredInv == /\ AllowedInv
              /\ \A t \in retired : t \in Nat /\ t <= now - BufferLen * BucketSize
              /\ RetiredClosed

\* A step of the concentrator keeps handed-over buckets closed.
LEMMA RetiredStep == RetiredInv /\ [Next]_vars => RetiredInv'
<1> SUFFICES ASSUME RetiredInv, [Next]_vars PROVE RetiredInv'
  OBVIOUS
<1>0. AllowedInv'
  BY AllowedStep DEF RetiredInv
<1> USE DEF RetiredInv, RetiredClosed
<1>1. ASSUME NEW s \in Span, NEW end \in 0..(now + Skew), AddSpan(s, end) PROVE RetiredInv'
  BY <1>0, <1>1 DEF AddSpan, AllowedInv, BucketsAllowed
<1>2. ASSUME NEW ks \in KindSets, NEW tags \in BOOLEAN, Configure(ks, tags) PROVE RetiredInv'
  BY <1>0, <1>2 DEF Configure
<1>3. ASSUME NEW force \in BOOLEAN, Flush(force) PROVE RetiredInv'
  <2>1. oldest' \in Nat /\ now < oldest' + BufferLen * BucketSize /\ now' = now
    BY <1>3, OldestAfterProperties DEF Flush, AllowedInv
  <2>2. ASSUME NEW t \in retired' PROVE t \in Nat /\ t <= now - BufferLen * BucketSize
    <3>1. CASE t \in retired
      BY <3>1
    <3>2. CASE t \notin retired
      <4>1. ~force /\ t \in DOMAIN buckets /\ t \notin Kept(force)
        BY <1>3, <2>2, <3>2 DEF Flush
      <4> QED BY <4>1, ConcentratorAssumption DEF Kept, AllowedInv, BufferLen
    <3> QED BY <3>1, <3>2
  <2>3. ASSUME NEW t \in retired' PROVE t < oldest' /\ t \notin DOMAIN buckets'
    <3>1. t \in Nat /\ t <= now - BufferLen * BucketSize /\ now \in Nat
      BY <2>2, <2>3 DEF AllowedInv
    <3>2. BufferLen * BucketSize \in Nat
      BY ConcentratorAssumption DEF BufferLen
    <3>3. t < oldest'
      <4> HIDE DEF RetiredInv, RetiredClosed
      <4> QED BY <2>1, <3>1, <3>2
    <3> QED BY <1>0, <2>1, <3>1, <3>3 DEF AllowedInv, BucketsAllowed
  <2> QED BY <1>0, <2>1, <2>2, <2>3
<1>4. ASSUME NEW t \in Epoch..MaxTime, Tick(t) PROVE RetiredInv'
  <2>1. now' = t /\ t \in Nat /\ now \in Nat
    BY <1>4, ConcentratorAssumption DEF Tick, Epoch, BufferLen, AllowedInv
  <2>2. CASE t < now
    BY <1>0, <1>4, <2>1, <2>2 DEF Tick
  <2>3. CASE t >= now
    <3>1. \A u \in retired : u <= t - BufferLen * BucketSize
      BY <2>1, <2>3, ConcentratorAssumption DEF BufferLen
    <3> QED BY <1>0, <1>4, <2>1, <2>3, <3>1 DEF Tick
  <2> QED BY <2>1, <2>2, <2>3
<1>5. CASE UNCHANGED vars
  BY <1>0, <1>5 DEF vars
<1> QED BY <1>1, <1>2, <1>3, <1>4, <1>5 DEF Next

\* Until the clock is set back, no bucket a regular flush handed over is
\* opened again, so StatsExporter sends no bucket start twice.
THEOREM HandedOverStaysClosed == Spec => []RetiredClosed
<1>1. Init => RetiredInv
  <2>1. Init => AllowedInv
    BY AllowedInit
  <2>2. Init => retired = {}
    BY DEF Init
  <2> QED BY <2>1, <2>2 DEF RetiredInv, RetiredClosed
<1>2. RetiredInv => RetiredClosed
  BY DEF RetiredInv
<1> QED BY <1>1, RetiredStep, <1>2, PTL DEF Spec

=============================================================================
