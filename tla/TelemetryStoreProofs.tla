------------------------ MODULE TelemetryStoreProofs ------------------------
(***************************************************************************)
(* The flush queue of the telemetry store is a suffix of its item map, for *)
(* every capacity and every set of items.                                  *)
(***************************************************************************)
EXTENDS TelemetryStore, SequenceTheorems, TLAPS

\* The inductive invariant: neither queue outgrows max_items, and the flush
\* queue is the tail of the map.
StoreInv == /\ TypeOK
            /\ Len(items) <= MaxItems
            /\ FlushQueueIsSuffix

\* The empty store Store::new returns satisfies the invariant.
LEMMA StoreInit == ASSUME StoreAssumption PROVE Init => StoreInv
BY DEF StoreAssumption, Init, StoreInv, TypeOK, FlushQueueIsSuffix, NextIdx

\* insert, unflush_stored and removed_flushed preserve the invariant.
LEMMA StoreStep == ASSUME StoreAssumption PROVE StoreInv /\ [Next]_vars => StoreInv'
<1> SUFFICES ASSUME StoreInv, [Next]_vars PROVE StoreInv'
  OBVIOUS
<1> USE DEF StoreAssumption, StoreInv, TypeOK, FlushQueueIsSuffix, NextIdx
<1>1. ASSUME NEW x \in Item, Insert(x) PROVE StoreInv'
  <2>1. CASE x \in Stored
    BY <1>1, <2>1 DEF Insert, vars
  <2>2. CASE x \notin Stored /\ Len(items) # MaxItems
    <3>1. Len(items) < MaxItems /\ Len(unflushed) < MaxItems
      BY <2>2
    <3>2. /\ items' = Append(items, x)
          /\ popped' = popped
          /\ unflushed' = Append(unflushed, popped + Len(items))
      BY <1>1, <2>2, <3>1 DEF Insert
    <3> QED BY <3>1, <3>2
  <2>3. CASE x \notin Stored /\ Len(items) = MaxItems
    <3>1. items # <<>> /\ Tail(items) \in Seq(Item) /\ Len(Tail(items)) = MaxItems - 1
      BY <2>3
    <3>2. /\ items' = Append(Tail(items), x)
          /\ popped' = popped + 1
      BY <1>1, <2>3, <3>1 DEF Insert, PopFront
    <3>p. popped' = popped + 1
      BY <3>2
    <3>3. CASE Len(unflushed) = MaxItems
      <4>1. /\ unflushed # <<>>
            /\ Tail(unflushed) \in Seq(Nat)
            /\ Len(Tail(unflushed)) = MaxItems - 1
            /\ \A i \in 1..MaxItems - 1 : Tail(unflushed)[i] = unflushed[i + 1]
        BY <3>3
      <4>2. unflushed' = Append(Tail(unflushed), popped + MaxItems)
        BY <1>1, <2>3, <3>3, <4>1 DEF Insert, PopFront
      <4>3. TypeOK' /\ Len(items') = MaxItems /\ Len(unflushed') = MaxItems
        BY <3>1, <3>2, <4>1, <4>2
      <4>4. ASSUME NEW i \in 1..MaxItems PROVE unflushed'[i] = popped + i
        <5>1. CASE i = MaxItems
          BY <4>1, <4>2, <5>1
        <5>2. CASE i # MaxItems
          <6>1. unflushed'[i] = unflushed[i + 1]
            BY <4>1, <4>2, <5>2
          <6> QED BY <2>3, <3>3, <5>2, <6>1
        <5> QED BY <5>1, <5>2
      <4>5. ASSUME NEW i \in 1..Len(unflushed')
            PROVE  unflushed'[i] = NextIdx' - Len(unflushed') + i - 1
        BY <3>p, <4>3, <4>4
      <4>6. FlushQueueIsSuffix'
        BY <4>3, <4>5
      <4> QED BY <4>3, <4>6
    <3>4. CASE Len(unflushed) # MaxItems
      <4>1. unflushed' = Append(unflushed, popped + MaxItems)
        BY <1>1, <2>3, <3>4 DEF Insert
      <4>2. Len(unflushed) < MaxItems
        BY <3>4
      <4>3. /\ TypeOK'
            /\ Len(items') = MaxItems
            /\ Len(unflushed') = Len(unflushed) + 1
        BY <3>1, <3>2, <4>1
      <4>4. ASSUME NEW i \in 1..Len(unflushed) + 1
            PROVE  unflushed'[i] = popped + MaxItems - Len(unflushed) + i - 1
        BY <2>3, <4>1, <4>2
      <4>5. ASSUME NEW i \in 1..Len(unflushed')
            PROVE  unflushed'[i] = NextIdx' - Len(unflushed') + i - 1
        BY <3>p, <4>3, <4>4
      <4>6. FlushQueueIsSuffix'
        BY <4>2, <4>3, <4>5
      <4> QED BY <4>3, <4>6
    <3> QED BY <3>3, <3>4
  <2> QED BY <2>1, <2>2, <2>3
<1>2. CASE UnflushStored
  BY <1>2 DEF UnflushStored
<1>3. ASSUME NEW count \in 1..MaxItems, RemovedFlushed(count) PROVE StoreInv'
  <2>1. CASE count >= Len(unflushed)
    <3>1. unflushed' = <<>>
      BY <1>3, <2>1 DEF RemovedFlushed
    <3>2. items' = items /\ popped' = popped
      BY <1>3 DEF RemovedFlushed
    <3>3. Len(unflushed') = 0 /\ unflushed' \in Seq(Nat)
      BY <3>1
    <3> QED BY <3>2, <3>3
  <2>2. CASE count < Len(unflushed)
    <3>1. /\ unflushed' \in Seq(Nat)
          /\ Len(unflushed') = Len(unflushed) - count
          /\ \A i \in 1..Len(unflushed) - count : unflushed'[i] = unflushed[count + i]
      BY <1>3, <2>2, SubSeqProperties DEF RemovedFlushed
    <3>2. items' = items /\ popped' = popped
      BY <1>3 DEF RemovedFlushed
    <3>3. ASSUME NEW i \in 1..Len(unflushed)'
          PROVE  unflushed'[i] = popped + Len(items) - Len(unflushed)' + i - 1
      <4>1. i \in 1..Len(unflushed) - count /\ count + i \in 1..Len(unflushed)
        BY <2>2, <3>1
      <4> QED BY <2>2, <3>1, <4>1
    <3>4. TypeOK' /\ Len(items') <= MaxItems
      BY <3>1, <3>2
    <3>5. FlushQueueIsSuffix'
      BY <3>1, <3>2, <3>3
    <3> QED BY <3>4, <3>5
  <2> QED BY <2>1, <2>2
<1>4. CASE UNCHANGED vars
  BY <1>4 DEF vars
<1> QED BY <1>1, <1>2, <1>3, <1>4 DEF Next

\* In every reachable state of every store the queue of unsent indices is the
\* newest part of the item map, so get_idx never subtracts below zero.
THEOREM FlushQueueSuffix == ASSUME StoreAssumption PROVE Spec => []FlushQueueIsSuffix
<1>1. Init => StoreInv
  BY StoreInit
<1>2. StoreInv /\ [Next]_vars => StoreInv'
  BY StoreStep
<1>3. StoreInv => FlushQueueIsSuffix
  BY DEF StoreInv
<1> QED BY <1>1, <1>2, <1>3, PTL DEF Spec

=============================================================================
