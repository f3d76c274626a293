--------------------------- MODULE TelemetryStore ---------------------------
(***************************************************************************)
(* The bounded, deduplicating queue in which the telemetry worker keeps    *)
(* dependencies, integrations and configurations                           *)
(* (ddtelemetry/src/worker/store.rs, Store over QueueHashMap).             *)
(*                                                                         *)
(* Every item ever stored has an index; the map keeps the items of indices *)
(* popped .. popped + Len(items) - 1, and unflushed queues the indices     *)
(* whose items were not yet sent.                                          *)
(***************************************************************************)
EXTENDS Integers, Sequences, FiniteSets

CONSTANTS Item,        \* the items a worker can be handed
          MaxItems,    \* Store::new's max_items (5000 in the worker)
          MaxInserts   \* bound on the indices handed out, so that TLC stops

\* A Store has room for an item, whoever makes it.
StoreAssumption == MaxItems \in Nat \ {0} /\ MaxInserts \in Nat

VARIABLES items,     \* QueueHashMap.items, oldest first
          popped,    \* QueueHashMap.popped, index of items' head
          unflushed  \* Store.unflushed, indices into items

vars == <<items, popped, unflushed>>

Init == /\ items = <<>>
        /\ popped = 0
        /\ unflushed = <<>>

\* One past the index of the newest item.
NextIdx == popped + Len(items)

Stored == {items[i] : i \in 1..Len(items)}

\* QueueHashMap::get_idx; the code subtracts popped from an unsigned index.
GetIdx(idx) == items[idx - popped + 1]

\* pop_front of a VecDeque, which does nothing on an empty one.
PopFront(s) == IF s = <<>> THEN s ELSE Tail(s)

\* Store::insert: a known item is left alone; a full map evicts its oldest
\* item, and a full flush queue its oldest index.
Insert(x) ==
    /\ NextIdx < MaxInserts
    /\ IF x \in Stored
       THEN UNCHANGED vars
       ELSE LET full == Len(items) = MaxItems
            IN  /\ items' = Append(IF full THEN PopFront(items) ELSE items, x)
                /\ popped' = IF full THEN popped + 1 ELSE popped
                /\ unflushed' = Append(IF Len(unflushed) = MaxItems
                                       THEN PopFront(unflushed)
                                       ELSE unflushed, NextIdx)

\* Mutant: the queue is not cleared first.
UnflushStoredNoClear ==
    /\ unflushed' = unflushed \o [i \in 1..Len(items) |-> popped + i - 1]
    /\ UNCHANGED <<items, popped>>

\* Store::unflush_stored queues every stored item again.
UnflushStored ==
    /\ unflushed' = [i \in 1..Len(items) |-> popped + i - 1]
    /\ UNCHANGED <<items, popped>>

\* Store::removed_flushed: count items were sent.
RemovedFlushed(count) ==
    /\ unflushed' = SubSeq(unflushed, count + 1, Len(unflushed))
    /\ UNCHANGED <<items, popped>>

Next == \/ \E x \in Item : Insert(x)
        \/ UnflushStored
        \/ \E count \in 1..MaxItems : RemovedFlushed(count)

Spec == Init /\ [][Next]_vars

-----------------------------------------------------------------------------
\* The map holds items and the queue holds indices.
TypeOK == /\ items \in Seq(Item)
          /\ popped \in Nat
          /\ unflushed \in Seq(Nat)

\* The flush queue is the newest part of the map: its indices are
\* consecutive and end at the newest item. get_idx therefore never
\* subtracts below zero and unflushed() never skips an entry.
FlushQueueIsSuffix ==
    /\ Len(unflushed) <= Len(items)
    /\ \A i \in 1..Len(unflushed) :
          unflushed[i] = NextIdx - Len(unflushed) + i - 1

=============================================================================
