---------------------------- MODULE TraceFlusher ----------------------------
(***************************************************************************)
(* The sidecar's trace flusher: a buffer of trace payloads shared by every *)
(* connection, and the task which empties it after an interval, when the   *)
(* buffer grows large, or when somebody asks for a flush.                  *)
(*                                                                         *)
(* The task is started by the first payload stored while none runs and     *)
(* ends when it finds the buffer empty; a task is named here after the     *)
(* payload which started it.  A flush request travels through a            *)
(* ManualFuture: the buffer holds its completer, the task waits on it.     *)
(* flush() sends the sender of a channel along and returns once every copy *)
(* of that sender is gone, wherever it was dropped.                        *)
(***************************************************************************)
EXTENDS Integers, FiniteSets, FiniteSetsExt

CONSTANTS
    Payload,    \* trace payloads received over IPC, each once
    SizeOf,     \* SendData::len of a payload
    Waiter,     \* calls of flush()
    ForceFlush, \* min_force_flush_size_bytes
    ForceDrop,  \* min_force_drop_size_bytes
    Null

ASSUME FlusherAssumption ==
    /\ SizeOf \in [Payload -> Nat]
    /\ ForceFlush \in Nat /\ ForceDrop \in Nat
    /\ Null \notin Payload \cup Waiter

VARIABLES
    size,      \* traces.send_data_size
    where,     \* a payload: new, queued, dropped, sent, or in a task's batch
    completer, \* traces.force_flush: the task whose future it completes
    handle,    \* TraceFlusherData.flusher
    pc,        \* the step of each flusher task
    future,    \* the ManualFuture each task waits on
    done,      \* flush_done_sender of each task
    need,      \* what was in the buffer when flush() was called
    joined,    \* the handle join() awaits, once called
    joinNeed   \* what was not sent yet when join() was called

traces == <<size, where, completer>>
vars == <<traces, handle, pc, future, done, need, joined, joinNeed>>

Queued == {p \in Payload : where[p] = "queued"}

Batch(t) == {p \in Payload : where[p] = t}

Unsent == Queued \cup UNION {Batch(t) : t \in Payload}

Running(t) == pc[t] \notin {"unborn", "ended"}

Init ==
    /\ size = 0
    /\ where = [p \in Payload |-> "new"]
    /\ completer = Null
    /\ handle = Null
    /\ pc = [t \in Payload |-> "unborn"]
    /\ future = [t \in Payload |-> "dropped"]
    /\ done = [t \in Payload |-> Null]
    /\ need = [w \in Waiter |-> Null]
    /\ joined = "no"
    /\ joinNeed = {}

(* TraceSendData::do_flush: whoever holds the future may have dropped it.  *)
Completed(fut, c, sender) ==
    IF c # Null /\ fut[c] = "pending" THEN [fut EXCEPT ![c] = sender] ELSE fut

-----------------------------------------------------------------------------
(* enqueue, run by the handler task of a payload, also once join() was     *)
(* called.  The size counts every payload, the dropped ones included.      *)
Enqueue(p) ==
    /\ where[p] = "new"
    /\ size' = size + SizeOf[p]
    /\ IF size' > ForceDrop
       THEN /\ where' = [where EXCEPT ![p] = "dropped"]
            /\ UNCHANGED <<completer, handle, pc, future>>
       ELSE LET starts == handle = Null
                c == IF starts THEN p ELSE completer
                fut == IF starts THEN [future EXCEPT ![p] = "pending"] ELSE future
                force == size' > ForceFlush
            IN  /\ where' = [where EXCEPT ![p] = "queued"]
                /\ handle' = IF starts THEN p ELSE handle
                /\ pc' = IF starts THEN [pc EXCEPT ![p] = "select"] ELSE pc
                /\ completer' = IF force THEN Null ELSE c
                /\ future' = IF force THEN Completed(fut, c, "flush") ELSE fut
    /\ UNCHANGED <<done, need, joined, joinNeed>>

(* flush: the sender is dropped at once if there is no completer to take.  *)
Flush(w) ==
    /\ need[w] = Null
    /\ need' = [need EXCEPT ![w] = Queued]
    /\ completer' = Null
    /\ future' = Completed(future, completer, w)
    /\ UNCHANGED <<size, where, handle, pc, done, joined, joinNeed>>

(* Mutant: join forgets the task without waiting for it.                   *)
JoinDetached ==
    /\ joined = "no"
    /\ joined' = Null
    /\ handle' = Null
    /\ joinNeed' = Unsent
    /\ completer' = Null
    /\ future' = Completed(future, completer, "flush")
    /\ UNCHANGED <<size, where, pc, done, need>>

(* join: called once, when the sidecar ends.                               *)
Join ==
    /\ joined = "no"
    /\ joined' = handle
    /\ handle' = Null
    /\ joinNeed' = Unsent
    /\ completer' = Null
    /\ future' = Completed(future, completer, "flush")
    /\ UNCHANGED <<size, where, pc, done, need>>

-----------------------------------------------------------------------------
(* The select of the flusher task: the sleep drops the future, even one    *)
(* which was just completed.                                               *)
Sleep(t) ==
    /\ pc[t] = "select"
    /\ pc' = [pc EXCEPT ![t] = "replace"]
    /\ future' = [future EXCEPT ![t] = "dropped"]
    /\ UNCHANGED <<traces, handle, done, need, joined, joinNeed>>

(* The select of the flusher task: a flush was requested.                  *)
Forced(t) ==
    /\ pc[t] = "select"
    /\ future[t] \in Waiter \cup {"flush"}
    /\ pc' = [pc EXCEPT ![t] = "replace"]
    /\ done' = [done EXCEPT ![t] = IF future[t] \in Waiter THEN future[t] ELSE Null]
    /\ future' = [future EXCEPT ![t] = "dropped"]
    /\ UNCHANGED <<traces, handle, need, joined, joinNeed>>

(* Mutant: the task takes one payload and leaves the others.               *)
ReplaceOne(t) ==
    /\ pc[t] = "replace"
    /\ pc' = [pc EXCEPT ![t] = "send"]
    /\ \E p \in Queued : where' = [where EXCEPT ![p] = t]
    /\ size' = size - 1
    /\ completer' = t
    /\ future' = [future EXCEPT ![t] = "pending"]
    /\ UNCHANGED <<handle, done, need, joined, joinNeed>>

(* replace_trace_send_data, with the future of the next round.             *)
Replace(t) ==
    /\ pc[t] = "replace"
    /\ pc' = [pc EXCEPT ![t] = "send"]
    /\ where' = [p \in Payload |-> IF p \in Queued THEN t ELSE where[p]]
    /\ size' = 0
    /\ completer' = t
    /\ future' = [future EXCEPT ![t] = "pending"]
    /\ UNCHANGED <<handle, done, need, joined, joinNeed>>

(* send_and_handle_trace of one payload: delivered, or given up on.        *)
Send(t, p) ==
    /\ pc[t] = "send"
    /\ p \in Batch(t)
    /\ where' = [where EXCEPT ![p] = "sent"]
    /\ UNCHANGED <<size, completer, handle, pc, future, done, need, joined, joinNeed>>

(* Mutant: the sender is never dropped.                                    *)
SentKept(t) ==
    /\ pc[t] = "send"
    /\ Batch(t) = {}
    /\ pc' = [pc EXCEPT ![t] = "settle"]
    /\ UNCHANGED <<traces, handle, future, done, need, joined, joinNeed>>

(* The end of join_all, and drop(flush_done_sender).                       *)
Sent(t) ==
    /\ pc[t] = "send"
    /\ Batch(t) = {}
    /\ pc' = [pc EXCEPT ![t] = "settle"]
    /\ done' = [done EXCEPT ![t] = Null]
    /\ UNCHANGED <<traces, handle, future, need, joined, joinNeed>>

(* Mutant: the task ends after each batch.                                 *)
SettleAlways(t) ==
    /\ pc[t] = "settle"
    /\ pc' = [pc EXCEPT ![t] = "ended"]
    /\ handle' = Null
    /\ future' = [future EXCEPT ![t] = "dropped"]
    /\ UNCHANGED <<traces, done, need, joined, joinNeed>>

(* Mutant: the task gives up its handle after each batch and goes on.      *)
SettleReleased(t) ==
    /\ pc[t] = "settle"
    /\ handle' = Null
    /\ IF Queued = {}
       THEN /\ pc' = [pc EXCEPT ![t] = "ended"]
            /\ future' = [future EXCEPT ![t] = "dropped"]
       ELSE /\ pc' = [pc EXCEPT ![t] = "select"]
            /\ UNCHANGED future
    /\ UNCHANGED <<traces, done, need, joined, joinNeed>>

(* The end of a round, under the lock: the task ends on an empty buffer.   *)
Settle(t) ==
    /\ pc[t] = "settle"
    /\ IF Queued = {}
       THEN /\ pc' = [pc EXCEPT ![t] = "ended"]
            /\ handle' = Null
            /\ future' = [future EXCEPT ![t] = "dropped"]
       ELSE /\ pc' = [pc EXCEPT ![t] = "select"]
            /\ UNCHANGED <<handle, future>>
    /\ UNCHANGED <<traces, done, need, joined, joinNeed>>

Step(t) ==
    \/ Sleep(t) \/ Forced(t) \/ Replace(t) \/ Sent(t) \/ Settle(t)
    \/ \E p \in Payload : Send(t, p)

Next ==
    \/ \E p \in Payload : Enqueue(p) \/ Step(p)
    \/ \E w \in Waiter : Flush(w)
    \/ Join

Spec == Init /\ [][Next]_vars

(* The runtime polls a task which is ready, the sleep ends, and a request  *)
(* is answered or times out.                                               *)
FairSpec == Spec /\ \A t \in Payload : WF_vars(Step(t))

-----------------------------------------------------------------------------
(* Variables have their types, and a task waits on a future exactly from   *)
(* its start or its replacement of the buffer until its select is over.    *)
TypeOK ==
    /\ size \in Nat
    /\ where \in [Payload -> {"new", "queued", "dropped", "sent"} \cup Payload]
    /\ completer \in Payload \cup {Null}
    /\ handle \in Payload \cup {Null}
    /\ pc \in [Payload -> {"unborn", "select", "replace", "send", "settle", "ended"}]
    /\ future \in [Payload -> {"pending", "flush", "dropped"} \cup Waiter]
    /\ \A t \in Payload : future[t] = "dropped" <=> pc[t] \in {"unborn", "replace", "ended"}
    /\ done \in [Payload -> Waiter \cup {Null}]
    /\ need \in [Waiter -> SUBSET Payload \cup {Null}]
    /\ joined \in Payload \cup {"no", Null}
    /\ joinNeed \subseteq Payload

(* The size given up by the drop limit bounds what the buffer holds, and   *)
(* the size says no less than what it holds: enqueue puts "a limit on      *)
(* memory usage".                                                          *)
BufferBounded ==
    LET held == MapThenSumSet(LAMBDA p : SizeOf[p], Queued)
    IN  held <= size /\ held <= ForceDrop

(* While nobody took the handle with join(), enqueue and the end of a task *)
(* agree on whether one runs: at most one task does, and it is the one the *)
(* handle names.                                                           *)
OneFlusher == joined = "no" => {t \in Payload : Running(t)} = {handle} \ {Null}

(* A buffer larger than the force flush size has a task which empties it:  *)
(* enqueue "triggers a flush if the size exceeds the minimum force flush   *)
(* size".                                                                  *)
OverLimitFlushed == size > ForceFlush => \E t \in Payload : Running(t)

(* A flush request which reached the task covers all the buffer held at    *)
(* the call: what is not sent yet is in the task's batch, or about to be,  *)
(* or, once join() let another task start, in that one's.  A request with  *)
(* no completer to take, or whose future the sleep drops, does not reach   *)
(* the task, and flush() returns at once.                                  *)
FlushCovers ==
    \A t \in Payload : done[t] # Null =>
        need[done[t]] \cap Unsent
            \subseteq (IF pc[t] = "replace" THEN Queued ELSE {})
                      \cup UNION {Batch(u) : u \in IF joined = "no" THEN {t} ELSE Payload}

SenderAlive(w) == \E t \in Payload : future[t] = w \/ done[t] = w

JoinReturned == joined # "no" /\ (joined # Null => pc[joined] = "ended")

(* join(), "flush the remaining traces": when it returns they were sent,   *)
(* unless a payload stored after the call started another task, and that   *)
(* one took them from the buffer and is sending them.                      *)
JoinSent ==
    JoinReturned =>
        \A p \in joinNeed \cap Unsent : where[p] # "queued" /\ where[p] # joined

(* A stored payload is eventually taken and sent: no end of a task and no  *)
(* join leaves it in the buffer.                                           *)
EventuallySent == \A p \in Payload : where[p] = "queued" ~> where[p] = "sent"

(* Neither flush() nor join() waits forever.                               *)
WaitersReturn ==
    /\ \A w \in Waiter : need[w] # Null ~> ~SenderAlive(w)
    /\ joined # "no" ~> JoinReturned
=============================================================================
