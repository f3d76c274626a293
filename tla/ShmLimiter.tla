----------------------------- MODULE ShmLimiter -----------------------------
(***************************************************************************)
(* The rate limiters in shared memory, ipc/src/rate_limiter.rs: slots with *)
(* a reference count, and a lock-free free list through them.  Slots that  *)
(* were never used end the list: their next_free is 0, which stands for    *)
(* the slot above.  Threads of the sidecar allocate, one at a time, under  *)
(* the mutex around the ShmLimiterMemory (SHM_LIMITER and                  *)
(* EXCEPTION_HASH_LIMITER); the sidecar and tracers, which look slots up   *)
(* by their index, drop references at any time.  The slots are those of    *)
(* the first page, which every process has mapped from the start.          *)
(***************************************************************************)
EXTENDS Naturals, FiniteSets

CONSTANTS Allocators,   \* threads of the sidecar
          Tracers,      \* processes that use slots by index
          Slots         \* bound: the number of slots

ASSUME LimiterAssumption == Slots \in Nat /\ Allocators \cap Tracers = {}

Users == Allocators \cup Tracers
Slot == 1..Slots

VARIABLES
  head,      \* the first word: the first free slot
  nextFree,  \* nextFree[s]; 0: not yet used
  rc,        \* rc[s]
  mutex,     \* the allocator that holds the mutex, or "free"
  op,        \* op[u]: what u is in the middle of, on which slot, having read which head and next
  refs       \* refs[u]: the slots u has a ShmLimiter for

limiterVars == <<head, nextFree, rc, mutex, op, refs>>

Idle == [step |-> "idle", slot |-> 0, seen |-> 0, next |-> 0]

LimiterTypeOK ==
  /\ head \in 1..Slots + 1
  /\ nextFree \in [Slot -> 0..Slots + 1] /\ rc \in [Slot -> 0..Cardinality(Users)]
  /\ mutex \in Allocators \cup {"free"}
  /\ op \in [Users -> [step : {"idle", "pop", "init", "push", "link"},
                       slot : 0..Slots, seen : 0..Slots + 1, next : 0..Slots + 1]]
  /\ refs \in [Users -> SUBSET Slot]

(* create, on a region nobody has used.  Its "Clean leftover shm" is an      *)
(* unlink, which does not remove what shm_open made: what an earlier sidecar *)
(* left, with counts and links, is not considered here.                      *)
LimiterInit ==
  /\ head = 1 /\ nextFree = [s \in Slot |-> 0] /\ rc = [s \in Slot |-> 0]
  /\ mutex = "free" /\ op = [u \in Users |-> Idle] /\ refs = [u \in Users |-> {}]

-----------------------------------------------------------------------------
(* What follows a slot on the free list.                                     *)
Following(s) == IF nextFree[s] = 0 THEN s + 1 ELSE nextFree[s]

MutexFree(u) == mutex = "free"

(* alloc: next_free reads the head, and what follows it...                   *)
LoadHead(u) ==
  /\ op[u] = Idle /\ MutexFree(u) /\ head \in Slot
  /\ mutex' = u
  /\ op' = [op EXCEPT ![u] = [Idle EXCEPT !.step = "pop", !.seen = head, !.next = Following(head)]]
  /\ UNCHANGED <<head, nextFree, rc, refs>>

(* ... and takes it off, unless the head has moved...                        *)
Pop(u) ==
  /\ op[u].step = "pop"
  /\ \/ /\ head = op[u].seen
        /\ head' = op[u].next
        /\ op' = [op EXCEPT ![u] = [Idle EXCEPT !.step = "init", !.slot = op[u].seen]]
     \/ /\ head # op[u].seen /\ head \in Slot
        /\ op' = [op EXCEPT ![u].seen = head, ![u].next = Following(head)]
        /\ UNCHANGED head
  /\ UNCHANGED <<nextFree, rc, mutex, refs>>

(* ... and alloc_with_granularity sets it up.                                *)
SetUp(u) ==
  /\ op[u].step = "init"
  /\ rc' = [rc EXCEPT ![op[u].slot] = 1]
  /\ refs' = [refs EXCEPT ![u] = @ \cup {op[u].slot}]
  /\ op' = [op EXCEPT ![u] = Idle]
  /\ mutex' = "free"
  /\ UNCHANGED <<head, nextFree>>

GetAnyway(s) == TRUE

(* get refuses a slot nobody has.                                            *)
InUse(s) == rc[s] # 0

Get(u, s) ==
  /\ op[u] = Idle /\ s \notin refs[u] /\ InUse(s)
  /\ rc' = [rc EXCEPT ![s] = @ + 1]
  /\ refs' = [refs EXCEPT ![u] = @ \cup {s}]
  /\ UNCHANGED <<head, nextFree, mutex, op>>

(* The last reference is gone: actual_free reads the head.                   *)
StartFree(u, s) ==
  IF rc[s] = 1 THEN op' = [op EXCEPT ![u] = [Idle EXCEPT !.step = "push", !.slot = s, !.seen = head]]
               ELSE UNCHANGED op

(* Drop of a ShmLimiter.                                                     *)
DropLimiter(u, s) ==
  /\ op[u] = Idle /\ s \in refs[u]
  /\ rc' = [rc EXCEPT ![s] = @ - 1]
  /\ refs' = [refs EXCEPT ![u] = @ \ {s}]
  /\ StartFree(u, s)
  /\ UNCHANGED <<head, nextFree, mutex>>

(* drop_if_rc_1, of the sidecar's task that reclaims idle limiters; it holds *)
(* the mutex.                                                                *)
DropIfOne(u, s) ==
  /\ op[u] = Idle /\ s \in refs[u] /\ mutex = "free" /\ rc[s] = 1
  /\ mutex' = u
  /\ rc' = [rc EXCEPT ![s] = 0]
  /\ refs' = [refs EXCEPT ![u] = @ \ {s}]
  /\ StartFree(u, s)
  /\ UNCHANGED <<head, nextFree>>

(* actual_free links the slot to the head it saw...                          *)
Link(u) ==
  /\ op[u].step = "push"
  /\ nextFree' = [nextFree EXCEPT ![op[u].slot] = op[u].seen]
  /\ op' = [op EXCEPT ![u].step = "link"]
  /\ UNCHANGED <<head, rc, mutex, refs>>

PushAnyway(u) == TRUE

HeadUnmoved(u) == head = op[u].seen

(* ... and makes it the head, unless that has moved.                         *)
Push(u) ==
  /\ op[u].step = "link"
  /\ \/ /\ HeadUnmoved(u)
        /\ head' = op[u].slot
        /\ op' = [op EXCEPT ![u] = Idle]
        /\ mutex' = IF mutex = u THEN "free" ELSE mutex
     \/ /\ ~HeadUnmoved(u)
        /\ op' = [op EXCEPT ![u].step = "push", ![u].seen = head]
        /\ UNCHANGED <<head, mutex>>
  /\ UNCHANGED <<nextFree, rc, refs>>

LimiterNext ==
  \/ \E u \in Allocators : LoadHead(u) \/ Pop(u) \/ SetUp(u) \/ (\E s \in Slot : DropIfOne(u, s))
  \/ \E u \in Users : Link(u) \/ Push(u) \/ (\E s \in Slot : DropLimiter(u, s))
  \/ \E u \in Tracers, s \in Slot : Get(u, s)

LimiterSpec == LimiterInit /\ [][LimiterNext]_limiterVars

-----------------------------------------------------------------------------
(* The free list, walked from the head.                                      *)
FreeList ==
  LET walk[i \in 0..Slots] ==
        IF i = 0 THEN head ELSE IF walk[i - 1] \in Slot THEN Following(walk[i - 1]) ELSE walk[i - 1]
  IN  {walk[i] : i \in 0..Slots} \cap Slot

(* The slots in the hands of an alloc or a free that is under way.           *)
InTransit == {op[u].slot : u \in Users} \cap Slot

(* The reference count of a slot is the number of its references: no user    *)
(* has a slot that another was given, or whose count a race has lost.        *)
CountsReferences == \A s \in Slot : rc[s] = Cardinality({u \in Users : s \in refs[u]})

(* A slot is in use, on the free list or on its way from one to the other,   *)
(* and never in two of these: none is handed out twice and none is lost,     *)
(* whatever frees come between the reads and the exchanges of the list.      *)
SlotsPartitioned ==
  /\ FreeList \cap InTransit = {}
  /\ \A s \in Slot : (s \in FreeList \cup InTransit) <=> rc[s] = 0
=============================================================================
