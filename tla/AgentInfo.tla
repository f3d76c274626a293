----------------------------- MODULE AgentInfo -----------------------------
(***************************************************************************)
(* The sidecar's agent-info fetchers (sidecar/src/service/agent_info.rs).  *)
(* One map, behind a mutex, holds a reference-counted entry per endpoint;  *)
(* query_for hands out guards, and a task per entry polls the agent until  *)
(* the entry has been unused for a minute and then removes it.  The map is *)
(* locked once for the test that ends the task and once more for the       *)
(* removal; those are two steps here, as they are in the code.             *)
(*                                                                         *)
(* Elapsed time is abstracted to the flag stale of an entry: more than 60  *)
(* seconds have passed since its last_update.                              *)
(***************************************************************************)
EXTENDS Naturals, FiniteSets, TLC, Functions

CONSTANTS Endpoints,  \* the agent endpoints of the sessions
          Guards,     \* identities for the guards handed out
          Tasks       \* identities for the fetcher tasks spawned

VARIABLES
  entry,      \* the map: a record for every endpoint it knows
  guard,      \* guard[g]: the endpoint of a live guard, or None
  task,       \* task[t]: the endpoint and the point a fetcher task has reached
  poisoned    \* an unwrap() of a missing entry, or a counter below zero, has
              \* poisoned the mutex: nobody gets past lock().unwrap() again

vars == <<entry, guard, task, poisoned>>

None == "none"

NoTask == [at |-> "unused", endpoint |-> None, completed |-> FALSE]

AgentInfoTypeOK ==
  /\ DOMAIN entry \subseteq Endpoints
  /\ \A e \in DOMAIN entry :
       entry[e] \in [rc : 0..Cardinality(Guards), stale : BOOLEAN, known : BOOLEAN]
  /\ guard \in [Guards -> Endpoints \cup {None}]
  /\ task \in [Tasks -> [at : {"unused", "fetch", "remove", "done"},
                         endpoint : Endpoints \cup {None}, completed : BOOLEAN]]
  /\ poisoned \in BOOLEAN

Init ==
  /\ entry = <<>>
  /\ guard = [g \in Guards |-> None]
  /\ task = [t \in Tasks |-> NoTask]
  /\ poisoned = FALSE

Known(e) == e \in DOMAIN entry

(* A new entry starts with one reference and a task that fetches for it. *)
NewFetcher(e) ==
  \E t \in Tasks :
    /\ task[t].at = "unused"
    /\ task' = [task EXCEPT ![t] = [at |-> "fetch", endpoint |-> e, completed |-> FALSE]]
    /\ entry' = (e :> [rc |-> 1, stale |-> FALSE, known |-> FALSE]) @@ entry

QueryAlwaysSpawns(g, e) ==
  /\ ~poisoned
  /\ guard[g] = None
  /\ guard' = [guard EXCEPT ![g] = e]
  /\ NewFetcher(e)
  /\ UNCHANGED poisoned

(* AgentInfos::query_for: take a reference or make the entry. *)
QueryFor(g, e) ==
  /\ ~poisoned
  /\ guard[g] = None
  /\ guard' = [guard EXCEPT ![g] = e]
  /\ IF Known(e)
     THEN entry' = [entry EXCEPT ![e].rc = @ + 1] /\ UNCHANGED task
     ELSE NewFetcher(e)
  /\ UNCHANGED poisoned

(* AgentInfoGuard::get: unwraps the entry of the guard's endpoint. *)
GetInfos(g) ==
  /\ ~poisoned
  /\ guard[g] # None
  /\ poisoned' = (poisoned \/ ~Known(guard[g]))
  /\ UNCHANGED <<entry, guard, task>>

(* Drop for AgentInfoGuard: unwraps the entry and gives the reference back. *)
DropGuard(g) ==
  /\ ~poisoned
  /\ guard[g] # None
  /\ guard' = [guard EXCEPT ![g] = None]
  /\ LET e == guard[g]  IN
     IF Known(e) /\ entry[e].rc > 0
     THEN /\ entry' = [entry EXCEPT ![e].rc = @ - 1, ![e].stale = FALSE]
          /\ UNCHANGED poisoned
     ELSE poisoned' = TRUE /\ UNCHANGED entry
  /\ UNCHANGED task

(* A minute passes without a guard of e being dropped. *)
Age(e) ==
  /\ Known(e)
  /\ ~entry[e].stale
  /\ entry' = [entry EXCEPT ![e].stale = TRUE]
  /\ UNCHANGED <<guard, task, poisoned>>

Idle(e) == entry[e].rc = 0 /\ entry[e].stale

(* One turn of the loop in the spawned task: the fetch has ended, with new   *)
(* infos or without.  An idle entry ends the loop; otherwise the first infos *)
(* complete the future handed out, later ones replace it.  (The unwrap() of  *)
(* the task's own entry never fails: EntryServed.)                           *)
Fetched(t, new) ==
  LET e == task[t].endpoint  IN
  /\ ~poisoned
  /\ task[t].at = "fetch"
  /\ \/ /\ Idle(e)
        /\ task' = [task EXCEPT ![t].at = "remove"]
        /\ UNCHANGED entry
     \/ /\ ~Idle(e) /\ new
        /\ task' = [task EXCEPT ![t].completed = TRUE]
        /\ entry' = [entry EXCEPT ![e].known = TRUE]
     \/ /\ ~Idle(e) /\ ~new
        /\ UNCHANGED <<entry, task>>
  /\ UNCHANGED <<guard, poisoned>>

RemovalForgotten(t) ==
  /\ ~poisoned
  /\ task[t].at = "remove"
  /\ task' = [task EXCEPT ![t].at = "done"]
  /\ UNCHANGED <<entry, guard, poisoned>>

(* The task locks the map again and removes the entry. *)
RemoveEntry(t) ==
  /\ ~poisoned
  /\ task[t].at = "remove"
  /\ entry' = Restrict(entry, DOMAIN entry \ {task[t].endpoint})
  /\ task' = [task EXCEPT ![t].at = "done"]
  /\ UNCHANGED <<guard, poisoned>>

Next ==
  \/ \E g \in Guards, e \in Endpoints : QueryFor(g, e)
  \/ \E g \in Guards : GetInfos(g) \/ DropGuard(g)
  \/ \E e \in Endpoints : Age(e)
  \/ \E t \in Tasks, new \in BOOLEAN : Fetched(t, new)
  \/ \E t \in Tasks : RemoveEntry(t)

Spec == Init /\ [][Next]_vars

(***************************************************************************)
(* "It will keep one fetcher per Endpoint" (agent_info.rs:5): at no time   *)
(* do two tasks poll, or are about to remove, the same endpoint, however   *)
(* queries interleave with the task that is giving its entry up.           *)
(***************************************************************************)
OneFetcher ==
  \A t, u \in Tasks :
    (t # u /\ task[t].endpoint = task[u].endpoint /\ task[t].endpoint # None)
      => (task[t].at = "done" \/ task[u].at = "done")

(***************************************************************************)
(* Every entry has a task, in the state its infos say, and every task that *)
(* still polls has an entry: infos of a removed entry are never shown for  *)
(* a new one, nobody waits for infos no task will fetch, and the unwrap()  *)
(* in the task's loop (agent_info.rs:103) never fails.                     *)
(***************************************************************************)
EntryServed ==
  /\ \A e \in DOMAIN entry :
       \E t \in Tasks : /\ task[t].endpoint = e
                        /\ task[t].at \in {"fetch", "remove"}
                        /\ task[t].completed = entry[e].known
  /\ \A t \in Tasks : task[t].at = "fetch" => Known(task[t].endpoint)

(***************************************************************************)
(* query_for "ensures a fetcher for the endpoints agent info and keeps it  *)
(* alive for at least as long as the returned guard exists"                *)
(* (agent_info.rs:35-36): the endpoint of a live guard is in the map.  A   *)
(* query between the test that ends the task and the removal breaks it.    *)
(***************************************************************************)
GuardKeepsFetcher ==
  \A g \in Guards : guard[g] # None => Known(guard[g])
=============================================================================
