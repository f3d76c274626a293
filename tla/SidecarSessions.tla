--------------------------- MODULE SidecarSessions ---------------------------
(***************************************************************************)
(* The life of the sidecar's sessions (sidecar/src/service/                *)
(* sidecar_server.rs).  Each client connection has an interceptor task,    *)
(* which hands every request to the connection's sequential worker and     *)
(* only then counts the session the request names, and a worker, whose     *)
(* handlers get or create the session in the map all connections share.    *)
(* When a connection ends, the sessions it counted are given back one by   *)
(* one and the last user of a session removes it from the map, in a second *)
(* step that no longer holds the lock of the counter.                      *)
(*                                                                         *)
(* A session object is an incarnation number: the map may hold a new       *)
(* object for a session whose old one was removed.  Of a session's content *)
(* the model keeps whether set_session_config has reached the object.      *)
(* Requests are abstracted to their effect on sessions: "use" stands for   *)
(* every handler that gets or creates the session in its synchronous part, *)
(* "late" for send_dogstatsd_actions, which does it in a spawned task.     *)
(***************************************************************************)
EXTENDS Naturals, Sequences, FiniteSets

CONSTANTS Conns,       \* client connections
          Sessions,    \* session ids
          Ops,         \* the operations clients use, of AllOps
          MaxRequests, \* bound: requests a client sends
          MaxObjects   \* bound: session objects created

AllOps == {"config", "use", "rc", "stop", "late"}

None == "none"

SessionsAssumption ==
  /\ Ops \subseteq AllOps
  /\ MaxRequests \in Nat /\ MaxObjects \in Nat
  /\ None \notin Sessions

VARIABLES
  conn,        \* conn[c]: "open", "closed" by the client, "broken", "ending", "done"
  sent,        \* sent[c]: number of requests the client has sent
  early,       \* early[c]: sessions the client has sent a configuration for
  inbox,       \* inbox[c]: requests on their way to the interceptor
  work,        \* work[c]: requests queued for the worker
  running,     \* connections whose worker is in the handler of the first of them
  uncounted,   \* uncounted[c]: session of the request handed on and not yet counted
  seen,        \* seen[c]: sessions the connection has counted and not given back
  stop,        \* stop[c]: session this ending connection has yet to remove
  panicked,    \* connections whose worker died in a handler
  counter,     \* counter[s]: session_counter, 0 when there is no entry
  session,     \* session[s]: the object in the map, 0 when there is none
  objects,     \* number of session objects created
  configured,  \* objects set_session_config has configured
  stops,       \* sessions a spawned stop_session will remove
  lates,       \* sessions a spawned task will get or create
  lateMade     \* objects created by such a task, or once the connection had ended

connVars == <<conn, sent, early, inbox, work, running, uncounted, seen, stop, panicked>>
mapVars == <<counter, session, objects, configured, stops, lates, lateMade>>
vars == <<connVars, mapVars>>

Requests == [op : AllOps, s : Sessions]

SessionsTypeOK ==
  /\ conn \in [Conns -> {"open", "closed", "broken", "ending", "done"}]
  /\ sent \in [Conns -> 0..MaxRequests] /\ early \in [Conns -> SUBSET Sessions]
  /\ inbox \in [Conns -> Seq(Requests)] /\ work \in [Conns -> Seq(Requests)]
  /\ uncounted \in [Conns -> Sessions \cup {None}]
  /\ seen \in [Conns -> SUBSET Sessions]
  /\ stop \in [Conns -> Sessions \cup {None}]
  /\ panicked \subseteq Conns /\ running \subseteq Conns
  /\ counter \in [Sessions -> 0..Cardinality(Conns)]
  /\ session \in [Sessions -> 0..MaxObjects] /\ objects \in 0..MaxObjects
  /\ configured \subseteq 1..MaxObjects /\ lateMade \subseteq 1..MaxObjects
  /\ stops \subseteq Sessions /\ lates \subseteq Sessions

Init ==
  /\ conn = [c \in Conns |-> "open"]
  /\ sent = [c \in Conns |-> 0]
  /\ early = [c \in Conns |-> {}]
  /\ inbox = [c \in Conns |-> <<>>]
  /\ work = [c \in Conns |-> <<>>]
  /\ uncounted = [c \in Conns |-> None]
  /\ seen = [c \in Conns |-> {}]
  /\ stop = [c \in Conns |-> None]
  /\ panicked = {} /\ running = {}
  /\ counter = [s \in Sessions |-> 0]
  /\ session = [s \in Sessions |-> 0]
  /\ objects = 0
  /\ configured = {} /\ stops = {} /\ lates = {} /\ lateMade = {}

-----------------------------------------------------------------------------
(* A client configures a session on its connection before it sets remote     *)
(* config data for it, as the tracers do; otherwise it may send anything.    *)
Send(c, r) ==
  /\ conn[c] = "open"
  /\ sent[c] < MaxRequests
  /\ r.op = "rc" => r.s \in early[c]
  /\ sent' = [sent EXCEPT ![c] = @ + 1]
  /\ early' = IF r.op = "config" THEN [early EXCEPT ![c] = @ \cup {r.s}] ELSE early
  /\ inbox' = [inbox EXCEPT ![c] = Append(@, r)]
  /\ UNCHANGED <<conn, work, running, uncounted, seen, stop, panicked, mapVars>>

(* The client closes its end, or the transport fails. *)
Close(c, how) ==
  /\ conn[c] = "open"
  /\ conn' = [conn EXCEPT ![c] = how]
  /\ UNCHANGED <<sent, early, inbox, work, running, uncounted, seen, stop, panicked, mapVars>>

(* session_interceptor, first half: the request goes to the worker, if there *)
(* still is one to take it.                                                  *)
Forward(c) ==
  /\ inbox[c] # <<>> /\ uncounted[c] = None /\ conn[c] # "ending"
  /\ inbox' = [inbox EXCEPT ![c] = Tail(@)]
  /\ IF c \in panicked
     THEN UNCHANGED <<work, uncounted>>
     ELSE /\ work' = [work EXCEPT ![c] = Append(@, Head(inbox[c]))]
          /\ uncounted' = [uncounted EXCEPT ![c] = Head(inbox[c]).s]
  /\ UNCHANGED <<conn, sent, early, running, seen, stop, panicked, mapVars>>

CountsAlways(c) == TRUE
CountsFirst(c) == uncounted[c] \notin seen[c]

(* Second half: the connection counts a session once. *)
Count(c) ==
  /\ uncounted[c] # None
  /\ IF CountsFirst(c)
     THEN /\ counter' = [counter EXCEPT ![uncounted[c]] = @ + 1]
          /\ seen' = [seen EXCEPT ![c] = @ \cup {uncounted[c]}]
     ELSE UNCHANGED <<counter, seen>>
  /\ uncounted' = [uncounted EXCEPT ![c] = None]
  /\ UNCHANGED <<conn, sent, early, inbox, work, running, stop, panicked,
                 session, objects, configured, stops, lates, lateMade>>

(* SidecarServer::get_session: get the object of s or make one. *)
GetSession(s) ==
  IF session[s] # 0
  THEN UNCHANGED <<session, objects>>
  ELSE /\ objects < MaxObjects
       /\ objects' = objects + 1
       /\ session' = [session EXCEPT ![s] = objects + 1]

(* The worker takes the next request.  The requests of a broken connection   *)
(* have been aborted: they leave the queue without running.                  *)
Take(c) ==
  /\ work[c] # <<>> /\ c \notin panicked \cup running
  /\ IF conn[c] = "broken"
     THEN work' = [work EXCEPT ![c] = Tail(@)] /\ UNCHANGED running
     ELSE running' = running \cup {c} /\ UNCHANGED work
  /\ UNCHANGED <<conn, sent, early, inbox, uncounted, seen, stop, panicked, mapVars>>

(* Its handler, which no abort interrupts any more. *)
Handle(c) ==
  LET r == Head(work[c]) IN
  /\ c \in running
  /\ work' = [work EXCEPT ![c] = Tail(@)]
  /\ running' = running \ {c}
  /\ \/ /\ r.op \in {"stop", "late"}
        /\ stops' = IF r.op = "stop" THEN stops \cup {r.s} ELSE stops
        /\ lates' = IF r.op = "late" THEN lates \cup {r.s} ELSE lates
        /\ UNCHANGED <<session, objects, configured, panicked, lateMade>>
     \/ /\ r.op \in {"config", "use", "rc"}
        /\ GetSession(r.s)
        /\ lateMade' = IF session[r.s] = 0 /\ conn[c] \in {"ending", "done"}
                       THEN lateMade \cup {session'[r.s]} ELSE lateMade
        /\ configured' = IF r.op = "config" THEN configured \cup {session'[r.s]} ELSE configured
        /\ panicked' = IF r.op = "rc" /\ session'[r.s] \notin configured
                       THEN panicked \cup {c} ELSE panicked
        /\ UNCHANGED <<stops, lates>>
  /\ UNCHANGED <<conn, sent, early, inbox, uncounted, seen, stop, counter>>

(* A spawned stop_session removes the object and shuts it down. *)
StopSession(s) ==
  /\ s \in stops
  /\ stops' = stops \ {s}
  /\ session' = [session EXCEPT ![s] = 0]
  /\ UNCHANGED <<connVars, counter, objects, configured, lates, lateMade>>

(* The spawned half of send_dogstatsd_actions gets or creates the session. *)
LateUse(s) ==
  /\ s \in lates
  /\ lates' = lates \ {s}
  /\ GetSession(s)
  /\ lateMade' = IF session[s] = 0 THEN lateMade \cup {session'[s]} ELSE lateMade
  /\ UNCHANGED <<connVars, counter, configured, stops>>

-----------------------------------------------------------------------------
(* accept_connection goes on once the executor has ended (everything that was *)
(* received has been handled, or the transport failed) and the interceptor    *)
(* has drained its queue.  It does not wait for a handler that is running.    *)
EndConnection(c) ==
  /\ conn[c] \in {"closed", "broken"}
  /\ inbox[c] = <<>> /\ uncounted[c] = None
  /\ conn[c] = "closed" => (work[c] = <<>> \/ c \in panicked)
  /\ conn' = [conn EXCEPT ![c] = "ending"]
  /\ work' = [work EXCEPT ![c] = IF c \in running THEN <<Head(@)>> ELSE <<>>]
  /\ UNCHANGED <<sent, early, inbox, running, uncounted, seen, stop, panicked, mapVars>>

LastUserLate(s) == counter[s] = 0
LastUser(s) == counter[s] = 1

(* process_interceptor_response gives one session back; the last user will   *)
(* have to stop it, after the lock of the counter is released.               *)
GiveBack(c, s) ==
  /\ conn[c] = "ending" /\ stop[c] = None /\ s \in seen[c]
  /\ seen' = [seen EXCEPT ![c] = @ \ {s}]
  /\ counter' = [counter EXCEPT ![s] = @ - 1]
  /\ stop' = [stop EXCEPT ![c] = IF LastUser(s) THEN s ELSE None]
  /\ UNCHANGED <<conn, sent, early, inbox, work, running, uncounted, panicked,
                 session, objects, configured, stops, lates, lateMade>>

(* Its stop_session. *)
StopCounted(c) ==
  /\ stop[c] # None
  /\ session' = [session EXCEPT ![stop[c]] = 0]
  /\ stop' = [stop EXCEPT ![c] = None]
  /\ UNCHANGED <<conn, sent, early, inbox, work, running, uncounted, seen, panicked,
                 counter, objects, configured, stops, lates, lateMade>>

Finish(c) ==
  /\ conn[c] = "ending" /\ seen[c] = {} /\ stop[c] = None
  /\ conn' = [conn EXCEPT ![c] = "done"]
  /\ UNCHANGED <<sent, early, inbox, work, running, uncounted, seen, stop, panicked, mapVars>>

Next ==
  \/ \E c \in Conns, op \in Ops, s \in Sessions : Send(c, [op |-> op, s |-> s])
  \/ \E c \in Conns : \/ Close(c, "closed") \/ Close(c, "broken")
                      \/ Forward(c) \/ Count(c) \/ Take(c) \/ Handle(c)
                      \/ EndConnection(c) \/ StopCounted(c) \/ Finish(c)
  \/ \E s \in Sessions : StopSession(s) \/ LateUse(s)
  \/ \E c \in Conns, s \in Sessions : GiveBack(c, s)

Spec == Init /\ [][Next]_vars

-----------------------------------------------------------------------------
(***************************************************************************)
(* session_counter counts connections, not requests: the entry of a        *)
(* session is the number of connections that have counted it and not given *)
(* it back, so no session is stopped early by a busy client's exit and     *)
(* none is kept by one.                                                    *)
(***************************************************************************)
CounterExact ==
  \A s \in Sessions : counter[s] = Cardinality({c \in Conns : s \in seen[c]})

(***************************************************************************)
(* A session object in the map has somebody who will remove it: a          *)
(* connection that has counted it, is about to count it, or has a removal  *)
(* outstanding.  The exceptions are an object that the spawned half of     *)
(* send_dogstatsd_actions created after its session had been stopped, and  *)
(* one created by a handler still running when its broken connection had   *)
(* given its sessions back: nobody removes those.                          *)
(***************************************************************************)
SessionHasOwner ==
  \A s \in Sessions : (session[s] # 0 /\ session[s] \notin lateMade) =>
    \/ counter[s] > 0
    \/ s \in stops
    \/ \E c \in Conns : uncounted[c] = s \/ stop[c] = s

(***************************************************************************)
(* "Expecting remote config invariants to be set early"                    *)
(* (sidecar_server.rs:943, an expect()): for a client that configures its  *)
(* session first, set_remote_config_data always finds the invariants.  It  *)
(* does not when another connection, the session's last user a moment      *)
(* before, removes the object this client has just configured.             *)
(***************************************************************************)
InvariantsSetEarly == panicked = {}
=============================================================================
