---------------------------- MODULE TraceExporter ----------------------------
(***************************************************************************)
(* Client-side stats in the TraceExporter                                  *)
(* (data-pipeline/src/trace_exporter/mod.rs) with the StatsExporter        *)
(* (stats_exporter.rs) and the AgentInfoFetcher (agent_info/fetcher.rs).   *)
(*                                                                         *)
(* Threads call send(&self) at the same time; a step of a thread ends at   *)
(* each load or store of an ArcSwap and at each lock of a concentrator.    *)
(* The tasks live on a current-thread runtime and make progress only while *)
(* some thread is inside block_on. A concentrator is the set of payloads   *)
(* whose spans it counts; which of its buckets are old enough for a        *)
(* regular flush is left open (SpanConcentrator says which).               *)
(***************************************************************************)
EXTENDS Integers, FiniteSets, Sequences

CONSTANTS Sender,     \* threads that call send
          MaxSends,   \* bound on the payloads ever sent
          MaxInfos    \* bound on the states /info goes through

ASSUME ExporterAssumption == /\ MaxSends \in Nat /\ MaxInfos \in Nat

\* DisabledByAgent; otherwise the status is Enabled, with an exporter.
Disabled == 0

VARIABLES
    status,     \* client_side_stats: Disabled or the exporter's number
    exporters,  \* every StatsExporter task ever spawned, with its concentrator
    info,       \* agent_info: how often it changed, and client_drop_p0s
    previous,   \* previous_info_state
    pc,         \* where each thread is in send
    seen,       \* the agent_info and the exporter a thread loaded
    payloads,   \* payloads ever given to send
    counted,    \* payloads sent with Datadog-Client-Computed-Stats
    handed,     \* payloads whose stats were in a request that ended
    down        \* shutdown has returned

locals == <<pc, seen>>
vars == <<status, exporters, info, previous, locals, payloads, counted, handed, down>>

Init == /\ status = Disabled
        /\ exporters = <<>>
        /\ info = [hash |-> 0, drop |-> FALSE] /\ previous = 0
        /\ pc = [s \in Sender |-> "idle"]
        /\ seen = [s \in Sender |-> [info |-> info, exporter |-> Disabled, payload |-> 0]]
        /\ payloads = 0
        /\ counted = {} /\ handed = {}
        /\ down = FALSE

Goto(s, label) == pc' = [pc EXCEPT ![s] = label]

\* Some thread is inside block_on.
Driving == \E s \in Sender : pc[s] \in {"sending", "joining"}

-----------------------------------------------------------------------------
(***************************************************************************)
(* send: check_agent_info                                                  *)
(***************************************************************************)
Send(s) ==
    /\ pc[s] = "idle" /\ ~down
    /\ \A t \in Sender : pc[t] # "joining"
    /\ payloads < MaxSends
    /\ payloads' = payloads + 1
    /\ seen' = [seen EXCEPT ![s] = [info |-> info, exporter |-> Disabled, payload |-> payloads + 1]]
    /\ Goto(s, "check")
    /\ UNCHANGED <<status, exporters, info, previous, counted, handed, down>>

\* No info yet or no news; otherwise the status says what may have to change.
CheckInfo(s) ==
    LET i == seen[s].info
    IN  /\ pc[s] = "check"
        /\ Goto(s, IF i.hash = 0 \/ i.hash = previous THEN "stats"
                   ELSE IF status = Disabled THEN (IF i.drop THEN "start" ELSE "remember")
                   ELSE IF i.drop THEN "remember" ELSE "stop")
        /\ UNCHANGED <<status, exporters, info, previous, seen, payloads, counted, handed, down>>

\* start_stats_computation: the status is looked at again, ...
StartStats(s) ==
    /\ pc[s] = "start"
    /\ Goto(s, IF status = Disabled THEN "spawn" ELSE "remember")
    /\ UNCHANGED <<status, exporters, info, previous, seen, payloads, counted, handed, down>>

\* ... a StatsExporter is spawned, and the status replaced.
SpawnStats(s) ==
    /\ pc[s] = "spawn"
    /\ exporters' = Append(exporters, [stats |-> {}, cancelled |-> FALSE, state |-> "sleeping",
                                       inflight |-> {}])
    /\ status' = Len(exporters) + 1
    /\ Goto(s, "remember")
    /\ UNCHANGED <<info, previous, seen, payloads, counted, handed, down>>

\* Mutant: the exporter that goes is not told.
StopStatsSilently(s) ==
    /\ pc[s] = "stop"
    /\ IF status = Disabled
       THEN Goto(s, "remember") /\ UNCHANGED exporters
       ELSE Goto(s, "disable") /\ UNCHANGED exporters
    /\ UNCHANGED <<status, info, previous, seen, payloads, counted, handed, down>>

\* stop_stats_computation: cancel the exporter, ...
StopStats(s) ==
    /\ pc[s] = "stop"
    /\ IF status = Disabled
       THEN Goto(s, "remember") /\ UNCHANGED exporters
       ELSE /\ exporters' = [exporters EXCEPT ![status].cancelled = TRUE]
            /\ Goto(s, "disable")
    /\ UNCHANGED <<status, info, previous, seen, payloads, counted, handed, down>>

\* ... then replace the status.
DisableStats(s) ==
    /\ pc[s] = "disable"
    /\ status' = Disabled
    /\ Goto(s, "remember")
    /\ UNCHANGED <<exporters, info, previous, seen, payloads, counted, handed, down>>

RememberInfo(s) ==
    /\ pc[s] = "remember"
    /\ previous' = seen[s].info.hash
    /\ Goto(s, "stats")
    /\ UNCHANGED <<status, exporters, info, seen, payloads, counted, handed, down>>

-----------------------------------------------------------------------------
(***************************************************************************)
(* send: send_deser_ser                                                    *)
(***************************************************************************)

\* The payload cannot be deserialized.
Undecodable(s) ==
    /\ pc[s] = "stats"
    /\ Goto(s, "idle")
    /\ UNCHANGED <<status, exporters, info, previous, seen, payloads, counted, handed, down>>

\* With stats enabled the payload will say that they are computed, ...
LoadStatus(s) ==
    /\ pc[s] = "stats"
    /\ IF status = Disabled THEN Goto(s, "sending") /\ UNCHANGED counted
       ELSE Goto(s, "load") /\ counted' = counted \cup {seen[s].payload}
    /\ UNCHANGED <<status, exporters, info, previous, seen, payloads, handed, down>>

\* ... add_spans_to_stats looks at the status again, ...
LoadConcentrator(s) ==
    /\ pc[s] = "load"
    /\ seen' = [seen EXCEPT ![s].exporter = status]
    /\ Goto(s, IF status = Disabled THEN "sending" ELSE "add")
    /\ UNCHANGED <<status, exporters, info, previous, payloads, counted, handed, down>>

\* ... and adds the spans under the lock of that concentrator; drop_chunks
\* then removes what the agent would not sample.
AddSpans(s) ==
    /\ pc[s] = "add"
    /\ exporters' = [exporters EXCEPT ![seen[s].exporter].stats = @ \cup {seen[s].payload}]
    /\ Goto(s, "sending")
    /\ UNCHANGED <<status, info, previous, seen, payloads, counted, handed, down>>

\* The request of the payload ends, well or not.
Sent(s) ==
    /\ pc[s] = "sending"
    /\ Goto(s, "idle")
    /\ UNCHANGED <<status, exporters, info, previous, seen, payloads, counted, handed, down>>

-----------------------------------------------------------------------------
(***************************************************************************)
(* The tasks: StatsExporter::run and AgentInfoFetcher::run                 *)
(***************************************************************************)

\* The flush interval is over; select! may prefer it to a cancellation.
RegularFlush(e, old) ==
    /\ Driving
    /\ exporters[e].state = "sleeping"
    /\ exporters' = [exporters EXCEPT ![e].stats = @ \ old, ![e].inflight = old,
                                      ![e].state = IF old = {} THEN "sleeping" ELSE "sending"]
    /\ UNCHANGED <<status, info, previous, locals, payloads, counted, handed, down>>

\* Mutant: the last flush is a regular one.
FinalFlushRegular(e) ==
    /\ Driving
    /\ exporters[e].state = "sleeping" /\ exporters[e].cancelled
    /\ \E old \in SUBSET exporters[e].stats :
         exporters' = [exporters EXCEPT ![e].stats = @ \ old, ![e].inflight = old, ![e].state = "final"]
    /\ UNCHANGED <<status, info, previous, locals, payloads, counted, handed, down>>

\* Cancelled: everything is flushed.
FinalFlush(e) ==
    /\ Driving
    /\ exporters[e].state = "sleeping" /\ exporters[e].cancelled
    /\ exporters' = [exporters EXCEPT ![e].stats = {}, ![e].inflight = @ \cup exporters[e].stats,
                                      ![e].state = "final"]
    /\ UNCHANGED <<status, info, previous, locals, payloads, counted, handed, down>>

\* Mutant: the loop goes on after the last flush.
StatsSentForever(e) ==
    /\ Driving
    /\ exporters[e].state \in {"sending", "final"}
    /\ exporters' = [exporters EXCEPT ![e].inflight = {}, ![e].state = "sleeping"]
    /\ handed' = handed \cup exporters[e].inflight
    /\ UNCHANGED <<status, info, previous, locals, payloads, counted, down>>

\* The request with the stats ends, well or not.
StatsSent(e) ==
    /\ Driving
    /\ exporters[e].state \in {"sending", "final"}
    /\ exporters' = [exporters EXCEPT ![e].inflight = {},
                                      ![e].state = IF @ = "final" THEN "ended" ELSE "sleeping"]
    /\ handed' = handed \cup exporters[e].inflight
    /\ UNCHANGED <<status, info, previous, locals, payloads, counted, down>>

\* /info has a new state.
NewInfo(drop) ==
    /\ Driving
    /\ info.hash < MaxInfos
    /\ info' = [hash |-> info.hash + 1, drop |-> drop]
    /\ UNCHANGED <<status, exporters, previous, locals, payloads, counted, handed, down>>

-----------------------------------------------------------------------------
\* shutdown(self, None): nobody is in send; the exporter of the status, if
\* there is one, is cancelled and awaited.
Shutdown(s) ==
    /\ ~down
    /\ \A t \in Sender : pc[t] = "idle"
    /\ IF status = Disabled
       THEN down' = TRUE /\ UNCHANGED <<exporters, pc>>
       ELSE /\ exporters' = [exporters EXCEPT ![status].cancelled = TRUE]
            /\ Goto(s, "joining")
            /\ UNCHANGED down
    /\ UNCHANGED <<status, info, previous, seen, payloads, counted, handed>>

\* The exporter has ended; the runtime is dropped with whatever is left on it.
Joined(s) ==
    /\ pc[s] = "joining"
    /\ exporters[status].state = "ended"
    /\ down' = TRUE
    /\ Goto(s, "idle")
    /\ UNCHANGED <<status, exporters, info, previous, seen, payloads, counted, handed>>

Next ==
    \/ \E s \in Sender :
         \/ Send(s) \/ CheckInfo(s) \/ StartStats(s) \/ SpawnStats(s) \/ StopStats(s)
         \/ DisableStats(s) \/ RememberInfo(s) \/ Undecodable(s) \/ LoadStatus(s) \/ LoadConcentrator(s)
         \/ AddSpans(s) \/ Sent(s) \/ Shutdown(s) \/ Joined(s)
    \/ \E e \in DOMAIN exporters :
         \/ \E old \in SUBSET exporters[e].stats : RegularFlush(e, old)
         \/ FinalFlush(e) \/ StatsSent(e)
    \/ \E drop \in BOOLEAN : NewInfo(drop)

Spec == Init /\ [][Next]_vars

\* Requests end and the runtime polls tasks that are ready while it is driven.
Fairness == /\ \A s \in Sender : WF_vars(Joined(s))
            /\ \A e \in 1..MaxInfos : WF_vars(e \in DOMAIN exporters /\ (FinalFlush(e) \/ StatsSent(e)))

FairSpec == Spec /\ Fairness

-----------------------------------------------------------------------------
\* client_side_stats names an exporter that was spawned, and only payloads that
\* said so (the Datadog-Client-Computed-Stats header) were counted and sent.
TypeOK ==
    /\ status \in 0..Len(exporters)
    /\ exporters \in Seq([stats : SUBSET (1..payloads), inflight : SUBSET (1..payloads),
                          cancelled : BOOLEAN,
                          state : {"sleeping", "sending", "final", "ended"}])
    /\ counted \subseteq 1..payloads /\ handed \subseteq counted

\* Whose stats an exporter has in its concentrator or in a request; an exporter
\* that has ended looks at its concentrator no more.
StatsOf(e) == IF exporters[e].state = "ended" THEN {}
              ELSE exporters[e].stats \cup exporters[e].inflight
Pending == IF down THEN {} ELSE UNION {StatsOf(e) : e \in DOMAIN exporters}

\* What is lost with the runtime when shutdown returns: the stats of exporters
\* that stop_stats_computation had cancelled and nobody awaited.
LeftBehind == IF down THEN UNION {StatsOf(e) : e \in DOMAIN exporters \ {status}} ELSE {}

\* Payloads whose thread has not come to the end of add_spans_to_stats.
BeingCounted == {seen[s].payload : s \in {t \in Sender : pc[t] \in {"load", "add"}}}

\* "Once stats have been computed we can drop all chunks that are not going to
\* be sampled": a payload that tells the agent its stats are computed has them
\* in a concentrator some exporter will flush, in a request, or sent; once
\* shutdown has returned they were sent, unless they were left with an exporter
\* the agent had turned off. For one sending thread.
ComputedStatsKept == counted \subseteq BeingCounted \cup Pending \cup handed \cup LeftBehind

\* The exporters that go on forever are those of the status.
OneExporter ==
    \A e \in DOMAIN exporters : ~exporters[e].cancelled => status = e

\* "Safely shutdown the TraceExporter": a shutdown that finds stats enabled
\* returns, and by then the exporter it waited for has force flushed and ended.
\* Not so "all related tasks": an exporter that stop_stats_computation had
\* cancelled may have neither flushed nor ended.
ShutdownReturns ==
    (\E s \in Sender : pc[s] = "joining")
      ~> (down /\ \A e \in DOMAIN exporters \cap {status} : exporters[e].state = "ended")

=============================================================================
