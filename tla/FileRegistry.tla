---------------------------- MODULE FileRegistry ----------------------------
(***************************************************************************)
(* What SharedFetcher promises about remote config files                   *)
(* (remote-config/src/fetch/shared.rs, the doc comment of SharedFetcher):  *)
(*   - a file at a path is not recreated as long as it exists;             *)
(*   - files no longer in use do not leak;                                 *)
(*   - no file expires while a client still uses it.                       *)
(* A file may outlive its last user only while some client is fetching.    *)
(***************************************************************************)
EXTENDS FiniteSets

CONSTANTS Fetcher, Path, Copy

\* A file object, shared by Arc: its path and which incarnation it is.
Handle == Path \X Copy

VARIABLES stored,   \* the file objects known to the clients
          held,     \* held[f]: the files client f last handed to on_fetch
          fetching  \* the clients with a request in flight

vars == <<stored, held, fetching>>

InUse(h) == UNION {h[f] : f \in Fetcher}

OnePerPath(s) == \A a, b \in s : a[1] = b[1] => a = b

Init == stored = {} /\ held = [f \in Fetcher |-> {}] /\ fetching = {}

\* The object at a path may change only after the old one is gone.
NotRecreated == \A a \in stored, b \in stored' : a[1] = b[1] => a = b

\* Every file in use is stored; without a request in flight nothing else is.
Valid == /\ OnePerPath(stored)
         /\ InUse(held) \subseteq stored
         /\ fetching = {} => stored = InUse(held)

StartFetch(f) == /\ f \notin fetching
                 /\ fetching' = fetching \cup {f}
                 /\ UNCHANGED <<stored, held>>

\* A client ends a request or stops: its files are replaced by fs.
Settle(f, fs) == /\ fetching' = fetching \ {f}
                 /\ held' = [held EXCEPT ![f] = fs]
                 /\ stored' \subseteq stored \cup fs
                 /\ NotRecreated
                 /\ Valid'

Next == \E f \in Fetcher : StartFetch(f) \/ \E fs \in SUBSET Handle : Settle(f, fs)

Spec == Init /\ [][Next]_vars

=============================================================================
