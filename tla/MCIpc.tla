------------------------------- MODULE MCIpc -------------------------------
(***************************************************************************)
(* Two parts of the RPC library, explored side by side: the asynchronous   *)
(* client with the server, under fairness, and the limit on the channels   *)
(* of a key.                                                               *)
(***************************************************************************)
EXTENDS Rpc

CONSTANTS k1, Keys, ChannelsPerKey, Trackers   \* of ChannelLimit

VARIABLES part, keyCounts, strong, keyOf, next, droppedKeys

channelVars == <<keyCounts, strong, keyOf, next, droppedKeys>>
allVars == <<vars, channelVars, part>>

Channels == INSTANCE ChannelLimit

MCInit ==
  /\ part \in {"connection", "channels"}
  /\ Init /\ Channels!Init
  /\ part = "connection" => \A t \in DOMAIN keyOf : keyOf[t] = k1

MCNext ==
  \/ part = "connection" /\ Next /\ UNCHANGED <<channelVars, part>>
  \/ part = "channels" /\ Channels!Next /\ UNCHANGED <<vars, part>>

\* Rpc's fairness: in the part "channels" it is enabled in no state.
MCSpec == MCInit /\ [][MCNext]_allVars /\ Fairness

-----------------------------------------------------------------------------

(* Types, the bound on requests in flight among them; and no request is    *)
(* answered twice or while it is tracked (AnsweredOnce).                   *)
ConnectionSound == TypeOK /\ AnsweredOnce

(* Types; and MaxChannelsPerKey's map does not leak: an entry whose        *)
(* channels are all gone has a message on its way that removes it.         *)
ChannelsSound == Channels!TypeOK /\ Channels!DeadEntryReported

=============================================================================
