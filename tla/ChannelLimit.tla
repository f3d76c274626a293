---------------------------- MODULE ChannelLimit ----------------------------
(***************************************************************************)
(* MaxChannelsPerKey: a stream of incoming channels that drops a new one   *)
(* when its key already has channels_per_key open channels.  The channels  *)
(* of a key share a Tracker; the map holds a weak reference to it, and the *)
(* drop of the last channel sends the key back so that the map's entry is  *)
(* removed.  Channels are dropped by other tasks at any time.              *)
(***************************************************************************)
EXTENDS Naturals, Sequences, FiniteSets, SequencesExt

CONSTANTS Keys, ChannelsPerKey, Trackers   \* Trackers bounds the Arcs created

VARIABLES
  keyCounts,    \* key -> tracker the map's weak reference points to
  strong,       \* strong[t]: channels that hold tracker t
  keyOf,        \* keyOf[t]: the key of tracker t
  next,         \* trackers created so far
  droppedKeys   \* the channel of dropped keys

vars == <<keyCounts, strong, keyOf, next, droppedKeys>>

TypeOK ==
  /\ \E ks \in SUBSET Keys : keyCounts \in [ks -> 1 .. Trackers]
  /\ strong \in [1 .. Trackers -> Nat] /\ keyOf \in [1 .. Trackers -> Keys]
  /\ next \in 0 .. Trackers /\ droppedKeys \in Seq(Keys)

Init ==
  /\ keyCounts = <<>> /\ strong = [t \in 1 .. Trackers |-> 0]
  /\ keyOf \in [1 .. Trackers -> Keys]
  /\ next = 0 /\ droppedKeys = <<>>

(* increment_channels_for_key: the channel joins the key's live tracker if *)
(* there is room, gets a new one if the map has none or a dead one, and is *)
(* refused otherwise.                                                      *)
IncrementChannelsForKey(k) ==
  IF k \in DOMAIN keyCounts /\ strong[keyCounts[k]] > 0
    THEN LET t == keyCounts[k] IN
         /\ strong' = IF strong[t] < ChannelsPerKey
                        THEN [strong EXCEPT ![t] = @ + 1] ELSE strong
         /\ UNCHANGED <<keyCounts, next>>
    ELSE LET t == next + 1 IN
         /\ t <= Trackers /\ keyOf[t] = k
         /\ next' = t
         /\ strong' = [strong EXCEPT ![t] = 1]
         /\ keyCounts' = [x \in DOMAIN keyCounts \cup {k} |->
                            IF x = k THEN t ELSE keyCounts[x]]

(* poll_listener yields a new channel.                                     *)
HandleNewChannel(k) ==
  /\ IncrementChannelsForKey(k)
  /\ UNCHANGED <<keyOf, droppedKeys>>

LastGone(t) == strong[t] = 0

(* The channel that goes is the last of its tracker.                       *)
LastChannel(t) == strong[t] = 1

(* A task drops a channel; the last one of a tracker sends its key.        *)
DropChannel(t) ==
  /\ strong[t] > 0
  /\ strong' = [strong EXCEPT ![t] = @ - 1]
  /\ droppedKeys' = IF LastChannel(t) THEN Append(droppedKeys, keyOf[t]) ELSE droppedKeys
  /\ UNCHANGED <<keyCounts, keyOf, next>>

(* poll_closed_channels removes the entry of a dropped key.                *)
PollClosedChannels ==
  /\ droppedKeys # <<>>
  /\ keyCounts' = [k \in DOMAIN keyCounts \ {Head(droppedKeys)} |-> keyCounts[k]]
  /\ droppedKeys' = Tail(droppedKeys)
  /\ UNCHANGED <<strong, keyOf, next>>

(* The bound on trackers is reached and every channel is gone.             *)
Exhausted ==
  /\ next = Trackers /\ droppedKeys = <<>> /\ \A t \in 1 .. Trackers : strong[t] = 0
  /\ UNCHANGED vars

Next ==
  \/ \E k \in Keys : HandleNewChannel(k)
  \/ \E t \in 1 .. Trackers : DropChannel(t)
  \/ PollClosedChannels
  \/ Exhausted

Spec == Init /\ [][Next]_vars

-----------------------------------------------------------------------------

(* The map does not leak: an entry whose channels are all gone has a       *)
(* message on its way that removes it.                                     *)
DeadEntryReported ==
  \A k \in DOMAIN keyCounts :
    strong[keyCounts[k]] = 0 => k \in ToSet(droppedKeys)

=============================================================================
