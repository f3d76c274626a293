------------------------- MODULE RemoteConfigManager -------------------------
(***************************************************************************)
(* The tracer's side of remote config: RemoteConfigManager of sidecar/src/ *)
(* shm_remote_config.rs.  The sidecar publishes the list of a target's     *)
(* configurations in a shared memory region (module OneWayShm: a read      *)
(* returns a whole list, or says that nothing changed).  fetch_update      *)
(* yields one change per call, until what is applied is what is listed; in *)
(* between, the target is switched or reset and configurations unloaded.   *)
(*                                                                         *)
(* A configuration is a path and a version: a line of the list names the   *)
(* shm file of that version, which the file's next version replaces.  All  *)
(* targets share the files, and versions of a path grow.  The vectors      *)
(* last_read_configs and check_configs are sets: a duplicate in them has   *)
(* no effect, and their order, which comes from a hash map, is left open.  *)
(***************************************************************************)
EXTENDS Naturals, FiniteSets

CONSTANTS RcTargets,        \* targets (service, env, version, tags)
          RcPaths,          \* configuration paths
          RcProducts,       \* the product of a path is RcProductOf[path]
          RcProductOf,
          MaxVersion,       \* bound: versions of a path
          RcUpdated,        \* bound: paths that may have a second version
          MaxRegions,       \* bound: regions created
          MaxPublished,     \* bound: lists published
          UnloadMidway      \* whether unload_configs may come before an update is worked off

ASSUME RcmAssumption ==
  /\ RcProductOf \in [RcPaths -> RcProducts]
  /\ MaxVersion \in Nat /\ MaxRegions \in Nat /\ MaxPublished \in Nat
  /\ UnloadMidway \in BOOLEAN
  /\ "none" \notin RcTargets

Configs == [path : RcPaths, version : 1..MaxVersion]
OnePerPath(S) == \A c, d \in S : c.path = d.path => c = d

VARIABLES
  fileVersion,  \* fileVersion[p]: the version of the file with path p; 0: none yet
  regions,      \* regions created so far, numbered from 1
  published,    \* lists published so far
  regionOf,     \* regionOf[t]: the region with the target's name; 0: none
  listed,       \* listed[r]: the list in region r
  rgen,         \* rgen[r]: how often region r was written, from 1
  target,       \* active_target, or "none"
  rcReader,     \* active_reader: made at all, the region it maps (0: none), the rgen it has read (0: none)
  encountered,  \* encountered_targets: reader and list of the targets tracked before
  active,       \* active_configs
  lastRead,     \* last_read_configs
  checkConfigs, \* check_configs
  failed,       \* configurations that could not be read, ever
  settled       \* the last call was a fetch_update that returned None

regionVars == <<fileVersion, regions, published, regionOf, listed, rgen>>
managerVars == <<target, rcReader, encountered, active, lastRead, checkConfigs, failed, settled>>
rcmVars == <<regionVars, managerVars>>

Regions == 1..MaxRegions
RcReaders == [made : BOOLEAN, region : 0..MaxRegions, gen : Nat]
NoReader == [made |-> FALSE, region |-> 0, gen |-> 0]
NotMet == [reader |-> NoReader, list |-> {}]

RcmTypeOK ==
  /\ fileVersion \in [RcPaths -> 0..MaxVersion]
  /\ regions \in 0..MaxRegions /\ published \in 0..MaxPublished
  /\ regionOf \in [RcTargets -> 0..MaxRegions]
  /\ listed \in [Regions -> SUBSET Configs] /\ rgen \in [Regions -> Nat]
  /\ target \in RcTargets \cup {"none"} /\ rcReader \in RcReaders
  /\ encountered \in [RcTargets -> [reader : RcReaders, list : SUBSET Configs]]
  /\ active \subseteq Configs /\ lastRead \subseteq Configs /\ checkConfigs \subseteq active
  /\ failed \subseteq Configs /\ settled \in BOOLEAN

RcmInit ==
  /\ fileVersion = [p \in RcPaths |-> 0] /\ regions = 0 /\ published = 0
  /\ regionOf = [t \in RcTargets |-> 0]
  /\ listed = [r \in Regions |-> {}] /\ rgen = [r \in Regions |-> 0]
  /\ target = "none" /\ rcReader = NoReader
  /\ encountered = [t \in RcTargets |-> NotMet]
  /\ active = {} /\ lastRead = {} /\ checkConfigs = {} /\ failed = {} /\ settled = FALSE

-----------------------------------------------------------------------------
(* The sidecar.  ConfigFileStorage::store and update: a file gets its next   *)
(* version, and the name of the last one goes.                               *)
StoreFile(p) ==
  /\ fileVersion[p] < MaxVersion /\ (fileVersion[p] = 0 \/ p \in RcUpdated)
  /\ fileVersion' = [fileVersion EXCEPT ![p] = @ + 1]
  /\ UNCHANGED <<regions, published, regionOf, listed, rgen, managerVars>>

StoredFiles == {c \in Configs : fileVersion[c.path] = c.version}

(* ConfigFileStorage::fetched creates the writer, and with it an empty       *)
(* region under the target's name...                                         *)
CreateWriter(t) ==
  /\ regionOf[t] = 0 /\ regions < MaxRegions
  /\ regions' = regions + 1
  /\ regionOf' = [regionOf EXCEPT ![t] = regions + 1]
  /\ rgen' = [rgen EXCEPT ![regions + 1] = 1]
  /\ UNCHANGED <<fileVersion, published, listed, managerVars>>

(* ... and writes the list of the target's files.                            *)
Publish(t, l) ==
  /\ regionOf[t] # 0 /\ published < MaxPublished /\ l \subseteq StoredFiles
  /\ published' = published + 1
  /\ listed' = [listed EXCEPT ![regionOf[t]] = l]
  /\ rgen' = [rgen EXCEPT ![regionOf[t]] = @ + 1]
  /\ UNCHANGED <<fileVersion, regions, regionOf, managerVars>>

(* ConfigFileStorage::expired empties the region, and dropping the writer    *)
(* takes its name away: a reader that maps it keeps it.                      *)
ExpireTarget(t) ==
  /\ regionOf[t] # 0
  /\ listed' = [listed EXCEPT ![regionOf[t]] = {}]
  /\ rgen' = [rgen EXCEPT ![regionOf[t]] = @ + 1]
  /\ regionOf' = [regionOf EXCEPT ![t] = 0]
  /\ UNCHANGED <<fileVersion, regions, published, managerVars>>

-----------------------------------------------------------------------------
(* The reader of the active target, made and opened if it can be.            *)
Opened == [made |-> TRUE, gen |-> rcReader.gen,
           region |-> IF rcReader.region = 0 THEN regionOf[target] ELSE rcReader.region]
Changed == Opened.region # 0 /\ Opened.gen < rgen[Opened.region]

CheckNothing(A) == {}

(* A new list: everything applied is to be checked against it.               *)
CheckAll(A) == A

(* The first part of fetch_update: what it may leave in active_reader,        *)
(* last_read_configs, check_configs and encountered_targets.  A region that  *)
(* is being written reads as not changed; with a change, targets tracked     *)
(* long ago are forgotten.                                                   *)
Unchanged == [reader |-> IF target = "none" THEN rcReader ELSE Opened,
              last |-> lastRead, check |-> checkConfigs, met |-> encountered]
NewList(old) == [reader |-> [Opened EXCEPT !.gen = rgen[Opened.region]],
                 last |-> listed[Opened.region], check |-> CheckAll(active),
                 met |-> [t \in RcTargets |-> IF t \in old THEN NotMet ELSE encountered[t]]]
ReadRegion == {Unchanged} \cup
              (IF target # "none" /\ Changed THEN {NewList(old) : old \in SUBSET RcTargets} ELSE {})

(* fetch_update pops check_configs until one of them is no longer listed...  *)
YieldRemove(r) ==
  \E c \in r.check \ r.last, popped \in SUBSET (r.check \cap r.last) :
    /\ active' = active \ {c}
    /\ checkConfigs' = r.check \ (popped \cup {c})
    /\ lastRead' = r.last /\ settled' = FALSE
    /\ UNCHANGED failed

(* ... then, once none is left to remove, ...                                *)
AllChecked(r) == r.check \subseteq r.last

(* ... last_read_configs until one of them is new and its file can be read.  *)
YieldAdd(r) ==
  /\ AllChecked(r)
  /\ \E c \in (r.last \ active) \cap StoredFiles, popped \in SUBSET r.last :
       /\ c \notin popped
       /\ active' = active \cup {c}
       /\ lastRead' = r.last \ (popped \cup {c})
       /\ failed' = failed \cup (popped \ active)
  /\ checkConfigs' = {} /\ settled' = FALSE

YieldNone(r) ==
  /\ AllChecked(r)
  /\ checkConfigs' = {} /\ lastRead' = {} /\ settled' = TRUE
  /\ failed' = failed \cup (r.last \ active)
  /\ UNCHANGED active

FetchUpdate ==
  /\ \E r \in ReadRegion :
       /\ rcReader' = r.reader /\ encountered' = r.met
       /\ YieldRemove(r) \/ YieldAdd(r) \/ YieldNone(r)
  /\ UNCHANGED <<regionVars, target>>

-----------------------------------------------------------------------------
SaveListOnly == lastRead

(* "Reconstruct currently active configurations": what set_target remembers  *)
(* as the list of the target it leaves.                                      *)
CurrentConfigs == lastRead \cup (IF checkConfigs = {} THEN active ELSE {})

Saved == IF target # "none" /\ rcReader.made
         THEN [encountered EXCEPT ![target] = [reader |-> rcReader, list |-> CurrentConfigs]]
         ELSE encountered

SetTarget(t) ==
  LET resumed == IF t = "none" THEN NotMet ELSE Saved[t]
  IN  /\ target' = t
      /\ rcReader' = resumed.reader /\ lastRead' = resumed.list
      /\ encountered' = [u \in RcTargets |-> IF u = t THEN NotMet ELSE Saved[u]]
      /\ settled' = FALSE
      /\ UNCHANGED <<regionVars, failed>>

(* track_target, and reset_target for t = "none".                            *)
TrackTarget(t) == SetTarget(t) /\ checkConfigs' = active /\ UNCHANGED active

Reset == SetTarget("none") /\ checkConfigs' = {} /\ active' = {}

UnloadConfigs(products) ==
  LET unloaded == {c \in active : RcProductOf[c.path] \in products}
  IN  /\ UnloadMidway \/ checkConfigs = {}
      /\ active' = active \ unloaded
      /\ checkConfigs' = checkConfigs \ unloaded
      /\ lastRead' = lastRead \cup unloaded
      /\ settled' = FALSE
      /\ UNCHANGED <<regionVars, target, rcReader, encountered, failed>>

RcmNext ==
  \/ \E t \in RcTargets : CreateWriter(t) \/ ExpireTarget(t) \/ TrackTarget(t)
  \/ \E p \in RcPaths : StoreFile(p)
  \/ \E t \in RcTargets, l \in SUBSET Configs : Publish(t, l)
  \/ TrackTarget("none") \/ Reset \/ FetchUpdate
  \/ \E products \in SUBSET RcProducts : UnloadConfigs(products)

RcmSpec == RcmInit /\ [][RcmNext]_rcmVars

-----------------------------------------------------------------------------
(* "It is guaranteed that no two configurations sharing the same             *)
(* RemoteConfigPath are applied at once": however lists, switches of the     *)
(* target, resets and unloads interleave with the calls of fetch_update.     *)
NoTwoApplied == OnePerPath(active)

(* When fetch_update has returned None and the region has no newer list, what*)
(* is applied is what the region lists, files that could not be read apart;  *)
(* without a region, or a target, nothing is applied.                        *)
NoneMeansApplied ==
  settled =>
    /\ target = "none" \/ rcReader.region = 0 => active = {}
    /\ (rcReader.region # 0 /\ rcReader.gen = rgen[rcReader.region]) =>
         /\ active \subseteq listed[rcReader.region]
         /\ listed[rcReader.region] \ active \subseteq failed
=============================================================================
