---------------------- MODULE RemoteConfigManagerProofs ----------------------
(***************************************************************************)
(* No two configurations with the same path are ever applied by the        *)
(* RemoteConfigManager, for any number of targets, paths and versions, and *)
(* also when configurations are unloaded in the middle of an update.       *)
(*                                                                         *)
(* The invariant: of two versions of a path among what is to be added and  *)
(* what was checked against the list, the older one is not applied; and it *)
(* never will be, because its file is gone.                                *)
(***************************************************************************)
EXTENDS RemoteConfigManager, TLAPS

\* Of two versions of a path in S, the older is not in A.
Superseded(S, A) == \A c, d \in S : (c.path = d.path /\ c.version < d.version) => c \notin A

\* Every configuration in S has been fileVersion, if it is not the fileVersion one now.
WasStored(S) == \A c \in S : c.version <= fileVersion[c.path]

\* What the lists of the manager and of the regions hold.
ListInv == /\ \A r \in Regions : OnePerPath(listed[r]) /\ WasStored(listed[r])
           /\ WasStored(lastRead) /\ WasStored(active)
           /\ \A t \in RcTargets : WasStored(encountered[t].list)

\* What they hold in relation to what is applied.
AppliedInv == /\ Superseded(lastRead \cup (active \ checkConfigs), active)
              /\ \A t \in RcTargets : Superseded(encountered[t].list, active)

\* The inductive invariant.
RcmInv == RcmTypeOK /\ ListInv /\ AppliedInv /\ NoTwoApplied

\* What fetch_update works on after it read the region of its target.
ReadInv(r) == /\ r.reader \in RcReaders
              /\ r.last \subseteq Configs /\ r.check \subseteq active
              /\ WasStored(r.last)
              /\ Superseded(r.last \cup (active \ r.check), active)
              /\ r.met \in [RcTargets -> [reader : RcReaders, list : SUBSET Configs]]
              /\ \A t \in RcTargets : WasStored(r.met[t].list) /\ Superseded(r.met[t].list, active)

\* No list, no target, nothing applied: the initial state of the manager.
LEMMA RcmInitInv == RcmInit => RcmInv
<1> SUFFICES ASSUME RcmInit PROVE RcmInv OBVIOUS
<1> USE RcmAssumption
<1>0. NoReader \in RcReaders /\ NotMet \in [reader : RcReaders, list : SUBSET Configs]
  BY DEF RcReaders, NoReader, NotMet
<1>1. RcmTypeOK
  <2>1. /\ fileVersion \in [RcPaths -> 0..MaxVersion] /\ regionOf \in [RcTargets -> 0..MaxRegions]
        /\ regions \in 0..MaxRegions /\ published \in 0..MaxPublished
    BY DEF RcmInit
  <2>2. listed \in [Regions -> SUBSET Configs] /\ rgen \in [Regions -> Nat]
    BY DEF RcmInit
  <2>3. encountered \in [RcTargets -> [reader : RcReaders, list : SUBSET Configs]]
    BY <1>0 DEF RcmInit
  <2>4. settled \in BOOLEAN /\ target \in RcTargets \cup {"none"} BY DEF RcmInit
  <2> QED BY <1>0, <2>1, <2>2, <2>3, <2>4 DEF RcmInit, RcmTypeOK
<1>2. /\ \A r \in Regions : listed[r] = {}
      /\ \A t \in RcTargets : encountered[t].list = {}
      /\ active = {} /\ lastRead = {}
  BY DEF RcmInit, NotMet
<1>3. ListInv BY <1>2 DEF ListInv, OnePerPath, WasStored
<1>4. AppliedInv BY <1>2 DEF AppliedInv, Superseded
<1>5. NoTwoApplied BY <1>2 DEF NoTwoApplied, OnePerPath
<1> QED BY <1>1, <1>3, <1>4, <1>5 DEF RcmInv

\* What the region says, or what the manager remembered, is sound: the read at
\* the start of fetch_update.
LEMMA ReadIsSound == ASSUME RcmInv, NEW r \in ReadRegion PROVE ReadInv(r)
<1> USE RcmAssumption DEF RcmInv
<1>0. target # "none" => /\ Opened \in RcReaders
                         /\ Opened.region \in 0..MaxRegions
  BY DEF RcmTypeOK, Opened, RcReaders
<1>1. CASE r = Unchanged
  BY <1>0, <1>1 DEF Unchanged, ReadInv, RcmTypeOK, ListInv, AppliedInv
<1>2. ASSUME target # "none", Changed, NEW old \in SUBSET RcTargets, r = NewList(old)
      PROVE  ReadInv(r)
  <2>1. Opened.region \in Regions BY <1>0, <1>2 DEF Changed, Regions
  <2>2. r.reader \in RcReaders BY <1>0, <1>2, <2>1 DEF NewList, RcReaders, RcmTypeOK
  <2>3. r.last = listed[Opened.region] /\ r.check = active BY <1>2 DEF NewList, CheckAll
  <2>4. r.last \subseteq Configs /\ WasStored(r.last) /\ OnePerPath(r.last)
    BY <2>1, <2>3 DEF RcmTypeOK, ListInv
  <2>5. Superseded(r.last \cup (active \ r.check), active)
    BY <2>3, <2>4 DEF Superseded, OnePerPath, Configs
  <2>6. NotMet \in [reader : RcReaders, list : SUBSET Configs] /\ NotMet.list = {}
    BY DEF NotMet, NoReader, RcReaders
  <2>7. r.met = [t \in RcTargets |-> IF t \in old THEN NotMet ELSE encountered[t]]
    BY <1>2 DEF NewList
  <2>8. r.met \in [RcTargets -> [reader : RcReaders, list : SUBSET Configs]]
    BY <2>6, <2>7 DEF RcmTypeOK
  <2>9. \A t \in RcTargets : WasStored(r.met[t].list) /\ Superseded(r.met[t].list, active)
    BY <2>6, <2>7 DEF ListInv, AppliedInv, WasStored, Superseded
  <2> QED BY <2>2, <2>3, <2>4, <2>5, <2>8, <2>9 DEF ReadInv
<1> QED BY <1>1, <1>2 DEF ReadRegion

\* Taking from what is applied and listed keeps the lists sound.
LEMMA FewerSuperseded ==
  ASSUME NEW S, NEW A, NEW T \in SUBSET S, NEW B \in SUBSET A, Superseded(S, A)
  PROVE  Superseded(T, B)
BY DEF Superseded

\* fetch_update, whatever it yields, keeps the invariant.
LEMMA FetchKeepsInv == RcmInv /\ FetchUpdate => RcmInv'
<1> SUFFICES ASSUME RcmInv, FetchUpdate PROVE RcmInv' OBVIOUS
<1> USE RcmAssumption
<1>1. PICK r \in ReadRegion : /\ rcReader' = r.reader /\ encountered' = r.met
                              /\ YieldRemove(r) \/ YieldAdd(r) \/ YieldNone(r)
  BY DEF FetchUpdate
<1>2. ReadInv(r) BY ReadIsSound, <1>1
<1>3. UNCHANGED <<fileVersion, regions, published, regionOf, listed, rgen, target>>
  BY DEF FetchUpdate, regionVars
<1>4. /\ active \subseteq Configs /\ failed \subseteq Configs /\ OnePerPath(active)
      /\ WasStored(active)
      /\ fileVersion \in [RcPaths -> 0..MaxVersion]
  BY DEF RcmInv, RcmTypeOK, ListInv, NoTwoApplied
<1>5. SUFFICES /\ active' \subseteq Configs /\ lastRead' \subseteq r.last
               /\ checkConfigs' \subseteq active' /\ failed' \subseteq Configs
               /\ settled' \in BOOLEAN
               /\ OnePerPath(active') /\ WasStored(active')
               /\ Superseded(lastRead' \cup (active' \ checkConfigs'), active')
               /\ \A t \in RcTargets : Superseded(r.met[t].list, active')
  <2>1. RcmTypeOK' BY <1>1, <1>2, <1>3, <1>5 DEF RcmInv, RcmTypeOK, ReadInv
  <2>2. ListInv' BY <1>1, <1>2, <1>3, <1>5 DEF RcmInv, ListInv, ReadInv, WasStored, OnePerPath
  <2>3. AppliedInv' BY <1>1, <1>5 DEF AppliedInv
  <2>4. NoTwoApplied' BY <1>5 DEF NoTwoApplied
  <2> QED BY <2>1, <2>2, <2>3, <2>4 DEF RcmInv
<1>6. CASE YieldRemove(r)
  <2>1. PICK c \in r.check \ r.last, popped \in SUBSET (r.check \cap r.last) :
           /\ active' = active \ {c}
           /\ checkConfigs' = r.check \ (popped \cup {c})
    BY <1>6 DEF YieldRemove
  <2>2. lastRead' = r.last /\ settled' = FALSE /\ failed' = failed BY <1>6 DEF YieldRemove
  <2>3. lastRead' \cup (active' \ checkConfigs') \subseteq r.last \cup (active \ r.check)
    BY <2>1, <2>2
  <2>4. Superseded(lastRead' \cup (active' \ checkConfigs'), active')
    BY <1>2, <2>1, <2>3, FewerSuperseded DEF ReadInv
  <2>5. \A t \in RcTargets : Superseded(r.met[t].list, active')
    BY <1>2, <2>1 DEF ReadInv, Superseded
  <2> QED BY <1>2, <1>4, <2>1, <2>2, <2>4, <2>5 DEF ReadInv, OnePerPath, WasStored
<1>7. CASE YieldAdd(r)
  <2>1. PICK c \in (r.last \ active) \cap StoredFiles, popped \in SUBSET r.last :
           /\ active' = active \cup {c}
           /\ lastRead' = r.last \ (popped \cup {c})
           /\ failed' = failed \cup (popped \ active)
    BY <1>7 DEF YieldAdd
  <2>2. checkConfigs' = {} /\ settled' = FALSE /\ r.check \subseteq r.last
    BY <1>7 DEF YieldAdd, AllChecked
  <2>3. c \in Configs /\ c.version = fileVersion[c.path] BY <2>1 DEF StoredFiles
  <2>4. \A d \in active : d.path = c.path => d.version < c.version
    <3>1. SUFFICES ASSUME NEW d \in active, d.path = c.path PROVE d.version < c.version OBVIOUS
    <3>2. d.version <= c.version BY <1>4, <2>3, <3>1 DEF WasStored
    <3>3. d \in Configs /\ d # c BY <1>4, <2>1
    <3>4. d.version # c.version BY <2>3, <3>1, <3>3 DEF Configs
    <3> QED BY <2>3, <3>2, <3>3, <3>4 DEF Configs
  <2>5. \A d \in active : d.path # c.path
    <3>1. SUFFICES ASSUME NEW d \in active, d.path = c.path PROVE FALSE OBVIOUS
    <3>2. d \in r.last \cup (active \ r.check) /\ c \in r.last \cup (active \ r.check)
      BY <2>1, <2>2
    <3> QED BY <1>2, <2>4, <3>1, <3>2 DEF ReadInv, Superseded
  <2>6. OnePerPath(active') BY <1>4, <2>1, <2>5 DEF OnePerPath
  <2>7. WasStored(active') BY <1>4, <2>1, <2>3 DEF WasStored, Configs
  <2>8. ASSUME NEW S, WasStored(S), S \subseteq Configs, Superseded(S, active)
        PROVE  Superseded(S, active')
    <3>1. \A d \in S : d.path = c.path => ~(c.version < d.version)
      BY <1>4, <2>3, <2>8 DEF WasStored, Configs
    <3> QED BY <2>1, <2>8, <3>1 DEF Superseded
  <2>9. /\ lastRead' \cup (active' \ checkConfigs') \subseteq r.last \cup (active \ r.check)
        /\ r.last \cup (active \ r.check) \subseteq Configs
        /\ WasStored(r.last \cup (active \ r.check))
    BY <1>2, <1>4, <2>1, <2>2 DEF ReadInv, WasStored
  <2>10. Superseded(r.last \cup (active \ r.check), active')
    BY <1>2, <2>8, <2>9 DEF ReadInv
  <2>11. Superseded(lastRead' \cup (active' \ checkConfigs'), active')
    BY <2>9, <2>10, FewerSuperseded
  <2>12. \A t \in RcTargets : Superseded(r.met[t].list, active')
    BY <1>2, <2>8 DEF ReadInv
  <2> QED BY <1>2, <1>4, <2>1, <2>2, <2>3, <2>6, <2>7, <2>11, <2>12 DEF ReadInv
<1>8. CASE YieldNone(r)
  <2>1. /\ checkConfigs' = {} /\ lastRead' = {} /\ settled' = TRUE /\ active' = active
        /\ failed' = failed \cup (r.last \ active) /\ r.check \subseteq r.last
    BY <1>8 DEF YieldNone, AllChecked
  <2>2. lastRead' \cup (active' \ checkConfigs') \subseteq r.last \cup (active \ r.check)
    BY <2>1
  <2>3. Superseded(lastRead' \cup (active' \ checkConfigs'), active')
    BY <1>2, <2>1, <2>2, FewerSuperseded DEF ReadInv
  <2> QED BY <1>2, <1>4, <2>1, <2>3 DEF ReadInv, WasStored
<1> QED BY <1>1, <1>6, <1>7, <1>8

\* What the sidecar does keeps the invariant: files get newer, lists name
\* fileVersion files only, and expired regions are empty.
LEMMA SidecarKeepsInv ==
  ASSUME RcmInv,
         \/ \E p \in RcPaths : StoreFile(p)
         \/ \E t \in RcTargets : CreateWriter(t) \/ ExpireTarget(t)
         \/ \E t \in RcTargets, l \in SUBSET Configs : Publish(t, l)
  PROVE  RcmInv'
<1> USE RcmAssumption
<1>1. UNCHANGED <<target, rcReader, encountered, active, lastRead, checkConfigs, failed, settled>>
  BY DEF StoreFile, CreateWriter, Publish, ExpireTarget, managerVars
<1>2. AppliedInv' /\ NoTwoApplied'
  BY <1>1 DEF RcmInv, AppliedInv, NoTwoApplied, Superseded, OnePerPath
<1>3. ASSUME NEW p \in RcPaths, StoreFile(p) PROVE RcmInv'
  <2>1. RcmTypeOK' BY <1>1, <1>3 DEF RcmInv, RcmTypeOK, StoreFile
  <2>2. ASSUME NEW S \in SUBSET Configs, WasStored(S) PROVE \A c \in S : c.version <= fileVersion'[c.path]
    BY <1>3, <2>2 DEF RcmInv, RcmTypeOK, StoreFile, WasStored, Configs
  <2>3. ListInv'
    BY <1>1, <1>3, <2>2 DEF RcmInv, RcmTypeOK, ListInv, StoreFile, WasStored, OnePerPath
  <2> QED BY <1>2, <2>1, <2>3 DEF RcmInv
<1>4. ASSUME NEW t \in RcTargets, CreateWriter(t) PROVE RcmInv'
  <2>1. regions + 1 \in Regions /\ regions + 1 \in 0..MaxRegions
    BY <1>4 DEF RcmInv, RcmTypeOK, CreateWriter, Regions
  <2>2. RcmTypeOK' BY <1>1, <1>4, <2>1 DEF RcmInv, RcmTypeOK, CreateWriter
  <2>3. ListInv' BY <1>1, <1>4 DEF RcmInv, ListInv, CreateWriter, WasStored, OnePerPath
  <2> QED BY <1>2, <2>2, <2>3 DEF RcmInv
<1>5. ASSUME NEW t \in RcTargets, NEW l \in SUBSET Configs, Publish(t, l) PROVE RcmInv'
  <2>1. regionOf[t] \in Regions BY <1>5 DEF RcmInv, RcmTypeOK, Publish, Regions
  <2>2. RcmTypeOK' BY <1>1, <1>5, <2>1 DEF RcmInv, RcmTypeOK, Publish
  <2>3. OnePerPath(l) /\ \A c \in l : c.version <= fileVersion[c.path]
    BY <1>5 DEF Publish, StoredFiles, OnePerPath, Configs
  <2>4. ListInv' BY <1>1, <1>5, <2>1, <2>3 DEF RcmInv, RcmTypeOK, ListInv, Publish, WasStored, OnePerPath
  <2> QED BY <1>2, <2>2, <2>4 DEF RcmInv
<1>6. ASSUME NEW t \in RcTargets, ExpireTarget(t) PROVE RcmInv'
  <2>1. regionOf[t] \in Regions BY <1>6 DEF RcmInv, RcmTypeOK, ExpireTarget, Regions
  <2>2. RcmTypeOK' BY <1>1, <1>6, <2>1 DEF RcmInv, RcmTypeOK, ExpireTarget
  <2>3. ListInv' BY <1>1, <1>6, <2>1 DEF RcmInv, RcmTypeOK, ListInv, ExpireTarget, WasStored, OnePerPath
  <2> QED BY <1>2, <2>2, <2>3 DEF RcmInv
<1> QED BY <1>3, <1>4, <1>5, <1>6

\* Switching the target keeps lists that were sound: what set_target remembers
\* of the old target, and what it resumes of the new one.
LEMMA SwitchIsSound ==
  ASSUME RcmInv, NEW t \in RcTargets \cup {"none"}, SetTarget(t)
  PROVE  /\ target' \in RcTargets \cup {"none"} /\ rcReader' \in RcReaders
         /\ lastRead' \subseteq Configs /\ WasStored(lastRead') /\ Superseded(lastRead', active)
         /\ encountered' \in [RcTargets -> [reader : RcReaders, list : SUBSET Configs]]
         /\ \A u \in RcTargets : WasStored(encountered'[u].list) /\ Superseded(encountered'[u].list, active)
<1> USE RcmAssumption
<1> DEFINE Met == [reader : RcReaders, list : SUBSET Configs]
           Sound(m) == m \in Met /\ WasStored(m.list) /\ Superseded(m.list, active)
<1>1. Sound(NotMet) BY DEF NotMet, NoReader, RcReaders, WasStored, Superseded
<1>2. CurrentConfigs \subseteq lastRead \cup (active \ checkConfigs)
  BY DEF CurrentConfigs
<1>3. /\ CurrentConfigs \subseteq Configs /\ WasStored(CurrentConfigs)
      /\ Superseded(CurrentConfigs, active)
  <2>1. Superseded(CurrentConfigs, active)
    BY <1>2, FewerSuperseded DEF RcmInv, AppliedInv
  <2> QED BY <1>2, <2>1 DEF RcmInv, RcmTypeOK, ListInv, WasStored
<1>4. Sound([reader |-> rcReader, list |-> CurrentConfigs])
  BY <1>3 DEF RcmInv, RcmTypeOK
<1>5. \A u \in RcTargets : Sound(encountered[u])
  BY DEF RcmInv, RcmTypeOK, ListInv, AppliedInv
<1>6. \A u \in RcTargets : Sound(Saved[u])
  BY <1>4, <1>5 DEF Saved, RcmInv, RcmTypeOK
<1> HIDE DEF Sound
<1>7. \E m : /\ Sound(m) /\ rcReader' = m.reader /\ lastRead' = m.list
  BY <1>1, <1>6 DEF SetTarget
<1>8. \A u \in RcTargets : Sound(encountered'[u])
  BY <1>1, <1>6 DEF SetTarget
<1>9. encountered' = [u \in RcTargets |-> encountered'[u]] /\ target' = t
  BY DEF SetTarget
<1>10. encountered' \in [RcTargets -> Met]
  BY <1>8, <1>9 DEF Sound
<1> QED BY <1>7, <1>8, <1>9, <1>10 DEF Sound

\* The calls that switch the target, reset the manager or unload products.
LEMMA CallsKeepInv ==
  ASSUME RcmInv,
         \/ \E t \in RcTargets \cup {"none"} : TrackTarget(t)
         \/ Reset
         \/ \E products \in SUBSET RcProducts : UnloadConfigs(products)
  PROVE  RcmInv'
<1> USE RcmAssumption
<1>1. UNCHANGED <<fileVersion, regions, published, regionOf, listed, rgen, failed>>
  BY DEF TrackTarget, Reset, UnloadConfigs, SetTarget, regionVars
<1>2. ASSUME NEW t \in RcTargets \cup {"none"}, TrackTarget(t) PROVE RcmInv'
  <2>1. SetTarget(t) /\ checkConfigs' = active /\ active' = active /\ settled' = FALSE
    BY <1>2 DEF TrackTarget, SetTarget
  <2>2. lastRead' \cup (active' \ checkConfigs') = lastRead' BY <2>1
  <2>3. RcmTypeOK' BY <1>1, <2>1, SwitchIsSound DEF RcmInv, RcmTypeOK
  <2>4. ListInv' BY <1>1, <2>1, SwitchIsSound DEF RcmInv, ListInv, WasStored, OnePerPath
  <2>5. AppliedInv' BY <2>1, <2>2, SwitchIsSound DEF AppliedInv
  <2>6. NoTwoApplied' BY <2>1 DEF RcmInv, NoTwoApplied, OnePerPath
  <2> QED BY <2>3, <2>4, <2>5, <2>6 DEF RcmInv
<1>3. CASE Reset
  <2>1. SetTarget("none") /\ checkConfigs' = {} /\ active' = {} /\ settled' = FALSE
    BY <1>3 DEF Reset, SetTarget
  <2>2. RcmTypeOK' BY <1>1, <2>1, SwitchIsSound DEF RcmInv, RcmTypeOK
  <2>3. ListInv' BY <1>1, <2>1, SwitchIsSound DEF RcmInv, ListInv, WasStored, OnePerPath
  <2>4. AppliedInv' BY <2>1 DEF AppliedInv, Superseded
  <2>5. NoTwoApplied' BY <2>1 DEF NoTwoApplied, OnePerPath
  <2> QED BY <2>2, <2>3, <2>4, <2>5 DEF RcmInv
<1>4. ASSUME NEW products \in SUBSET RcProducts, UnloadConfigs(products) PROVE RcmInv'
  <2> DEFINE unloaded == {c \in active : RcProductOf[c.path] \in products}
  <2>1. /\ active' = active \ unloaded /\ checkConfigs' = checkConfigs \ unloaded
        /\ lastRead' = lastRead \cup unloaded /\ settled' = FALSE
        /\ UNCHANGED <<target, rcReader, encountered>>
    BY <1>4 DEF UnloadConfigs
  <2>2. unloaded \subseteq active OBVIOUS
  <2> HIDE DEF unloaded
  <2>3. RcmTypeOK' BY <1>1, <2>1, <2>2 DEF RcmInv, RcmTypeOK
  <2>4. ListInv' BY <1>1, <2>1, <2>2 DEF RcmInv, ListInv, WasStored, OnePerPath
  <2>5. Superseded(lastRead' \cup (active' \ checkConfigs'), active')
    <3>1. SUFFICES ASSUME NEW c \in lastRead' \cup (active' \ checkConfigs'),
                          NEW d \in lastRead' \cup (active' \ checkConfigs'),
                          c.path = d.path, c.version < d.version, c \in active'
                   PROVE  FALSE
      BY DEF Superseded
    <3>2. c \in active /\ c \in Configs /\ c # d
      BY <2>1, <3>1 DEF RcmInv, RcmTypeOK, Configs
    <3>3. d \notin active BY <3>1, <3>2 DEF RcmInv, NoTwoApplied, OnePerPath
    <3>4. d \in lastRead BY <2>1, <2>2, <3>1, <3>3
    <3>5. c \in lastRead \cup (active \ checkConfigs) BY <2>1, <2>2, <3>1
    <3> QED BY <3>1, <3>2, <3>4, <3>5 DEF RcmInv, AppliedInv, Superseded
  <2>6. AppliedInv' BY <2>1, <2>5 DEF RcmInv, AppliedInv, Superseded
  <2>7. NoTwoApplied' BY <2>1 DEF RcmInv, NoTwoApplied, OnePerPath
  <2> QED BY <2>3, <2>4, <2>6, <2>7 DEF RcmInv
<1> QED BY <1>2, <1>3, <1>4

\* "It is guaranteed that no two configurations sharing the same
\* RemoteConfigPath are applied at once": fetch_update never adds a version of a
\* path while another is applied, whatever lists the sidecar publishes and
\* whenever targets are switched, reset or configurations unloaded.
THEOREM NeverTwoApplied == RcmSpec => []NoTwoApplied
<1>1. RcmInv /\ [RcmNext]_rcmVars => RcmInv'
  <2> SUFFICES ASSUME RcmInv, [RcmNext]_rcmVars PROVE RcmInv' OBVIOUS
  <2>1. CASE UNCHANGED rcmVars
    BY <2>1 DEF RcmInv, RcmTypeOK, ListInv, AppliedInv, NoTwoApplied, OnePerPath, WasStored,
                Superseded, rcmVars, regionVars, managerVars
  <2>2. CASE RcmNext
    BY <2>2, FetchKeepsInv, SidecarKeepsInv, CallsKeepInv DEF RcmNext
  <2> QED BY <2>1, <2>2
<1>2. RcmInv => NoTwoApplied BY DEF RcmInv
<1> QED BY RcmInitInv, <1>1, <1>2, PTL DEF RcmSpec
=============================================================================
