--------------------------- MODULE DraftingProofs ---------------------------
(***************************************************************************)
(* What TLAPS proves of the parts of a story that are worked on between    *)
(* its turns.                                                              *)
(*                                                                         *)
(* The runtime profiles, by ProfilesInv: the pinned snapshot is the one    *)
(* that is active, and it shows what the config sets. Every operation      *)
(* makes and publishes its snapshot in one transaction.                    *)
(*                                                                         *)
(* The chapters, by ChapterInv. Beats are covered in order because an      *)
(* adoption is checked twice: against the first beat that the whole story  *)
(* leaves open, and against the first one that all but its own segment     *)
(* leave open (AcceptanceInOrder, CompletionInOrder). Who else may write   *)
(* what, and whether it tells the story, does not matter, since nothing    *)
(* that is not settled is told (SettledIsAccepted). A chapter that was     *)
(* left stays as it is because what an adoption is about is of the current *)
(* chapter (PendingIsOwn, ResolvedIsSeen).                                 *)
(*                                                                         *)
(* The brainstorms, by BrainstormInv: at most one window is open, each     *)
(* batch is drawn from a window of its own that is behind, and what a      *)
(* request holds while it waits for the model is the brainstorm of some    *)
(* revision, which is the stored one if its revision is still the stored   *)
(* one (LoadedIsKnown).                                                    *)
(*                                                                         *)
(* The review of a draft, by ReviewInv: what an overlay, a request or a    *)
(* candidate refers to is there and about the same text (AnchorsHold,      *)
(* RequestsHold), a candidate for a paragraph is its draft with the        *)
(* targets rewritten (CandidatesHold), and a choice is of a candidate      *)
(* there is (ChoicesHold).                                                 *)
(*                                                                         *)
(* The memory of a story, by MemoryInv: an asset has the chunks it was     *)
(* indexed with or none (IndexAgrees), a version of the source that is     *)
(* active has chunks if it could be indexed and one that was replaced has  *)
(* none (SourcesHold). So a replacement moves one of the versions that are *)
(* counted, or adds to both sides of the count (AddsUp).                   *)
(***************************************************************************)
EXTENDS RuntimeProfiles, ChapterRuntime, Brainstorm, DraftReview, MemoryIndex,
        FiniteSetTheorems, SequenceTheorems, TLAPS

-----------------------------------------------------------------------------
(* The runtime profiles.                                                   *)

Snapshot == [compiled : Compiled, source : SnapshotSource,
             status : SnapshotStatus]
PublishReceipt == [before : SnapshotIds, after : SnapshotIds]
Stores == [snapshots : Seq(Snapshot), pinned : Nat]

\* A store whose one active snapshot is the pinned one.
PinnedIsActive(s) ==
    /\ s.pinned <= Len(s.snapshots)
    /\ \A i \in DOMAIN s.snapshots :
         s.snapshots[i].status = "active" <=> i = s.pinned
\* Its pinned snapshot shows what config c sets.
ShowsConfig(s, c) ==
    s.pinned # 0 =>
      LET snapshot == s.snapshots[s.pinned]
      IN  \A f \in Fields :
            (\/ Governs[snapshot.compiled.defaults][f] = "open"
             \/ snapshot.source.from # 0)
              => ShownAsSet(f, c[f], snapshot.compiled.values[f])

ProfilesInv ==
    /\ defaults \in 0..MaxDefaults /\ config \in Configs
    /\ snapshots \in Seq(Snapshot) /\ Len(snapshots) <= MaxSnapshots
    /\ pinned \in 0..Len(snapshots)
    /\ receipts \in Seq(PublishReceipt)
    /\ turnProfile \in Seq(SnapshotIds)
    /\ OneActiveProfile /\ ConfigIsInForce

LEMMA ProfileStoreIsGood ==
    ASSUME ProfilesInv
    PROVE  /\ ProfileStore \in Stores
           /\ PinnedIsActive(ProfileStore) /\ ShowsConfig(ProfileStore, config)
BY DEF ProfilesInv, ProfileStore, Stores, PinnedIsActive, ShowsConfig,
       OneActiveProfile, ConfigIsInForce

LEMMA SourcesAreTyped ==
    ASSUME ProfilesInv
    PROVE  CompiledNow \in Compiled /\ SourceNow \in SnapshotSource
<1>1. defaults \in 0..MaxDefaults /\ config \in [Fields -> Setting]
  BY ProfileBounds DEF ProfilesInv
<1>2. \A f \in Fields : CompiledValue(f, defaults, config[f]) \in FieldValues
  <2> SUFFICES ASSUME NEW f \in Fields
               PROVE  CompiledValue(f, defaults, config[f]) \in FieldValues
    OBVIOUS
  <2>1. config[f] \in Setting
    BY <1>1
  <2>2. config[f].plain \in FieldValues
    BY <2>1 DEF Setting
  <2> QED
    BY <2>2, ProfileBounds DEF CompiledValue, FieldValues
<1>3. CompiledNow \in Compiled
  BY <1>1, <1>2 DEF CompiledNow, Compiled
<1> QED
  BY <1>1, <1>3, ProfileBounds DEF SourceNow, SnapshotSource

\* A profile that was compiled shows what the config sets where it decides.
LEMMA CompiledShows ==
    ASSUME NEW f \in Fields, NEW c \in Configs,
           Governs[defaults][f] = "open"
    PROVE  ShownAsSet(f, c[f], CompiledValue(f, defaults, c[f]))
<1>1. c[f] \in Setting
  BY ProfileBounds
<1> QED
  BY <1>1, ProfileBounds DEF ShownAsSet, CompiledValue, Setting, FieldValues

\* A snapshot that is created and published is the one that is active, the
\* older ones keep what they were compiled to.
LEMMA PublishedIsActive ==
    ASSUME NEW s \in Stores, NEW compiled \in Compiled,
           NEW source \in SnapshotSource, NEW p,
           p = PublishedProfile(CreatedSnapshot(s, compiled, source),
                                Len(s.snapshots) + 1)
    PROVE  /\ p \in Stores /\ PinnedIsActive(p)
           /\ Len(p.snapshots) = Len(s.snapshots) + 1
           /\ p.pinned = Len(s.snapshots) + 1
           /\ p.snapshots[p.pinned].compiled = compiled
           /\ p.snapshots[p.pinned].source = source
           /\ \A i \in DOMAIN s.snapshots :
                p.snapshots[i].compiled = s.snapshots[i].compiled
<1> DEFINE n == Len(s.snapshots)
           new == [compiled |-> compiled, source |-> source, status |-> "draft"]
           all == Append(s.snapshots, new)
           c == CreatedSnapshot(s, compiled, source)
           Turned(i) == IF i = n + 1 THEN [all[i] EXCEPT !.status = "active"]
                        ELSE IF all[i].status = "active"
                          THEN [all[i] EXCEPT !.status = "superseded"]
                        ELSE all[i]
<1>1. /\ s.snapshots \in Seq(Snapshot) /\ n \in Nat
      /\ new \in Snapshot /\ new.compiled = compiled /\ new.source = source
  BY DEF Stores, Snapshot, SnapshotStatus
<1>2. /\ all \in Seq(Snapshot) /\ Len(all) = n + 1 /\ all[n + 1] = new
      /\ DOMAIN all = 1..(n + 1) /\ DOMAIN s.snapshots = 1..n
      /\ \A i \in 1..n : all[i] = s.snapshots[i]
  BY <1>1
<1>3. c.snapshots = all
  BY DEF CreatedSnapshot, Stores
<1>4. p = [snapshots |-> [i \in 1..(n + 1) |-> Turned(i)], pinned |-> n + 1]
  BY <1>2, <1>3 DEF PublishedProfile
<1>5. \A i \in 1..(n + 1) : all[i] \in Snapshot
  BY <1>2
<1> HIDE DEF new, all, c
<1>6. \A i \in 1..(n + 1) :
        /\ Turned(i) \in Snapshot /\ Turned(i).compiled = all[i].compiled
        /\ Turned(i).source = all[i].source
        /\ Turned(i).status = "active" <=> i = n + 1
  BY <1>5 DEF Snapshot, SnapshotStatus
<1> HIDE DEF Turned
<1>7. p.snapshots = [i \in 1..(n + 1) |-> Turned(i)] /\ p.pinned = n + 1
  BY <1>4
<1>8. p.snapshots \in Seq(Snapshot) /\ Len(p.snapshots) = n + 1
  BY <1>1, <1>6, <1>7
<1>9. p \in Stores
  BY <1>1, <1>4, <1>8 DEF Stores
<1>10. PinnedIsActive(p)
  BY <1>1, <1>6, <1>7, <1>8 DEF PinnedIsActive
<1>11. \A i \in DOMAIN s.snapshots :
         p.snapshots[i].compiled = s.snapshots[i].compiled
  BY <1>1, <1>2, <1>6, <1>7
<1>12. /\ p.snapshots[p.pinned].compiled = compiled
       /\ p.snapshots[p.pinned].source = source
  BY <1>1, <1>2, <1>6, <1>7
<1> QED
  BY <1>7, <1>8, <1>9, <1>10, <1>11, <1>12

\* Whatever is ensured keeps the session on one profile that shows the config.
LEMMA EnsuredIsGood ==
    ASSUME ProfilesInv, NEW s \in Stores, PinnedIsActive(s),
           ShowsConfig(s, config), NEW e, e = EnsuredProfile(s)
    PROVE  /\ e \in Stores /\ PinnedIsActive(e) /\ ShowsConfig(e, config)
           /\ e.pinned # 0 /\ Len(s.snapshots) <= Len(e.snapshots)
<1>a. Len(s.snapshots) \in Nat
  BY DEF Stores
<1>1. CASE s.pinned # 0 /\ s.snapshots[s.pinned].source = SourceNow
  BY <1>1, <1>a DEF EnsuredProfile
<1>2. CASE ~(s.pinned # 0 /\ s.snapshots[s.pinned].source = SourceNow)
  <2>1. e = PublishedProfile(CreatedSnapshot(s, CompiledNow, SourceNow),
                             Len(s.snapshots) + 1)
    BY <1>2 DEF EnsuredProfile
  <2>2. /\ e \in Stores /\ PinnedIsActive(e)
        /\ Len(e.snapshots) = Len(s.snapshots) + 1
        /\ e.pinned = Len(s.snapshots) + 1
        /\ e.snapshots[e.pinned].compiled = CompiledNow
        /\ e.snapshots[e.pinned].source = SourceNow
    BY <2>1, SourcesAreTyped, PublishedIsActive
  <2>3. ShowsConfig(e, config)
    <3> SUFFICES ASSUME NEW f \in Fields,
                        \/ Governs[CompiledNow.defaults][f] = "open"
                        \/ SourceNow.from # 0
                 PROVE  ShownAsSet(f, config[f], CompiledNow.values[f])
      BY <2>2 DEF ShowsConfig
    <3>1. SourceNow.from = 0
      BY DEF SourceNow
    <3>2. /\ CompiledNow.defaults = defaults
          /\ CompiledNow.values[f] = CompiledValue(f, defaults, config[f])
      BY DEF CompiledNow
    <3> QED
      BY <3>1, <3>2, CompiledShows DEF ProfilesInv
  <2> QED
    BY <2>2, <2>3, <1>a
<1> QED
  BY <1>1, <1>2

\* The active store: the session's own, but where nothing is pinned yet.
LEMMA ActiveIsGood ==
    ASSUME ProfilesInv, NEW a, a = ActiveIn(ProfileStore)
    PROVE  /\ a \in Stores /\ PinnedIsActive(a) /\ ShowsConfig(a, config)
           /\ a.pinned \in 1..Len(a.snapshots)
<1> DEFINE s == ProfileStore
           active == {i \in DOMAIN s.snapshots : s.snapshots[i].status = "active"}
<1>1. s \in Stores /\ PinnedIsActive(s) /\ ShowsConfig(s, config)
  BY ProfileStoreIsGood
<1>2. active \subseteq {s.pinned}
  BY <1>1 DEF PinnedIsActive
<1> HIDE DEF s
<1>3. CASE s.pinned \in active
  <2>1. a = s
    BY <1>3 DEF ActiveIn, s
  <2>2. s.pinned \in 1..Len(s.snapshots)
    BY <1>1, <1>3 DEF Stores
  <2> QED
    BY <1>1, <2>1, <2>2
<1>4. CASE s.pinned \notin active
  <2>1. active = {}
    BY <1>2, <1>4
  <2>2. a = EnsuredProfile(s)
    BY <1>4, <2>1 DEF ActiveIn, s
  <2>3. /\ a \in Stores /\ PinnedIsActive(a) /\ ShowsConfig(a, config)
        /\ a.pinned # 0
    BY <1>1, <2>2, EnsuredIsGood
  <2>4. a.pinned \in 1..Len(a.snapshots)
    BY <2>3 DEF Stores, PinnedIsActive
  <2> QED
    BY <2>3, <2>4
<1> QED
  BY <1>3, <1>4

\* A store that is good can be saved.
LEMMA SavedIsGood ==
    ASSUME NEW s \in Stores, PinnedIsActive(s), ShowsConfig(s, config'),
           SaveProfiles(s)
    PROVE  /\ snapshots' \in Seq(Snapshot) /\ Len(snapshots') <= MaxSnapshots
           /\ pinned' \in 0..Len(snapshots')
           /\ OneActiveProfile' /\ ConfigIsInForce'
BY DEF SaveProfiles, Stores, PinnedIsActive, ShowsConfig, OneActiveProfile,
       ConfigIsInForce

\* The profile an edit publishes: what the config sets is shown, what it does
\* not set is as it was.
LEMMA PatchShowsConfig ==
    ASSUME NEW compiled \in Compiled, NEW next \in Configs
    PROVE  LET after == PatchedProfile(compiled, next)
           IN  /\ after \in Compiled /\ after.defaults = compiled.defaults
               /\ after.followed = compiled.followed
               /\ \A f \in Fields :
                    /\ ShownAsSet(f, next[f], after.values[f])
                    /\ after.values[f] # compiled.values[f] =>
                         /\ after.values[f] \in {next[f].section, next[f].plain}
                         /\ ~ShownAsSet(f, next[f], compiled.values[f])
<1> DEFINE Value(f) ==
             IF next[f].section \in 1..MaxValue THEN next[f].section
             ELSE IF next[f].section = 0 /\ next[f].plain # 0 /\ f \in Patched
               THEN next[f].plain
             ELSE compiled.values[f]
           after == PatchedProfile(compiled, next)
<1>1. \A f \in Fields : /\ next[f] \in Setting
                        /\ compiled.values[f] \in FieldValues
  BY ProfileBounds DEF Compiled
<1>2. \A f \in Fields : Value(f) \in FieldValues
  BY <1>1, ProfileBounds DEF Setting, FieldValues
<1>3. \A f \in Fields :
        /\ ShownAsSet(f, next[f], Value(f))
        /\ Value(f) # compiled.values[f] =>
             /\ Value(f) \in {next[f].section, next[f].plain}
             /\ ~ShownAsSet(f, next[f], compiled.values[f])
  BY <1>1, ProfileBounds DEF Setting, FieldValues, ShownAsSet
<1>4. after = [compiled EXCEPT !.values = [f \in Fields |-> Value(f)]]
  BY DEF PatchedProfile
<1> HIDE DEF Value, after
<1>5. /\ after.values = [f \in Fields |-> Value(f)]
      /\ after.defaults = compiled.defaults /\ after.followed = compiled.followed
      /\ after \in Compiled
  BY <1>2, <1>4 DEF Compiled
<1>6. \A f \in Fields : after.values[f] = Value(f)
  BY <1>5
<1> QED
  BY <1>3, <1>5, <1>6 DEF after

\* An edit.
LEMMA PublishPatchStep ==
    ASSUME ProfilesInv, NEW next \in Configs,
           NEW expected \in 0..MaxSnapshots, PublishPatch(next, expected)
    PROVE  ProfilesInv' /\ EditsDoNotRebase
<1> DEFINE s == ActiveIn(ProfileStore)
           compiled == s.snapshots[s.pinned].compiled
           patched == PatchedProfile(compiled, next)
           source == [compiled |-> patched, config |-> next, from |-> s.pinned]
           created == CreatedSnapshot(s, patched, source)
           p == PublishedProfile(created, Len(s.snapshots) + 1)
           receipt == [before |-> s.pinned, after |-> Len(s.snapshots) + 1]
<1>1. /\ s \in Stores /\ PinnedIsActive(s) /\ ShowsConfig(s, config)
      /\ s.pinned \in 1..Len(s.snapshots)
  BY ActiveIsGood
<1>2. next \in [Fields -> Setting]
  BY ProfileBounds
<1>3. Len(created.snapshots) = Len(s.snapshots) + 1
  BY <1>1 DEF CreatedSnapshot, Stores
<1>4. /\ SaveProfiles(p) /\ config' = next
      /\ receipts' = Append(receipts, receipt)
      /\ UNCHANGED <<defaults, turnProfile>>
  BY <1>3 DEF PublishPatch
<1> HIDE DEF s
<1>5. compiled \in Compiled
  <2>1. s.snapshots \in Seq(Snapshot)
    BY <1>1 DEF Stores
  <2>2. s.snapshots[s.pinned] \in Snapshot
    BY <1>1, <2>1
  <2> QED
    BY <2>2 DEF Snapshot
<1> HIDE DEF compiled
<1>6. /\ patched \in Compiled /\ patched.defaults = compiled.defaults
      /\ patched.followed = compiled.followed
      /\ \A g \in Fields :
           /\ ShownAsSet(g, next[g], patched.values[g])
           /\ patched.values[g] # compiled.values[g] =>
                /\ patched.values[g] \in {next[g].section, next[g].plain}
                /\ ~ShownAsSet(g, next[g], compiled.values[g])
  BY <1>5, PatchShowsConfig
<1> HIDE DEF patched
<1>7. Len(s.snapshots) \in Nat
  BY <1>1 DEF Stores
<1>8. Len(p.snapshots) = Len(s.snapshots) + 1
  BY <1>1, <1>3 DEF PublishedProfile, CreatedSnapshot, Stores
<1>9. Len(s.snapshots) + 1 <= MaxSnapshots
  BY <1>4, <1>8 DEF SaveProfiles
<1>10. source \in SnapshotSource
  BY <1>1, <1>2, <1>6, <1>7, <1>9, ProfileBounds DEF SnapshotSource
<1> HIDE DEF source
<1>11. /\ p \in Stores /\ PinnedIsActive(p)
       /\ p.pinned = Len(s.snapshots) + 1
       /\ p.snapshots[p.pinned].compiled = patched
       /\ \A i \in DOMAIN s.snapshots :
            p.snapshots[i].compiled = s.snapshots[i].compiled
  BY <1>1, <1>6, <1>10, PublishedIsActive
<1> HIDE DEF created, p
<1>12. ShowsConfig(p, config')
  BY <1>4, <1>6, <1>11 DEF ShowsConfig
<1>13. receipt \in PublishReceipt
  BY <1>1, <1>7, <1>9, ProfileBounds DEF SnapshotIds, PublishReceipt
<1>14. ProfilesInv'
  <2>1. receipts' \in Seq(PublishReceipt)
    BY <1>4, <1>13 DEF ProfilesInv
  <2>2. /\ snapshots' \in Seq(Snapshot) /\ Len(snapshots') <= MaxSnapshots
        /\ pinned' \in 0..Len(snapshots')
        /\ OneActiveProfile' /\ ConfigIsInForce'
    BY <1>4, <1>11, <1>12, SavedIsGood
  <2> QED
    BY <1>2, <1>4, <2>1, <2>2 DEF ProfilesInv
<1>15. Last(receipts') = receipt
  BY <1>4 DEF Last, ProfilesInv
<1>16. /\ snapshots'[receipt.before].compiled = compiled
       /\ snapshots'[receipt.after].compiled = patched
  BY <1>1, <1>4, <1>7, <1>11 DEF SaveProfiles, compiled, Stores
<1>17. ASSUME NEW g \in Fields, patched.values[g] # compiled.values[g],
              config'[g] = config[g]
       PROVE  Governs[compiled.defaults][g] # "open"
  <2>1. ~ShownAsSet(g, config[g], compiled.values[g])
    BY <1>4, <1>6, <1>17
  <2>2. Governs[compiled.defaults][g] = "open"
          => ShownAsSet(g, config[g], compiled.values[g])
    BY <1>1 DEF ShowsConfig, compiled
  <2> QED
    BY <2>1, <2>2
<1> HIDE DEF receipt
<1>18. EditsDoNotRebase
  BY <1>4, <1>6, <1>15, <1>16, <1>17 DEF EditsDoNotRebase
<1> QED
  BY <1>14, <1>18

LEMMA ProfilesInvInit == ProfilesInit => ProfilesInv
BY ProfileBounds
   DEF ProfilesInit, ProfilesInv, OneActiveProfile, ConfigIsInForce

LEMMA ProfilesInvStep == ProfilesInv /\ [ProfilesNext]_profileVars => ProfilesInv'
<1> SUFFICES ASSUME ProfilesInv, [ProfilesNext]_profileVars
             PROVE  ProfilesInv'
  OBVIOUS
<1>1. CASE ChangeDefaults
  BY <1>1, ProfileBounds
     DEF ChangeDefaults, ProfilesInv, OneActiveProfile, ConfigIsInForce
<1>2. CASE EnsureActive
  <2> DEFINE e == EnsuredProfile(ProfileStore)
  <2>1. /\ SaveProfiles(e) /\ UNCHANGED <<defaults, config, receipts, turnProfile>>
    BY <1>2 DEF EnsureActive
  <2>2. e \in Stores /\ PinnedIsActive(e) /\ ShowsConfig(e, config)
    BY ProfileStoreIsGood, EnsuredIsGood
  <2> HIDE DEF e
  <2> QED
    BY <2>1, <2>2, SavedIsGood DEF ProfilesInv
<1>3. ASSUME NEW requested \in 0..MaxSnapshots, EnterTurn(requested)
      PROVE  ProfilesInv'
  <2> DEFINE s == IF requested = 0 THEN ActiveIn(ProfileStore) ELSE ProfileStore
             id == IF requested = 0 THEN s.pinned ELSE requested
  <2>1. /\ SaveProfiles(s) /\ turnProfile' = Append(turnProfile, id)
        /\ UNCHANGED <<defaults, config, receipts>> /\ requested <= Len(snapshots)
    BY <1>3 DEF EnterTurn
  <2>2. /\ s \in Stores /\ PinnedIsActive(s) /\ ShowsConfig(s, config)
        /\ requested = 0 => s.pinned \in 1..Len(s.snapshots)
    BY ProfileStoreIsGood, ActiveIsGood
  <2> HIDE DEF s
  <2>3. Len(s.snapshots) <= MaxSnapshots /\ Len(s.snapshots) \in Nat
    BY <2>1, <2>2 DEF SaveProfiles, Stores
  <2>4. id \in SnapshotIds
    BY <2>1, <2>2, <2>3, ProfileBounds DEF SnapshotIds
  <2> HIDE DEF id
  <2>5. turnProfile' \in Seq(SnapshotIds)
    BY <2>1, <2>4 DEF ProfilesInv
  <2>6. /\ snapshots' \in Seq(Snapshot) /\ Len(snapshots') <= MaxSnapshots
        /\ pinned' \in 0..Len(snapshots')
        /\ OneActiveProfile' /\ ConfigIsInForce'
    BY <2>1, <2>2, SavedIsGood
  <2> QED
    BY <2>1, <2>5, <2>6 DEF ProfilesInv
<1>4. CASE UNCHANGED profileVars
  BY <1>4 DEF profileVars, ProfilesInv, OneActiveProfile, ConfigIsInForce
<1> QED
  BY <1>1, <1>2, <1>3, <1>4, PublishPatchStep DEF ProfilesNext

\* The variables of the runtime profiles keep their types.
THEOREM ProfilesTypesHold == ProfilesSpec => []ProfilesTypeOK
<1>1. ProfilesInv => ProfilesTypeOK
  <2> SUFFICES ASSUME ProfilesInv PROVE ProfilesTypeOK
    OBVIOUS
  <2>1. \A i \in DOMAIN snapshots : snapshots[i] \in Snapshot
    BY DEF ProfilesInv
  <2>2. \A i \in DOMAIN receipts : receipts[i] \in PublishReceipt
    BY DEF ProfilesInv
  <2>3. pinned \in 0..MaxSnapshots
    BY ProfileBounds DEF ProfilesInv
  <2> QED
    BY <2>1, <2>2, <2>3 DEF ProfilesInv, ProfilesTypeOK, Snapshot, PublishReceipt
<1> QED
  BY <1>1, ProfilesInvInit, ProfilesInvStep, PTL DEF ProfilesSpec

\* A session runs on one profile, which shows what its config decides, and an
\* edit moves no field to what the defaults became
\* (RuntimeProfileSnapshotService).
THEOREM ProfilesAlwaysStand == ProfilesSpec => ProfilesStand
<1>1. ProfilesInv => OneActiveProfile /\ ConfigIsInForce
  BY DEF ProfilesInv
<1>2. ProfilesInv /\ [ProfilesNext]_profileVars => [EditsDoNotRebase]_profileVars
  <2> SUFFICES ASSUME ProfilesInv, ProfilesNext PROVE EditsDoNotRebase
    BY DEF ProfilesInv
  <2>1. receipts' = receipts => EditsDoNotRebase
    BY DEF ProfilesInv, EditsDoNotRebase
  <2>2. ASSUME NEW next \in Configs,
               NEW expected \in 0..MaxSnapshots, PublishPatch(next, expected)
        PROVE  EditsDoNotRebase
    BY <2>2, PublishPatchStep
  <2>3. ChangeDefaults \/ EnsureActive
          \/ (\E requested \in 0..MaxSnapshots : EnterTurn(requested))
        => receipts' = receipts
    BY DEF ChangeDefaults, EnsureActive, EnterTurn
  <2> QED
    BY <2>1, <2>2, <2>3 DEF ProfilesNext
<1>3. ProfilesSpec => [](OneActiveProfile /\ ConfigIsInForce)
  BY <1>1, ProfilesInvInit, ProfilesInvStep, PTL DEF ProfilesSpec
<1>4. ProfilesSpec => [][EditsDoNotRebase]_profileVars
  BY <1>2, ProfilesInvInit, ProfilesInvStep, PTL DEF ProfilesSpec
<1> QED
  BY <1>3, <1>4, PTL DEF ProfilesStand

-----------------------------------------------------------------------------
(* The chapters.                                                           *)

LEMMA LeastNat ==
    ASSUME NEW T \in SUBSET Nat, T # {}
    PROVE  \E x \in T : \A y \in T : x <= y
<1> DEFINE Less == {p \in Nat \X Nat : p[1] < p[2]}
<1>1. IsWellFoundedOn(Less, Nat)
  BY NatLessThanWellFounded DEF OpToRel
<1> HIDE DEF Less
<1>2. PICK x \in T : \A y \in T : <<y, x>> \notin Less
  BY <1>1, WFMin
<1>3. \A y \in T : ~(y < x)
  BY <1>2 DEF Less
<1> QED
  BY <1>3

LEMMA AppendIsLast ==
    ASSUME NEW S, NEW s \in Seq(S), NEW x \in S, NEW new, new = Append(s, x)
    PROVE  /\ DOMAIN new = 1..(Len(s) + 1) /\ DOMAIN s = 1..Len(s)
           /\ Len(s) \in Nat /\ new[Len(s) + 1] = x /\ Len(new) = Len(s) + 1
           /\ \A u \in DOMAIN s : new[u] = s[u]
OBVIOUS

\* A pending segment is of its chapter.
PendingIsOwn ==
    \A i \in ChapterIds :
      chapters[i].pending # 0 =>
        /\ chapters[i].pending \in DOMAIN turns
        /\ turns[chapters[i].pending].chapter = i
\* Only a turn whose artifact was accepted is settled.
SettledIsAccepted(ts) ==
    \A t \in DOMAIN ts : ts[t].settled => ts[t].art = "accepted"
OnlyArtifacts(ts) ==
    \A t \in DOMAIN ts : ts[t].art = "none" <=> ts[t].kind = "none"

ChapterInv ==
    /\ chapterIndex \in ChapterIds
    /\ chapters \in [ChapterIds -> Chapter]
    /\ turns \in Seq(Turn) /\ Len(turns) <= MaxChapterTurns
    /\ progress \in Seq(Progress) /\ recall \subseteq TurnIds
    /\ OnlyArtifacts(turns) /\ SettledIsAccepted(turns) /\ PendingIsOwn

\* The current beat is the first one that is not covered.
LEMMA CurrentBeatIsFirst ==
    ASSUME NEW n \in Nat, NEW P \in SUBSET (1..n), NEW c, c = CurrentBeat(P, n)
    PROVE  /\ c \in 0..n
           /\ c = 0 => P = 1..n
           /\ c # 0 => c \notin P /\ \A b \in 1..n : b < c => b \in P
<1>1. CASE 1..n \subseteq P
  <2>1. c = 0
    BY <1>1 DEF CurrentBeat
  <2>2. P = 1..n
    BY <1>1
  <2> QED
    BY <2>1, <2>2
<1>2. CASE ~(1..n \subseteq P)
  <2> DEFINE rest == 1..n \ P
  <2>1. rest # {} /\ rest \in SUBSET Nat
    BY <1>2
  <2>2. \E x \in rest : \A y \in rest : x <= y
    BY <2>1, LeastNat
  <2>3. c = CHOOSE x \in rest : \A y \in rest : x <= y
    BY <1>2 DEF CurrentBeat, Min
  <2>4. c \in rest /\ \A y \in rest : c <= y
    BY <2>2, <2>3
  <2> QED
    BY <2>4
<1> QED
  BY <1>1, <1>2

\* What a segment of the beat counts for.
CountsFor(beat, n) == {IF beat = 0 THEN 1 ELSE beat} \cap 1..n

\* Acceptance: own is the beat the artifact names before, told and tells
\* whether it is part of the story before and after, E what the others cover.
Acceptance(n, E, own, told, tells, P, c, e, beat, Q) ==
    /\ P = E \cup (IF told THEN CountsFor(own, n) ELSE {})
    /\ c = CurrentBeat(P, n) /\ e = CurrentBeat(E, n)
    /\ beat = (IF own # 0 THEN own ELSE c)
    /\ Q = E \cup (IF tells THEN CountsFor(beat, n) ELSE {})
    /\ BeatMatches(beat, c)
    /\ beat # 0 /\ beat \in 1..n => BeatMatches(beat, e)

LEMMA AcceptanceInOrder ==
    ASSUME NEW n \in Nat, NEW E \in SUBSET (1..n), NEW own \in Nat,
           NEW told \in BOOLEAN, NEW tells \in BOOLEAN, told => tells,
           NEW P, NEW c, NEW e, NEW beat, NEW Q,
           Acceptance(n, E, own, told, tells, P, c, e, beat, Q)
    PROVE  Q = P \/ Q = P \cup {c}
<1>a. /\ P = E \cup (IF told THEN CountsFor(own, n) ELSE {})
      /\ Q = E \cup (IF tells THEN CountsFor(beat, n) ELSE {})
  BY DEF Acceptance
<1>b. c = CurrentBeat(P, n) /\ e = CurrentBeat(E, n)
  BY DEF Acceptance
<1>c. /\ beat = (IF own # 0 THEN own ELSE c)
      /\ BeatMatches(beat, c)
      /\ beat # 0 /\ beat \in 1..n => BeatMatches(beat, e)
  BY DEF Acceptance
<1>1. P \in SUBSET (1..n) /\ Q \in SUBSET (1..n)
  BY <1>a DEF CountsFor
<1>2. /\ c \in 0..n
      /\ c = 0 => P = 1..n
      /\ c # 0 => c \notin P /\ \A b \in 1..n : b < c => b \in P
  BY <1>1, <1>b, CurrentBeatIsFirst
<1>3. /\ e \in 0..n
      /\ e = 0 => E = 1..n
      /\ e # 0 => e \notin E /\ \A b \in 1..n : b < e => b \in E
  BY <1>b, CurrentBeatIsFirst
<1>4. CASE ~tells
  BY <1>4, <1>a
<1>5. CASE tells /\ c = 0
  <2>1. beat = own
    BY <1>5, <1>c
  <2>2. CASE told
    BY <1>5, <1>a, <2>1, <2>2
  <2>3. CASE ~told
    <3>1. E = P
      BY <1>a, <2>3
    <3>2. P \subseteq Q
      BY <1>a, <3>1
    <3>3. P = 1..n
      BY <1>2, <1>5
    <3> QED
      BY <1>1, <3>2, <3>3
  <2> QED
    BY <2>2, <2>3
<1>6. CASE tells /\ c # 0
  <2>a. c \in 0..n
    BY <1>2
  <2>0. c \in 1..n
    BY <1>6, <2>a
  <2>1. beat = c /\ c \in 1..n
    BY <1>6, <1>c, <2>0 DEF BeatMatches
  <2>2. CountsFor(beat, n) = {c}
    BY <2>1 DEF CountsFor
  <2>3. Q = E \cup {c}
    BY <1>6, <1>a, <2>2
  <2>4. CASE ~told
    BY <1>a, <2>3, <2>4
  <2>5. CASE told /\ own # 0
    <3>1. c \in P
      BY <1>a, <1>c, <2>2, <2>5
    <3> QED
      BY <1>2, <1>6, <3>1
  <2>6. CASE told /\ own = 0
    <3>1. 1 \in P
      BY <1>a, <2>1, <2>6 DEF CountsFor
    <3>2. e = 0 \/ e = c
      BY <1>c, <2>1 DEF BeatMatches
    <3>3. 1 \in E
      BY <1>2, <1>3, <1>6, <2>1, <3>1, <3>2
    <3>4. P = E
      BY <1>a, <2>6, <3>3 DEF CountsFor
    <3> QED
      BY <2>3, <3>4
  <2> QED
    BY <2>4, <2>5, <2>6
<1> QED
  BY <1>4, <1>5, <1>6

\* The end of a chapter: the draft was no part of the story before, and keeps
\* the beat it names.
Completion(n, P, beat, tells, c, Q) ==
    /\ c = CurrentBeat(P, n)
    /\ Q = P \cup (IF tells THEN CountsFor(beat, n) ELSE {})
    /\ beat # 0 /\ beat \in 1..n => BeatMatches(beat, c)

LEMMA CompletionInOrder ==
    ASSUME NEW n \in Nat, NEW P \in SUBSET (1..n), NEW beat \in Nat,
           NEW tells \in BOOLEAN, NEW c, NEW Q,
           Completion(n, P, beat, tells, c, Q)
    PROVE  Q = P \/ Q = P \cup {c}
<1>a. /\ c = CurrentBeat(P, n)
      /\ beat # 0 /\ beat \in 1..n => BeatMatches(beat, c)
  BY DEF Completion
<1>b. Q = P \cup (IF tells THEN CountsFor(beat, n) ELSE {})
  BY DEF Completion
<1>1. /\ c \in 0..n
      /\ c = 0 => P = 1..n
      /\ c # 0 => c \notin P /\ \A b \in 1..n : b < c => b \in P
  BY <1>a, CurrentBeatIsFirst
<1>2. CASE ~tells
  BY <1>2, <1>b
<1>3. CASE tells /\ beat # 0 /\ beat \in 1..n
  <2>1. CountsFor(beat, n) = {beat} /\ (c = 0 \/ beat = c)
    BY <1>3, <1>a DEF CountsFor, BeatMatches
  <2> QED
    BY <1>1, <1>3, <1>b, <2>1
<1>4. CASE tells /\ beat # 0 /\ beat \notin 1..n
  <2>1. CountsFor(beat, n) = {}
    BY <1>4 DEF CountsFor
  <2> QED
    BY <1>4, <1>b, <2>1
<1>5. CASE tells /\ beat = 0 /\ 1 \in 1..n
  <2>1. CountsFor(beat, n) = {1}
    BY <1>5 DEF CountsFor
  <2>2. CASE c = 0
    BY <1>1, <1>5, <1>b, <2>1, <2>2
  <2>3. CASE c # 0 /\ c # 1
    <3>a. c \in 0..n
      BY <1>1
    <3>1. 1 < c
      BY <2>3, <3>a
    <3>2. 1 \in P
      BY <1>1, <1>5, <2>3, <3>1
    <3> QED
      BY <1>5, <1>b, <2>1, <3>2
  <2>4. CASE c = 1
    BY <1>5, <1>b, <2>1, <2>4
  <2> QED
    BY <2>2, <2>3, <2>4
<1>6. CASE tells /\ beat = 0 /\ 1 \notin 1..n
  <2>1. CountsFor(beat, n) = {}
    BY <1>6 DEF CountsFor
  <2> QED
    BY <1>6, <1>b, <2>1
<1> QED
  BY <1>2, <1>3, <1>4, <1>5, <1>6

\* The story with one of its segments told apart.
LEMMA CoveredSplits ==
    ASSUME NEW ts \in Seq(Turn), NEW i, NEW n, NEW t \in DOMAIN ts
    PROVE  Covered(ts, i, n, {})
             = Covered(ts, i, n, {t})
                 \cup (IF t \in Told(ts, i) THEN CountsFor(ts[t].beat, n) ELSE {})
BY DEF Covered, CountsFor

LEMMA CoveredIsOfOutline ==
    ASSUME NEW ts, NEW i, NEW n, NEW ex
    PROVE  Covered(ts, i, n, ex) \in SUBSET (1..n)
BY DEF Covered

\* Where the same segments are told for the same beats, the same is covered.
LEMMA SameCovered ==
    ASSUME NEW ts, NEW us, NEW i, NEW n, NEW ex,
           Told(us, i) \ ex = Told(ts, i) \ ex,
           \A u \in Told(ts, i) \ ex : us[u].beat = ts[u].beat
    PROVE  Covered(us, i, n, ex) = Covered(ts, i, n, ex)
BY DEF Covered

Appended(new, ts, x) == new = Append(ts, x)

\* A turn that is not settled tells nothing.
LEMMA NewTurnTellsNothing ==
    ASSUME NEW ts \in Seq(Turn), NEW x \in Turn, ~x.settled,
           x.art = "none" <=> x.kind = "none",
           OnlyArtifacts(ts), SettledIsAccepted(ts),
           NEW new, Appended(new, ts, x)
    PROVE  /\ new \in Seq(Turn) /\ OnlyArtifacts(new) /\ SettledIsAccepted(new)
           /\ \A i : Told(new, i) = Told(ts, i)
           /\ \A i, n, ex : Covered(new, i, n, ex) = Covered(ts, i, n, ex)
<1>1. /\ DOMAIN new = 1..(Len(ts) + 1) /\ DOMAIN ts = 1..Len(ts)
      /\ Len(ts) \in Nat /\ new[Len(ts) + 1] = x /\ new \in Seq(Turn)
      /\ \A u \in DOMAIN ts : new[u] = ts[u]
  BY AppendIsLast DEF Appended
<1>2. OnlyArtifacts(new) /\ SettledIsAccepted(new)
  <2> SUFFICES ASSUME NEW u \in DOMAIN new
               PROVE  /\ new[u].art = "none" <=> new[u].kind = "none"
                      /\ new[u].settled => new[u].art = "accepted"
    BY DEF OnlyArtifacts, SettledIsAccepted
  <2>1. CASE u \in DOMAIN ts
    BY <1>1, <2>1 DEF OnlyArtifacts, SettledIsAccepted
  <2>2. CASE u \notin DOMAIN ts
    BY <1>1, <2>2
  <2> QED
    BY <2>1, <2>2
<1>3. ASSUME NEW i PROVE Told(new, i) = Told(ts, i)
  <2>1. \A u : u \in Told(new, i) => u \in DOMAIN ts
    BY <1>1 DEF Told
  <2>2. \A u \in DOMAIN ts : u \in Told(new, i) <=> u \in Told(ts, i)
    BY <1>1 DEF Told
  <2>3. \A u : u \in Told(ts, i) => u \in DOMAIN ts
    BY DEF Told
  <2> QED
    BY <2>1, <2>2, <2>3
<1>4. ASSUME NEW i, NEW n, NEW ex
      PROVE  Covered(new, i, n, ex) = Covered(ts, i, n, ex)
  <2>1. \A u \in Told(ts, i) \ ex : new[u].beat = ts[u].beat
    BY <1>1 DEF Told
  <2>2. Told(new, i) \ ex = Told(ts, i) \ ex
    BY <1>3
  <2> QED
    BY <2>1, <2>2, SameCovered
<1> QED
  BY <1>1, <1>2, <1>3, <1>4

IsAdopted(ts, t, beat, ds) == ts = Adopted(t, beat, ds)

\* An adoption: only the adopted artifact can become part of the story, and it
\* does if it is a segment of a turn that tells it.
LEMMA AdoptedTurns ==
    ASSUME ChapterInv, NEW t \in DOMAIN turns, Seen(t), turns[t].kind # "none",
           NEW beat \in 0..Beats, NEW ds, NEW ts, IsAdopted(ts, t, beat, ds)
    PROVE  /\ ts \in Seq(Turn) /\ Len(ts) = Len(turns)
           /\ DOMAIN ts = DOMAIN turns
           /\ OnlyArtifacts(ts) /\ SettledIsAccepted(ts)
           /\ \A u \in DOMAIN turns : ts[u].chapter = turns[u].chapter
           /\ \A i : i # turns[t].chapter => Told(ts, i) = Told(turns, i)
           /\ \A i : Told(ts, i) \ {t} = Told(turns, i) \ {t}
           /\ t \in Told(ts, turns[t].chapter)
                <=> turns[t].kind = "segment" /\ turns[t].tells
           /\ ts[t].beat = beat
           /\ \A u \in DOMAIN turns : u # t => ts[u].beat = turns[u].beat
<1> DEFINE Changed(u) ==
             IF u = t
               THEN [turns[u] EXCEPT !.art = "accepted", !.bound = TRUE,
                       !.beat = beat,
                       !.settled = @ \/ turns[u].kind = "segment"]
             ELSE IF u \in ds /\ turns[u].kind = "segment" /\ turns[u].art = "draft"
               THEN [turns[u] EXCEPT !.art = "superseded"]
             ELSE turns[u]
<1>1. turns \in Seq(Turn) /\ OnlyArtifacts(turns) /\ SettledIsAccepted(turns)
  BY DEF ChapterInv
<1>2. DOMAIN turns = 1..Len(turns) /\ Len(turns) \in Nat
      /\ \A u \in DOMAIN turns : turns[u] \in Turn
  BY <1>1
<1>3. ts = [u \in DOMAIN turns |-> Changed(u)]
  BY DEF IsAdopted, Adopted
<1>4. \A u \in DOMAIN turns : Changed(u) \in Turn
  BY <1>2 DEF Turn
<1>5. /\ Changed(t).art = "accepted" /\ Changed(t).bound /\ Changed(t).beat = beat
      /\ Changed(t).kind = turns[t].kind /\ Changed(t).tells = turns[t].tells
      /\ Changed(t).hidden = turns[t].hidden
      /\ Changed(t).chapter = turns[t].chapter
      /\ Changed(t).settled = (turns[t].settled \/ turns[t].kind = "segment")
  BY <1>2 DEF Turn
<1>6. \A u \in DOMAIN turns : u # t =>
        /\ Changed(u).bound = turns[u].bound /\ Changed(u).beat = turns[u].beat
        /\ Changed(u).kind = turns[u].kind /\ Changed(u).tells = turns[u].tells
        /\ Changed(u).hidden = turns[u].hidden
        /\ Changed(u).chapter = turns[u].chapter
        /\ Changed(u).settled = turns[u].settled
  BY <1>2 DEF Turn
<1>7. \A u \in DOMAIN turns : u # t =>
        /\ Changed(u).art = "accepted" <=> turns[u].art = "accepted"
        /\ Changed(u).art = "none" <=> turns[u].art = "none"
  BY <1>2 DEF Turn
<1> HIDE DEF Changed
<1>8. ts \in Seq(Turn) /\ DOMAIN ts = DOMAIN turns /\ Len(ts) = Len(turns)
  BY <1>2, <1>3, <1>4
<1>9. \A u \in DOMAIN turns : ts[u] = Changed(u)
  BY <1>3
<1>10. OnlyArtifacts(ts)
  <2> SUFFICES ASSUME NEW u \in DOMAIN turns
               PROVE  ts[u].art = "none" <=> ts[u].kind = "none"
    BY <1>8 DEF OnlyArtifacts
  <2>1. CASE u = t
    BY <1>5, <1>9, <2>1
  <2>2. CASE u # t
    BY <1>1, <1>6, <1>7, <1>9, <2>2 DEF OnlyArtifacts
  <2> QED
    BY <2>1, <2>2
<1>11. SettledIsAccepted(ts)
  <2> SUFFICES ASSUME NEW u \in DOMAIN turns, ts[u].settled
               PROVE  ts[u].art = "accepted"
    BY <1>8 DEF SettledIsAccepted
  <2>1. CASE u = t
    BY <1>5, <1>9, <2>1
  <2>2. CASE u # t
    BY <1>1, <1>6, <1>7, <1>9, <2>2 DEF SettledIsAccepted
  <2> QED
    BY <2>1, <2>2
<1>12. \A u \in DOMAIN turns : ts[u].chapter = turns[u].chapter
  BY <1>5, <1>6, <1>9
<1>13. \A i, u : u # t => (u \in Told(ts, i) <=> u \in Told(turns, i))
  BY <1>6, <1>7, <1>8, <1>9 DEF Told
<1>14. \A i : i # turns[t].chapter => t \notin Told(ts, i) /\ t \notin Told(turns, i)
  BY <1>12 DEF Told
<1>15. t \in Told(ts, turns[t].chapter)
         <=> turns[t].kind = "segment" /\ turns[t].tells
  BY <1>5, <1>8, <1>9 DEF Told, Seen
<1>16. \A i : Told(ts, i) \ {t} = Told(turns, i) \ {t}
  BY <1>13
<1>17. \A i : i # turns[t].chapter => Told(ts, i) = Told(turns, i)
  BY <1>13, <1>14
<1>18. ts[t].beat = beat /\ \A u \in DOMAIN turns : u # t => ts[u].beat = turns[u].beat
  BY <1>5, <1>6, <1>9
<1> QED
  BY <1>8, <1>10, <1>11, <1>12, <1>15, <1>16, <1>17, <1>18

\* What an adoption of t as beat does to what is covered in chapter i.
AdoptionCovers(i, t, beat, ts) ==
    /\ \A n : Covered(turns, i, n, {})
               = Covered(turns, i, n, {t})
                   \cup (IF t \in Told(turns, i) THEN CountsFor(turns[t].beat, n)
                         ELSE {})
    /\ \A n : Covered(ts, i, n, {})
               = Covered(turns, i, n, {t})
                   \cup (IF t \in Told(ts, i) THEN CountsFor(beat, n) ELSE {})
    /\ t \in Told(turns, i) => t \in Told(ts, i)
    /\ \A j, n : j # i => Covered(ts, j, n, {}) = Covered(turns, j, n, {})

LEMMA AdoptedCovers ==
    ASSUME ChapterInv, NEW t \in DOMAIN turns, Seen(t), turns[t].kind # "none",
           NEW beat \in 0..Beats, NEW ds, NEW ts, IsAdopted(ts, t, beat, ds)
    PROVE  AdoptionCovers(turns[t].chapter, t, beat, ts)
<1> DEFINE i == turns[t].chapter
<1>1. turns \in Seq(Turn)
  BY DEF ChapterInv
<1>2. /\ ts \in Seq(Turn) /\ DOMAIN ts = DOMAIN turns /\ ts[t].beat = beat
      /\ \A j : j # i => Told(ts, j) = Told(turns, j)
      /\ Told(ts, i) \ {t} = Told(turns, i) \ {t}
      /\ t \in Told(ts, i) <=> turns[t].kind = "segment" /\ turns[t].tells
      /\ \A u \in DOMAIN turns : u # t => ts[u].beat = turns[u].beat
  BY AdoptedTurns
<1>3. \A j, u : u \in Told(turns, j) => u \in DOMAIN turns /\ turns[u].chapter = j
  BY DEF Told
<1>4. \A n : Covered(ts, i, n, {t}) = Covered(turns, i, n, {t})
  <2>1. \A u \in Told(turns, i) \ {t} : ts[u].beat = turns[u].beat
    BY <1>2, <1>3
  <2> QED
    BY <1>2, <2>1, SameCovered
<1>5. ASSUME NEW j, NEW n, j # i
      PROVE  Covered(ts, j, n, {}) = Covered(turns, j, n, {})
  <2>1. Told(ts, j) \ {} = Told(turns, j) \ {}
    BY <1>2, <1>5
  <2>2. \A u \in Told(turns, j) \ {} : ts[u].beat = turns[u].beat
    BY <1>2, <1>3, <1>5
  <2> QED
    BY <2>1, <2>2, SameCovered
<1>6. t \in Told(turns, i) => t \in Told(ts, i)
  BY <1>2 DEF Told
<1>7. \A n : Covered(turns, i, n, {})
             = Covered(turns, i, n, {t})
                 \cup (IF t \in Told(turns, i) THEN CountsFor(turns[t].beat, n)
                       ELSE {})
  BY <1>1, CoveredSplits
<1>8. \A n : Covered(ts, i, n, {})
             = Covered(ts, i, n, {t})
                 \cup (IF t \in Told(ts, i) THEN CountsFor(ts[t].beat, n) ELSE {})
  BY <1>2, CoveredSplits
<1> QED
  BY <1>2, <1>4, <1>5, <1>6, <1>7, <1>8 DEF AdoptionCovers

\* A command that adds turn x to turns ts, and changes its chapter to c.
LEMMA ChapterInvAfter ==
    ASSUME ChapterInv, Len(turns) < MaxChapterTurns,
           NEW ts \in Seq(Turn), Len(ts) = Len(turns),
           \A u \in DOMAIN turns : ts[u].chapter = turns[u].chapter,
           OnlyArtifacts(ts), SettledIsAccepted(ts),
           NEW x \in Turn, ~x.settled, x.art = "none" <=> x.kind = "none",
           x.chapter = chapterIndex,
           turns' = Append(ts, x),
           NEW c \in Chapter, chapters' = [chapters EXCEPT ![chapterIndex] = c],
           c.pending \in {0, Next1, chapters[chapterIndex].pending},
           chapterIndex' \in ChapterIds,
           progress' \in Seq(Progress), recall' \in SUBSET TurnIds
    PROVE  ChapterInv'
<1>1. /\ turns \in Seq(Turn) /\ chapters \in [ChapterIds -> Chapter]
      /\ chapterIndex \in ChapterIds /\ PendingIsOwn /\ MaxChapterTurns \in Nat
  BY ChapterBounds DEF ChapterInv
<1>2. /\ DOMAIN turns' = 1..(Len(turns) + 1) /\ DOMAIN turns = 1..Len(turns)
      /\ DOMAIN ts = DOMAIN turns
      /\ Len(turns) \in Nat /\ turns'[Len(turns) + 1] = x
      /\ Len(turns') = Len(turns) + 1
      /\ \A u \in DOMAIN turns : turns'[u] = ts[u]
  BY <1>1, AppendIsLast
<1>3. turns' \in Seq(Turn) /\ OnlyArtifacts(turns') /\ SettledIsAccepted(turns')
  BY NewTurnTellsNothing DEF Appended
<1>4. chapters' \in [ChapterIds -> Chapter]
  BY <1>1
<1>5. PendingIsOwn'
  <2> SUFFICES ASSUME NEW i \in ChapterIds, chapters'[i].pending # 0
               PROVE  /\ chapters'[i].pending \in DOMAIN turns'
                      /\ turns'[chapters'[i].pending].chapter = i
    BY DEF PendingIsOwn
  <2>1. CASE chapters'[i].pending = chapters[i].pending
    <3>1. /\ chapters[i].pending \in DOMAIN turns
          /\ turns[chapters[i].pending].chapter = i
      BY <1>1, <2>1 DEF PendingIsOwn
    <3>2. chapters[i].pending \in DOMAIN turns'
      BY <1>2, <3>1
    <3> QED
      BY <1>2, <2>1, <3>1, <3>2
  <2>2. CASE i = chapterIndex /\ chapters'[i].pending = Next1
    BY <1>2, <2>2 DEF Next1
  <2>3. i # chapterIndex => chapters'[i] = chapters[i]
    BY <1>1
  <2>4. i = chapterIndex => chapters'[i] = c
    BY <1>1
  <2> QED
    BY <2>1, <2>2, <2>3, <2>4
<1>6. Len(turns') <= MaxChapterTurns
  BY <1>1, <1>2
<1> QED
  BY <1>3, <1>4, <1>5, <1>6 DEF ChapterInv

\* What the branch sees of its chapter.
LEMMA ChapterViewIsTyped ==
    ASSUME ChapterInv, NEW i \in ChapterIds
    PROVE  /\ chapters[i] \in Chapter /\ chapters[i].outline \in 0..Beats
           /\ Pending(i) \in {0, chapters[i].pending} /\ Phase(i) \in Phases
           /\ Pending(i) # 0 => /\ Pending(i) \in DOMAIN turns /\ Seen(Pending(i))
                                /\ turns[Pending(i)].chapter = i
<1>1. chapters[i] \in Chapter
  BY DEF ChapterInv
<1> QED
  BY <1>1 DEF ChapterInv, PendingIsOwn, Pending, PendingHidden, Phase, Chapter,
              Phases

LEMMA ResolvedIsSeen ==
    ASSUME ChapterInv, NEW target, NEW t, t = Resolved(target), t # 0
    PROVE  /\ t \in DOMAIN turns /\ Seen(t) /\ turns[t].kind # "none"
           /\ turns[t].chapter = chapterIndex
BY DEF Resolved

LEMMA ControlTurnIsTurn ==
    ASSUME ChapterInv
    PROVE  /\ ControlTurn \in Turn /\ ~ControlTurn.settled
           /\ ControlTurn.art = "none" <=> ControlTurn.kind = "none"
           /\ ControlTurn.chapter = chapterIndex
BY ChapterBounds DEF ControlTurn, NewTurn, Turn, ChapterInv, ArtifactKinds

LEMMA Next1IsTurn ==
    ASSUME ChapterInv, Len(turns) < MaxChapterTurns
    PROVE  Next1 \in TurnIds /\ Next1 \in 0..MaxChapterTurns
BY ChapterBounds DEF ChapterInv, Next1, TurnIds

\* A step that tells nothing new.
LEMMA NothingTold ==
    ASSUME ChapterInv, NEW ts \in Seq(Turn),
           \A i : Told(ts, i) = Told(turns, i),
           \A u \in DOMAIN turns : ts[u].beat = turns[u].beat,
           OnlyArtifacts(ts), SettledIsAccepted(ts),
           NEW x \in Turn, ~x.settled, x.art = "none" <=> x.kind = "none",
           turns' = Append(ts, x)
    PROVE  CoversInOrder /\ \A i : Told(turns', i) = Told(turns, i)
<1>a. Appended(turns', ts, x)
  BY DEF Appended
<1>1. /\ \A i : Told(turns', i) = Told(ts, i)
      /\ \A i, n, ex : Covered(turns', i, n, ex) = Covered(ts, i, n, ex)
  BY <1>a, NewTurnTellsNothing
<1>2. ASSUME NEW i, NEW n PROVE Covered(ts, i, n, {}) = Covered(turns, i, n, {})
  <2>1. \A u \in Told(turns, i) \ {} : ts[u].beat = turns[u].beat
    BY DEF Told
  <2>2. Told(ts, i) \ {} = Told(turns, i) \ {}
    OBVIOUS
  <2> QED
    BY <2>1, <2>2, SameCovered
<1>3. CoversInOrder
  BY <1>1, <1>2 DEF CoversInOrder
<1> QED
  BY <1>1, <1>3


\* What an adoption of t as beat records.
Recorded(i, t, beat) ==
    /\ Len(progress') = Len(progress) + 1
    /\ Last(progress').chapter = i /\ Last(progress').adopted = t
    /\ beat # 0 => /\ beat \in 1..chapters[i].outline
                   /\ Last(progress').covered =
                        Covered(turns, i, chapters[i].outline, {t}) \cup {beat}
InTurn(i, t, beat) ==
    LET n == chapters[i].outline
    IN  beat # 0 /\ beat \in 1..n =>
          BeatMatches(beat, CurrentBeat(Covered(turns, i, n, {t}), n))

LEMMA AdvanceRecords ==
    ASSUME ChapterInv, Len(turns) < MaxChapterTurns, NEW t \in DOMAIN turns,
           NEW i \in ChapterIds, NEW beat \in 0..Beats,
           AdvanceProgress(i, t, beat)
    PROVE  /\ progress' \in Seq(Progress)
           /\ progress' = progress \/ Recorded(i, t, beat)
           /\ InTurn(i, t, beat)
<1> DEFINE n == chapters[i].outline
           E == Covered(turns, i, n, {t})
           b == AdvancedBeat(i, t, beat)
           row == [turn |-> Next1, chapter |-> i, adopted |-> t,
                   covered |-> AdvancedProgress(i, t, beat)]
<1>1. /\ n \in 0..Beats /\ Beats \in Nat /\ progress \in Seq(Progress)
      /\ t \in 0..MaxChapterTurns /\ Next1 \in TurnIds
  BY ChapterViewIsTyped, Next1IsTurn, ChapterBounds DEF ChapterInv
<1>2. E \in SUBSET (1..n)
  BY CoveredIsOfOutline
<1>3. CASE b \notin 1..n
  <2>1. progress' = progress
    BY <1>3 DEF AdvanceProgress
  <2>2. InTurn(i, t, beat)
    BY <1>3 DEF InTurn, AdvancedBeat
  <2> QED
    BY <1>1, <2>1, <2>2
<1>4. CASE b \in 1..n
  <2>1. /\ BeatMatches(beat, CurrentBeat(E, n))
        /\ progress' = Append(progress, row)
    BY <1>4 DEF AdvanceProgress
  <2>2. AdvancedProgress(i, t, beat) = E \cup {b}
    BY DEF AdvancedProgress
  <2>3. AdvancedProgress(i, t, beat) \in SUBSET BeatIds
    <3> HIDE DEF E, b, n
    <3>1. 1..n \subseteq BeatIds
      BY <1>1 DEF BeatIds
    <3> QED
      BY <1>2, <1>4, <2>2, <3>1
  <2>4. row \in Progress
    BY <1>1, <2>3 DEF Progress
  <2>5. /\ progress' \in Seq(Progress) /\ Len(progress') = Len(progress) + 1
        /\ progress'[Len(progress) + 1] = row
    BY <1>1, <2>1, <2>4
  <2>6. Last(progress') = row
    BY <2>5 DEF Last
  <2>7. beat # 0 => b = beat
    BY DEF AdvancedBeat
  <2>8. Recorded(i, t, beat)
    BY <1>4, <2>2, <2>5, <2>6, <2>7 DEF Recorded
  <2> QED
    BY <2>1, <2>5, <2>8 DEF InTurn
<1> QED
  BY <1>3, <1>4

\* What a step of the chapters keeps.
StepIsEffective ==
    RecordedIsEffective /\ CoversInOrder /\ ClosedChapterIsFinal

LEMMA NoProgress ==
    ASSUME ChapterInv, progress' = progress
    PROVE  RecordedIsEffective
BY DEF ChapterInv, RecordedIsEffective

\* A step that leaves the chapters but the current one as they are.
LEMMA OthersAreFinal ==
    ASSUME ChapterInv, NEW c, chapters' = [chapters EXCEPT ![chapterIndex] = c],
           \A i \in ChapterIds : i # chapterIndex => Told(turns', i) = Told(turns, i)
    PROVE  ClosedChapterIsFinal
<1>1. chapterIndex \in ChapterIds /\ chapters \in [ChapterIds -> Chapter]
  BY DEF ChapterInv
<1>2. \A i \in 1..chapterIndex - 1 : i \in ChapterIds /\ i # chapterIndex
  BY <1>1, ChapterBounds DEF ChapterIds
<1> QED
  BY <1>1, <1>2 DEF ClosedChapterIsFinal

LEMMA WriteStep ==
    ASSUME ChapterInv, NEW cmd \in WritingCommands, NEW kind \in ArtifactKinds,
           NEW target \in 0..Len(turns), Write(cmd, target, kind)
    PROVE  ChapterInv' /\ StepIsEffective
<1> DEFINE i == chapterIndex
           n == chapters[i].outline
           beat == BeatToWrite(target, kind)
           x == NewTurn(cmd \in {"write_next_segment", "rewrite_pending_segment"},
                        cmd # "rewrite_pending_segment", kind, beat)
           c == [phase |-> CASE kind = "outline" -> "outline_review"
                             [] kind = "segment" -> "segment_review"
                             [] OTHER -> Phase(i),
                 pending |-> IF kind = "segment" THEN Next1 ELSE Pending(i),
                 outline |-> n]
<1>1. /\ Len(turns) < MaxChapterTurns /\ turns' = Append(turns, x)
      /\ chapters' = [chapters EXCEPT ![chapterIndex] = c]
      /\ chapterIndex' = chapterIndex /\ progress' = progress /\ recall' = recall
  BY DEF Write, SetChapter
<1>2. /\ turns \in Seq(Turn) /\ OnlyArtifacts(turns) /\ SettledIsAccepted(turns)
      /\ i \in ChapterIds /\ progress \in Seq(Progress)
      /\ recall \in SUBSET TurnIds
  BY DEF ChapterInv
<1>3. /\ n \in 0..Beats /\ Pending(i) \in {0, chapters[i].pending}
      /\ Phase(i) \in Phases /\ chapters[i] \in Chapter /\ Beats \in Nat
  BY <1>2, ChapterViewIsTyped, ChapterBounds
<1>4. beat \in 0..Beats
  <2>1. Covered(turns, i, n, {}) \in SUBSET (1..n)
    BY CoveredIsOfOutline
  <2>2. CurrentBeat(Covered(turns, i, n, {}), n) \in 0..n
    BY <1>3, <2>1, CurrentBeatIsFirst
  <2>3. Resolved(target) # 0 => turns[Resolved(target)] \in Turn
    BY <1>2, ResolvedIsSeen
  <2>4. Resolved(target) # 0 => turns[Resolved(target)].beat \in 0..Beats
    BY <2>3 DEF Turn
  <2> QED
    BY <1>3, <2>2, <2>4 DEF BeatToWrite
<1>5. /\ x \in Turn /\ ~x.settled
      /\ x.art = "none" <=> x.kind = "none"
      /\ x.chapter = chapterIndex
  <2> HIDE DEF beat
  <2> QED
    BY <1>2, <1>4 DEF NewTurn, Turn, ArtifactKinds
<1>6. c \in Chapter /\ c.pending \in {0, Next1, chapters[chapterIndex].pending}
  <2>1. Next1 \in 0..MaxChapterTurns
    BY <1>1, Next1IsTurn
  <2>2. chapters[i].pending \in 0..MaxChapterTurns
    BY <1>3 DEF Chapter
  <2> QED
    BY <1>3, <2>1, <2>2, ChapterBounds DEF Chapter, Phases
<1> HIDE DEF x, c
<1>7. ChapterInv'
  <2>1. /\ chapterIndex' \in ChapterIds /\ progress' \in Seq(Progress)
        /\ recall' \in SUBSET TurnIds
    BY <1>1, <1>2
  <2> QED
    BY <1>1, <1>2, <1>5, <1>6, <2>1, ChapterInvAfter
<1>8. CoversInOrder /\ \A j : Told(turns', j) = Told(turns, j)
  BY <1>1, <1>2, <1>5, NothingTold
<1>9. ClosedChapterIsFinal
  BY <1>1, <1>8, OthersAreFinal
<1>10. RecordedIsEffective
  BY <1>1, NoProgress
<1> QED
  BY <1>7, <1>8, <1>9, <1>10 DEF StepIsEffective

LEMMA AcceptOutlineStep ==
    ASSUME ChapterInv, NEW t \in DOMAIN turns, NEW m \in BeatIds,
           AcceptOutline(t, m)
    PROVE  ChapterInv' /\ StepIsEffective
<1> DEFINE ts == [turns EXCEPT ![t].art = "accepted"]
           c == [phase |-> "segment_drafting",
                 pending |-> chapters[chapterIndex].pending, outline |-> m]
           row == [turn |-> Next1, chapter |-> chapterIndex,
                   covered |-> {}, adopted |-> 0]
<1>1. /\ Len(turns) < MaxChapterTurns /\ turns[t].kind # "none"
      /\ turns' = Append(ts, ControlTurn)
      /\ chapters' = [chapters EXCEPT ![chapterIndex] = c]
      /\ progress' = Append(progress, row)
      /\ chapterIndex' = chapterIndex /\ recall' = recall
  BY DEF AcceptOutline, SetChapter
<1>2. /\ turns \in Seq(Turn) /\ OnlyArtifacts(turns) /\ SettledIsAccepted(turns)
      /\ chapterIndex \in ChapterIds /\ progress \in Seq(Progress)
      /\ recall \in SUBSET TurnIds
  BY DEF ChapterInv
<1>3. /\ DOMAIN turns = 1..Len(turns) /\ Len(turns) \in Nat
      /\ \A u \in DOMAIN turns : turns[u] \in Turn
  BY <1>2
<1>4. /\ DOMAIN ts = DOMAIN turns
      /\ \A u \in DOMAIN turns : u # t => ts[u] = turns[u]
      /\ ts[t] = [turns[t] EXCEPT !.art = "accepted"]
  OBVIOUS
<1>5. /\ ts[t] \in Turn /\ ts[t].art = "accepted" /\ ts[t].kind = turns[t].kind
      /\ ts[t].chapter = turns[t].chapter /\ ts[t].beat = turns[t].beat
      /\ ts[t].settled = turns[t].settled /\ ts[t].tells = turns[t].tells
      /\ ts[t].bound = turns[t].bound /\ ts[t].hidden = turns[t].hidden
  BY <1>3, <1>4 DEF Turn
<1> HIDE DEF ts
<1>6. ts \in Seq(Turn) /\ Len(ts) = Len(turns)
  <2>1. \A u \in DOMAIN turns : ts[u] \in Turn
    BY <1>3, <1>4, <1>5
  <2>2. ts = [u \in DOMAIN turns |-> ts[u]]
    BY DEF ts
  <2>3. ts \in [1..Len(turns) -> Turn]
    BY <1>3, <2>1, <2>2
  <2> QED
    BY <1>3, <2>3
<1>7. OnlyArtifacts(ts) /\ SettledIsAccepted(ts)
  <2> SUFFICES ASSUME NEW u \in DOMAIN turns
               PROVE  /\ ts[u].art = "none" <=> ts[u].kind = "none"
                      /\ ts[u].settled => ts[u].art = "accepted"
    BY <1>4 DEF OnlyArtifacts, SettledIsAccepted
  <2>1. CASE u = t
    <3>1. turns[t].art \in {"none", "draft", "accepted", "superseded"}
      BY <1>3 DEF Turn
    <3> QED
      BY <1>1, <1>5, <2>1
  <2>2. CASE u # t
    BY <1>2, <1>4, <2>2 DEF OnlyArtifacts, SettledIsAccepted
  <2> QED
    BY <2>1, <2>2
<1>8. \A u \in DOMAIN turns : ts[u].chapter = turns[u].chapter
                             /\ ts[u].beat = turns[u].beat
  BY <1>4, <1>5
<1>9. \A j : Told(ts, j) = Told(turns, j)
  <2>1. \A j, u : u # t => (u \in Told(ts, j) <=> u \in Told(turns, j))
    BY <1>4 DEF Told
  <2>2. \A j : t \in Told(ts, j) <=> t \in Told(turns, j)
    BY <1>2, <1>4, <1>5 DEF Told, SettledIsAccepted
  <2> QED
    BY <2>1, <2>2
<1>10. /\ ControlTurn \in Turn /\ ~ControlTurn.settled
       /\ ControlTurn.art = "none" <=> ControlTurn.kind = "none"
       /\ ControlTurn.chapter = chapterIndex
  BY ControlTurnIsTurn
<1>11. c \in Chapter /\ c.pending \in {0, Next1, chapters[chapterIndex].pending}
  <2>1. chapters[chapterIndex].pending \in 0..MaxChapterTurns
    BY <1>2, ChapterViewIsTyped DEF Chapter
  <2> QED
    BY <2>1, ChapterBounds DEF Chapter, Phases, BeatIds
<1>12. row \in Progress
  BY <1>1, <1>2, Next1IsTurn, ChapterBounds DEF Progress
<1>13. /\ progress' \in Seq(Progress) /\ Len(progress') = Len(progress) + 1
       /\ progress'[Len(progress) + 1] = row
  BY <1>1, <1>2, <1>12
<1> HIDE DEF c
<1>14. ChapterInv'
  BY <1>1, <1>2, <1>6, <1>7, <1>8, <1>10, <1>11, <1>13, ChapterInvAfter
<1>15. CoversInOrder /\ \A j : Told(turns', j) = Told(turns, j)
  BY <1>1, <1>6, <1>7, <1>8, <1>9, <1>10, NothingTold
<1>16. ClosedChapterIsFinal
  BY <1>1, <1>15, OthersAreFinal
<1>17. RecordedIsEffective
  <2>1. Last(progress').adopted = 0
    BY <1>13 DEF Last
  <2> QED
    BY <2>1 DEF RecordedIsEffective
<1> QED
  BY <1>14, <1>15, <1>16, <1>17 DEF StepIsEffective

\* An adoption that keeps the order of its own chapter.
OrderKept(i, t, beat, ds) ==
    LET n == chapters[i].outline
        P == Covered(turns, i, n, {})
        Q == Covered(Adopted(t, beat, ds), i, n, {})
    IN  Q = P \/ Q = P \cup {CurrentBeat(P, n)}

LEMMA ChapterAdoption ==
    ASSUME ChapterInv, Len(turns) < MaxChapterTurns, NEW t \in DOMAIN turns,
           Seen(t), turns[t].kind # "none", turns[t].chapter = chapterIndex,
           NEW beat \in 0..Beats, NEW ds, OrderKept(chapterIndex, t, beat, ds),
           turns' = Append(Adopted(t, beat, ds), ControlTurn),
           NEW c \in Chapter, chapters' = [chapters EXCEPT ![chapterIndex] = c],
           c.pending \in {0, Next1, chapters[chapterIndex].pending},
           chapterIndex' \in ChapterIds, recall' \in SUBSET TurnIds,
           AdvanceProgress(chapterIndex, t, beat)
    PROVE  ChapterInv' /\ StepIsEffective
<1>0. PICK i : i = chapterIndex
  OBVIOUS
<1>1. PICK ts : IsAdopted(ts, t, beat, ds)
  BY DEF IsAdopted
<1> DEFINE n(j) == chapters[j].outline
<1>2. /\ ts \in Seq(Turn) /\ Len(ts) = Len(turns) /\ DOMAIN ts = DOMAIN turns
      /\ OnlyArtifacts(ts) /\ SettledIsAccepted(ts)
      /\ \A u \in DOMAIN turns : ts[u].chapter = turns[u].chapter
      /\ \A j : j # i => Told(ts, j) = Told(turns, j)
      /\ \A j : Told(ts, j) \ {t} = Told(turns, j) \ {t}
      /\ ts[t].beat = beat
  BY <1>0, <1>1, AdoptedTurns
<1>3. /\ ControlTurn \in Turn /\ ~ControlTurn.settled
      /\ ControlTurn.art = "none" <=> ControlTurn.kind = "none"
      /\ ControlTurn.chapter = chapterIndex
  BY ControlTurnIsTurn
<1>4. i \in ChapterIds
  BY <1>0 DEF ChapterInv
<1>5. /\ progress' \in Seq(Progress)
      /\ progress' = progress \/ Recorded(i, t, beat)
  BY <1>0, <1>4, AdvanceRecords
<1>6. turns' = Append(ts, ControlTurn)
  BY <1>1 DEF IsAdopted
<1>7. ChapterInv'
  BY <1>2, <1>3, <1>5, <1>6, ChapterInvAfter
<1>8. /\ \A j : Told(turns', j) = Told(ts, j)
      /\ \A j, m, ex : Covered(turns', j, m, ex) = Covered(ts, j, m, ex)
  <2>1. Appended(turns', ts, ControlTurn)
    BY <1>6 DEF Appended
  <2> QED
    BY <1>2, <1>3, <2>1, NewTurnTellsNothing
<1>9. \A m : /\ Covered(ts, i, m, {})
                  = Covered(turns, i, m, {t})
                      \cup (IF t \in Told(ts, i) THEN CountsFor(beat, m) ELSE {})
             /\ t \in Told(turns, i) => t \in Told(ts, i)
             /\ \A j : j # i => Covered(ts, j, m, {}) = Covered(turns, j, m, {})
  <2>1. AdoptionCovers(i, t, beat, ts)
    BY <1>0, <1>1, AdoptedCovers
  <2> QED
    BY <2>1 DEF AdoptionCovers
<1>10. ClosedChapterIsFinal
  BY <1>0, <1>2, <1>8, OthersAreFinal
<1>11. CoversInOrder
  <2> SUFFICES ASSUME NEW j \in ChapterIds
               PROVE  \/ Covered(turns', j, n(j), {}) = Covered(turns, j, n(j), {})
                      \/ Covered(turns', j, n(j), {})
                           = Covered(turns, j, n(j), {})
                               \cup {CurrentBeat(Covered(turns, j, n(j), {}), n(j))}
    BY DEF CoversInOrder
  <2>1. CASE j # i
    BY <1>8, <1>9, <2>1
  <2>2. CASE j = i
    BY <1>0, <1>1, <1>8, <2>2 DEF OrderKept, IsAdopted
  <2> QED
    BY <2>1, <2>2
<1>12. RecordedIsEffective
  <2>1. CASE progress' = progress
    BY <2>1, NoProgress
  <2>2. CASE Recorded(i, t, beat) /\ t \in Told(turns', i)
    <3>1. Last(progress').adopted = t /\ Last(progress').chapter = i
      BY <2>2 DEF Recorded
    <3>2. turns'[t].beat = beat
      <4>1. t \in DOMAIN ts /\ ts \in Seq(Turn)
        BY <1>2
      <4> QED
        BY <1>2, <1>3, <1>6, <4>1, AppendIsLast
    <3>3. ASSUME beat # 0
          PROVE  Last(progress').covered = Covered(turns', i, n(i), {})
      <4>1. /\ beat \in 1..n(i)
            /\ Last(progress').covered = Covered(turns, i, n(i), {t}) \cup {beat}
        BY <2>2, <3>3 DEF Recorded
      <4>2. CountsFor(beat, n(i)) = {beat}
        BY <3>3, <4>1 DEF CountsFor
      <4>3. Covered(ts, i, n(i), {}) = Covered(turns, i, n(i), {t}) \cup {beat}
        BY <1>8, <1>9, <2>2, <4>2
      <4> QED
        BY <1>8, <4>1, <4>3
    <3> QED
      BY <2>2, <3>1, <3>2, <3>3 DEF RecordedIsEffective
  <2>3. CASE Recorded(i, t, beat) /\ t \notin Told(turns', i)
    <3>1. Last(progress').adopted = t /\ Last(progress').chapter = i
      BY <2>3 DEF Recorded
    <3>2. t \notin Told(ts, i) /\ t \notin Told(turns, i)
      BY <1>8, <1>9, <2>3
    <3>3. Told(ts, i) = Told(ts, i) \ {t} /\ Told(turns, i) = Told(turns, i) \ {t}
      BY <3>2
    <3>4. Told(turns', i) = Told(turns, i)
      BY <1>2, <1>8, <3>3
    <3> QED
      BY <2>3, <3>1, <3>4 DEF RecordedIsEffective
  <2> QED
    BY <1>5, <2>1, <2>2, <2>3
<1> QED
  BY <1>7, <1>10, <1>11, <1>12 DEF StepIsEffective

LEMMA AcceptSegmentStep ==
    ASSUME ChapterInv, NEW target \in 0..Len(turns), AcceptSegment(target)
    PROVE  ChapterInv' /\ StepIsEffective
<1>1. PICK i : i = chapterIndex
  OBVIOUS
<1>2. PICK t : t = Resolved(target)
  OBVIOUS
<1> DEFINE n == chapters[i].outline
           P == Covered(turns, i, n, {})
           E == Covered(turns, i, n, {t})
           cur == CurrentBeat(P, n)
           own == turns[t].beat
           ds == {u \in InChapter(i) : Seen(u)}
           c == [phase |-> "segment_drafting", pending |-> 0, outline |-> n]
<1>3. PICK beat : beat = IF own # 0 THEN own ELSE cur
  OBVIOUS
<1>4. /\ Len(turns) < MaxChapterTurns /\ t # 0 /\ BeatMatches(beat, cur)
      /\ turns' = Append(Adopted(t, beat, ds), ControlTurn)
      /\ chapters' = [chapters EXCEPT ![chapterIndex] = c]
      /\ AdvanceProgress(i, t, beat)
      /\ chapterIndex' = chapterIndex /\ recall' = recall
  BY <1>1, <1>2, <1>3 DEF AcceptSegment, SetChapter
<1>5. /\ t \in DOMAIN turns /\ Seen(t) /\ turns[t].kind # "none"
      /\ turns[t].chapter = i
  BY <1>1, <1>2, <1>4, ResolvedIsSeen
<1>6. /\ i \in ChapterIds /\ recall \in SUBSET TurnIds /\ turns \in Seq(Turn)
      /\ n \in 0..Beats /\ Beats \in Nat
  BY <1>1, ChapterViewIsTyped, ChapterBounds DEF ChapterInv
<1>7. turns[t] \in Turn
  BY <1>5, <1>6
<1>8. own \in 0..Beats
  BY <1>7 DEF Turn
<1>9. P \in SUBSET (1..n) /\ E \in SUBSET (1..n)
  BY CoveredIsOfOutline
<1>10. cur \in 0..n
  BY <1>6, <1>9, CurrentBeatIsFirst
<1>11. beat \in 0..Beats
  BY <1>3, <1>6, <1>8, <1>10
<1>12. c \in Chapter /\ c.pending = 0
  BY <1>6, ChapterBounds DEF Chapter, Phases
<1>13. OrderKept(i, t, beat, ds)
  <2> DEFINE ts == Adopted(t, beat, ds)
             Q == Covered(ts, i, n, {})
             e == CurrentBeat(E, n)
             told == t \in Told(turns, i)
             tells == t \in Told(ts, i)
  <2>1. /\ P = E \cup (IF t \in Told(turns, i) THEN CountsFor(own, n) ELSE {})
        /\ Q = E \cup (IF t \in Told(ts, i) THEN CountsFor(beat, n) ELSE {})
        /\ t \in Told(turns, i) => t \in Told(ts, i)
    <3>1. IsAdopted(ts, t, beat, ds)
      BY DEF IsAdopted
    <3>2. AdoptionCovers(i, t, beat, ts)
      BY <1>5, <1>11, <3>1, AdoptedCovers
    <3> QED
      BY <3>2 DEF AdoptionCovers
  <2>2. InTurn(i, t, beat)
    BY <1>4, <1>5, <1>6, <1>11, AdvanceRecords
  <2>3. beat # 0 /\ beat \in 1..n => BeatMatches(beat, e)
    BY <2>2 DEF InTurn
  <2>4. Acceptance(n, E, own, told, tells,
                   P, cur, e, beat, Q)
    BY <1>3, <1>4, <2>1, <2>3 DEF Acceptance
  <2>5. told \in BOOLEAN /\ tells \in BOOLEAN /\ (told => tells)
    BY <2>1
  <2> HIDE DEF P, E, cur, own, ts, Q, e, told, tells
  <2>6. Q = P \/ Q = P \cup {cur}
    BY <1>6, <1>8, <1>9, <2>4, <2>5, AcceptanceInOrder
  <2> QED
    BY <2>6 DEF OrderKept, P, cur, Q, ts
<1> HIDE DEF c, ds
<1>14. chapterIndex' \in ChapterIds /\ recall' \in SUBSET TurnIds
  BY <1>1, <1>4, <1>6
<1> QED
  BY <1>1, <1>4, <1>5, <1>11, <1>12, <1>13, <1>14, ChapterAdoption

LEMMA CompleteStep ==
    ASSUME ChapterInv, CompleteChapter
    PROVE  ChapterInv' /\ StepIsEffective
<1>1. PICK i : i = chapterIndex
  OBVIOUS
<1> DEFINE n == chapters[i].outline
           t == Pending(i)
           own == turns[t].beat
           c == [phase |-> "chapter_completed",
                 pending |-> IF PendingDraft(i) THEN 0 ELSE chapters[i].pending,
                 outline |-> n]
<1>2. /\ Len(turns) < MaxChapterTurns /\ i < MaxChapters
      /\ chapters' = [chapters EXCEPT ![chapterIndex] = c]
      /\ recall' = recall \cup Ingested(i) /\ chapterIndex' = i + 1
  BY <1>1 DEF CompleteChapter, SetChapter, EnterChapter
<1>3. /\ i \in ChapterIds /\ recall \in SUBSET TurnIds /\ turns \in Seq(Turn)
      /\ n \in 0..Beats /\ Beats \in Nat /\ chapters[i] \in Chapter
      /\ OnlyArtifacts(turns) /\ SettledIsAccepted(turns)
      /\ progress \in Seq(Progress)
  BY <1>1, ChapterViewIsTyped, ChapterBounds DEF ChapterInv
<1>4. chapterIndex' \in ChapterIds
  BY <1>2, <1>3, ChapterBounds DEF ChapterIds
<1>5. c \in Chapter /\ c.pending \in {0, Next1, chapters[chapterIndex].pending}
  <2>1. chapters[i].pending \in 0..MaxChapterTurns
    BY <1>3 DEF Chapter
  <2> QED
    BY <1>1, <1>3, <2>1, ChapterBounds DEF Chapter, Phases
<1>6. /\ ControlTurn \in Turn /\ ~ControlTurn.settled
      /\ ControlTurn.art = "none" <=> ControlTurn.kind = "none"
      /\ ControlTurn.chapter = chapterIndex
  BY ControlTurnIsTurn
<1>7. ASSUME NEW ts \in Seq(Turn), Len(ts) = Len(turns),
             turns' = Append(ts, ControlTurn)
      PROVE  recall' \in SUBSET TurnIds
  <2>1. DOMAIN turns' = 1..(Len(turns) + 1)
    BY <1>6, <1>7, AppendIsLast
  <2>2. Len(turns) + 1 <= MaxChapterTurns /\ Len(turns) \in Nat
    BY <1>2, <1>3, ChapterBounds
  <2>3. DOMAIN turns' \subseteq TurnIds
    BY <2>1, <2>2, ChapterBounds DEF TurnIds
  <2>4. Ingested(i) \subseteq DOMAIN turns'
    BY DEF Ingested
  <2> QED
    BY <1>2, <1>3, <2>3, <2>4
<1>8. CASE PendingDraft(i)
  <2>1. /\ t # 0 /\ turns[t].kind = "segment" /\ turns[t].art = "draft"
        /\ turns' = Append(Adopted(t, own, InChapter(i)), ControlTurn)
        /\ AdvanceProgress(i, t, own)
    BY <1>1, <1>8 DEF CompleteChapter, PendingDraft
  <2>2. t \in DOMAIN turns /\ Seen(t) /\ turns[t].chapter = i
    BY <1>3, <2>1, ChapterViewIsTyped
  <2>3. turns[t] \in Turn
    BY <1>3, <2>2
  <2>4. own \in 0..Beats
    BY <2>3 DEF Turn
  <2>7. OrderKept(i, t, own, InChapter(i))
    <3> DEFINE ts == Adopted(t, own, InChapter(i))
               P == Covered(turns, i, n, {})
               E == Covered(turns, i, n, {t})
               Q == Covered(ts, i, n, {})
               cur == CurrentBeat(P, n)
               tells == t \in Told(ts, i)
    <3>1. /\ P = E \cup (IF t \in Told(turns, i) THEN CountsFor(own, n) ELSE {})
          /\ Q = E \cup (IF t \in Told(ts, i) THEN CountsFor(own, n) ELSE {})
      <4>1. IsAdopted(ts, t, own, InChapter(i))
        BY DEF IsAdopted
      <4>2. AdoptionCovers(i, t, own, ts)
        BY <2>1, <2>2, <2>4, <4>1, AdoptedCovers
      <4> QED
        BY <4>2 DEF AdoptionCovers
    <3>2. t \notin Told(turns, i)
      BY <2>1 DEF Told
    <3>3. P = E
      BY <3>1, <3>2
    <3>4. InTurn(i, t, own)
      BY <1>2, <1>3, <2>1, <2>2, <2>4, AdvanceRecords
    <3>5. own # 0 /\ own \in 1..n => BeatMatches(own, cur)
      BY <3>3, <3>4 DEF InTurn
    <3>6. Completion(n, P, own, tells, cur, Q)
      BY <3>1, <3>3, <3>5 DEF Completion
    <3>7. P \in SUBSET (1..n)
      BY CoveredIsOfOutline
    <3>a. tells \in BOOLEAN
      OBVIOUS
    <3> HIDE DEF P, E, Q, cur, ts, own, t, tells
    <3>8. Q = P \/ Q = P \cup {cur}
      BY <1>3, <2>4, <3>6, <3>7, <3>a, CompletionInOrder
    <3> QED
      BY <3>8 DEF OrderKept, P, cur, Q, ts
  <2>8. Adopted(t, own, InChapter(i)) \in Seq(Turn)
        /\ Len(Adopted(t, own, InChapter(i))) = Len(turns)
    <3>1. IsAdopted(Adopted(t, own, InChapter(i)), t, own, InChapter(i))
      BY DEF IsAdopted
    <3> QED
      BY <2>1, <2>2, <2>4, <3>1, AdoptedTurns
  <2>9. recall' \in SUBSET TurnIds
    BY <1>7, <2>1, <2>8
  <2>10. turns[t].kind # "none"
    BY <2>1
  <2> HIDE DEF c, t, own
  <2> QED
    BY <1>1, <1>2, <1>4, <1>5, <2>1, <2>2, <2>4, <2>7, <2>9, <2>10, ChapterAdoption
<1>9. CASE ~PendingDraft(i)
  <2>1. turns' = Append(turns, ControlTurn) /\ progress' = progress
    BY <1>1, <1>9 DEF CompleteChapter
  <2>2. recall' \in SUBSET TurnIds
    BY <1>3, <1>7, <2>1
  <2> HIDE DEF c
  <2>3. ChapterInv'
    BY <1>2, <1>3, <1>4, <1>5, <1>6, <2>1, <2>2, ChapterInvAfter
  <2>4. CoversInOrder /\ \A j : Told(turns', j) = Told(turns, j)
    BY <1>3, <1>6, <2>1, NothingTold
  <2>5. ClosedChapterIsFinal
    BY <1>2, <2>4, OthersAreFinal
  <2>6. RecordedIsEffective
    BY <2>1, NoProgress
  <2> QED
    BY <2>3, <2>4, <2>5, <2>6 DEF StepIsEffective
<1> QED
  BY <1>8, <1>9

\* A rollback hides turns and settles its target: it is no command.
LEMMA RollBackStep ==
    ASSUME ChapterInv, NEW t \in DOMAIN turns, RollBackTo(t)
    PROVE  ChapterInv' /\ StepIsEffective
<1> DEFINE Rolled(u) == IF u = t THEN [turns[u] EXCEPT !.settled = TRUE]
                        ELSE IF u > t THEN [turns[u] EXCEPT !.hidden = TRUE]
                        ELSE turns[u]
<1>1. /\ turns' = [u \in DOMAIN turns |-> Rolled(u)]
      /\ chapterIndex' = chapterIndex /\ chapters' = chapters
      /\ progress' = progress /\ recall' = recall
      /\ turns[t].settled \/ turns[t].art = "accepted"
  BY DEF RollBackTo
<1>2. /\ turns \in Seq(Turn) /\ OnlyArtifacts(turns) /\ SettledIsAccepted(turns)
      /\ PendingIsOwn
  BY DEF ChapterInv
<1>3. /\ DOMAIN turns = 1..Len(turns) /\ Len(turns) \in Nat
      /\ \A u \in DOMAIN turns : turns[u] \in Turn
  BY <1>2
<1>4. \A u \in DOMAIN turns : Rolled(u) \in Turn
  BY <1>3 DEF Turn
<1>5. \A u \in DOMAIN turns :
        /\ Rolled(u).chapter = turns[u].chapter
        /\ Rolled(u).art = turns[u].art /\ Rolled(u).kind = turns[u].kind
        /\ u # t => Rolled(u).settled = turns[u].settled
  BY <1>3 DEF Turn
<1> HIDE DEF Rolled
<1>6. /\ turns' \in Seq(Turn) /\ Len(turns') = Len(turns)
      /\ DOMAIN turns' = DOMAIN turns
      /\ \A u \in DOMAIN turns : turns'[u] = Rolled(u)
  BY <1>1, <1>3, <1>4
<1>7. OnlyArtifacts(turns')
  BY <1>2, <1>5, <1>6 DEF OnlyArtifacts
<1>8. SettledIsAccepted(turns')
  BY <1>1, <1>2, <1>5, <1>6 DEF SettledIsAccepted
<1>9. PendingIsOwn'
  BY <1>1, <1>2, <1>5, <1>6 DEF PendingIsOwn
<1>10. ChapterInv'
  BY <1>1, <1>6, <1>7, <1>8, <1>9 DEF ChapterInv
<1>11. ~CommandRan
  BY <1>3, <1>6 DEF CommandRan
<1>12. RecordedIsEffective
  BY <1>1, NoProgress
<1> QED
  BY <1>10, <1>11, <1>12 DEF StepIsEffective, CoversInOrder, ClosedChapterIsFinal

LEMMA ChapterInvInit == ChapterInit => ChapterInv
<1> SUFFICES ASSUME ChapterInit PROVE ChapterInv
  OBVIOUS
<1>1. 1 \in ChapterIds /\ MaxChapterTurns \in Nat /\ Beats \in Nat
  BY ChapterBounds DEF ChapterIds
<1>2. chapters \in [ChapterIds -> Chapter]
  BY <1>1 DEF ChapterInit, Chapter, Phases
<1>3. PendingIsOwn
  BY DEF ChapterInit, PendingIsOwn
<1>4. /\ turns \in Seq(Turn) /\ Len(turns) = 0 /\ progress \in Seq(Progress)
      /\ OnlyArtifacts(turns) /\ SettledIsAccepted(turns)
  BY DEF ChapterInit, OnlyArtifacts, SettledIsAccepted
<1> QED
  BY <1>1, <1>2, <1>3, <1>4 DEF ChapterInit, ChapterInv

LEMMA ChapterStep ==
    ASSUME ChapterInv, [ChapterNext]_chapterVars
    PROVE  ChapterInv' /\ [StepIsEffective]_chapterVars
<1>1. CASE ChapterNext
  <2>1. CASE \E cmd \in WritingCommands, kind \in ArtifactKinds,
                target \in 0..Len(turns) : Write(cmd, target, kind)
    BY <2>1, WriteStep
  <2>2. CASE \E t \in DOMAIN turns, n \in BeatIds : AcceptOutline(t, n)
    BY <2>2, AcceptOutlineStep
  <2>3. CASE \E target \in 0..Len(turns) : AcceptSegment(target)
    BY <2>3, AcceptSegmentStep
  <2>4. CASE CompleteChapter
    BY <2>4, CompleteStep
  <2>5. CASE \E t \in DOMAIN turns : RollBackTo(t)
    BY <2>5, RollBackStep
  <2> QED
    BY <1>1, <2>1, <2>2, <2>3, <2>4, <2>5 DEF ChapterNext
<1>2. CASE UNCHANGED chapterVars
  <2>1. ChapterInv'
    BY <1>2 DEF ChapterInv, chapterVars, OnlyArtifacts, SettledIsAccepted,
                PendingIsOwn
  <2> QED
    BY <1>2, <2>1
<1> QED
  BY <1>1, <1>2

\* Types of the chapters, their turns and their progress.
THEOREM ChapterTypesHold == ChapterSpec => []ChapterTypeOK
<1>1. ChapterInv => ChapterTypeOK
  BY DEF ChapterInv, ChapterTypeOK, OnlyArtifacts
<1>2. ChapterInv /\ [ChapterNext]_chapterVars => ChapterInv'
  BY ChapterStep
<1> QED
  BY <1>1, <1>2, ChapterInvInit, PTL DEF ChapterSpec

\* Beats are covered in order, what is recorded is what the story amounts to,
\* and a chapter that was left is not written on, whatever is written, accepted
\* and rolled back in whatever order.
THEOREM ProgressIsAlwaysEffective == ChapterSpec => ProgressIsEffective
<1>1. ChapterInv /\ [ChapterNext]_chapterVars => ChapterInv'
  BY ChapterStep
<1>2. ChapterInv /\ [ChapterNext]_chapterVars
        => [RecordedIsEffective /\ CoversInOrder /\ ClosedChapterIsFinal]_chapterVars
  BY ChapterStep DEF StepIsEffective
<1> QED
  BY <1>1, <1>2, ChapterInvInit, PTL DEF ChapterSpec, ProgressIsEffective

-----------------------------------------------------------------------------
(* The brainstorm.                                                         *)

Window == [flushed : BOOLEAN, talk : Seq(Prompts)]
ItemLists == {items \in Seq(Item) : Len(items) <= MaxItems}
Batch == [source : Nat, frozen : BOOLEAN, items : ItemLists]
Brainstorms == [revision : Nat, closed : BOOLEAN, windows : Seq(Window),
                batches : Seq(Batch)]
Calls == {NoCall} \cup
         [kind : {"discuss"}, prompt : Prompts, base : Brainstorms] \cup
         [kind : {"summarize"}, base : Brainstorms]

OneIsOpen(windows) ==
    \A v, w \in DOMAIN windows : Open(windows[v]) /\ Open(windows[w]) => v = w
\* Each batch is drawn from a window that is flushed, and no two from one.
AreBehind(windows, batches) ==
    \A b \in DOMAIN batches :
      /\ batches[b].source \in DOMAIN windows
      /\ ~Open(windows[batches[b].source])
      /\ \A d \in DOMAIN batches \ {b} : batches[d].source # batches[b].source

\* What a request loaded is what there is, unless a later revision is.
LoadedIsKnown ==
    \A c \in Clients :
      call[c].kind # "none" =>
        /\ call[c].base.revision <= brainstorm.revision
        /\ call[c].base.revision = brainstorm.revision =>
             call[c].base = brainstorm
        /\ call[c].kind = "summarize" => ActiveWindow(call[c].base) # 0

BrainstormInv ==
    /\ brainstorm \in Brainstorms /\ brainstorm.revision \in 1..MaxRevision
    /\ call \in [Clients -> Calls]
    /\ OneIsOpen(brainstorm.windows)
    /\ AreBehind(brainstorm.windows, brainstorm.batches)
    /\ LoadedIsKnown

LEMMA MaxRevisionIsNat == MaxRevision \in Nat /\ 1 <= MaxRevision
<1>1. Cardinality(Prompts) \in Nat
  BY BrainstormBounds, FS_CardinalityType
<1> QED
  BY <1>1 DEF MaxRevision

\* Of one open window at most, the active one is that one.
LEMMA ActiveIsOpen ==
    ASSUME NEW s, s.windows \in Seq(Window), OneIsOpen(s.windows),
           NEW w, w = ActiveWindow(s)
    PROVE  /\ w # 0 => w \in DOMAIN s.windows /\ Open(s.windows[w])
           /\ w = 0 => \A v \in DOMAIN s.windows : ~Open(s.windows[v])
<1> DEFINE open == {v \in DOMAIN s.windows : Open(s.windows[v])}
<1>1. w = IF open = {} THEN 0 ELSE CHOOSE x \in open : \A v \in open : v <= x
  BY DEF ActiveWindow
<1>2. open \subseteq Nat /\ 0 \notin open
  OBVIOUS
<1>3. CASE open = {}
  BY <1>1, <1>3
<1>4. CASE open # {}
  <2>1. PICK x \in open : TRUE
    BY <1>4
  <2>2. \A v \in open : v = x
    BY DEF OneIsOpen
  <2>3. \A v \in open : v <= x
    BY <1>2, <2>1, <2>2
  <2>4. w \in open
    BY <1>1, <1>4, <2>1, <2>3
  <2> QED
    BY <1>2, <2>4
<1> QED
  BY <1>3, <1>4

\* A revision that is recorded.
LEMMA RevisionIsRecorded ==
    ASSUME NEW base \in Brainstorms, NEW windows \in Seq(Window),
           NEW batches \in Seq(Batch), RecordSessionRevision(base, windows, batches)
    PROVE  /\ brainstorm' \in Brainstorms
           /\ brainstorm'.revision = base.revision + 1
           /\ brainstorm'.windows = windows /\ brainstorm'.batches = batches
<1> DEFINE revision == base.revision + 1
<1>1. base.revision \in Nat /\ base.closed \in BOOLEAN
  BY DEF Brainstorms
<1>2. revision \in Nat
  BY <1>1
<1> HIDE DEF revision
<1>3. brainstorm' = [base EXCEPT !.revision = revision, !.windows = windows,
                                 !.batches = batches]
  BY DEF RecordSessionRevision, revision
<1>4. brainstorm' = [revision |-> revision, closed |-> base.closed,
                     windows |-> windows, batches |-> batches]
  BY <1>3 DEF Brainstorms
<1> QED
  BY <1>1, <1>2, <1>4 DEF Brainstorms, revision

LEMMA CallsAreTyped ==
    ASSUME BrainstormInv, NEW c \in Clients
    PROVE  /\ call[c].kind \in {"none", "discuss", "summarize"}
           /\ call[c].kind # "none" => call[c].base \in Brainstorms
           /\ call[c].kind = "discuss" => call[c].prompt \in Prompts
           /\ call[c].kind = "none" => call[c] = NoCall
<1>1. call[c] \in Calls
  BY DEF BrainstormInv
<1> QED
  BY <1>1 DEF Calls, NoCall

\* An answer is recorded on what was loaded only while that is the latest.
LEMMA FreeIsLatest ==
    ASSUME BrainstormInv, NEW c \in Clients, call[c].kind # "none",
           RevisionFree(call[c].base)
    PROVE  call[c].base = brainstorm
BY DEF BrainstormInv, LoadedIsKnown, RevisionFree

\* The next revision keeps the invariant, whoever still waits.
LEMMA NextRevision ==
    ASSUME BrainstormInv, brainstorm.revision < MaxRevision,
           brainstorm' \in Brainstorms,
           brainstorm'.revision = brainstorm.revision + 1,
           OneIsOpen(brainstorm'.windows),
           AreBehind(brainstorm'.windows, brainstorm'.batches),
           call' = call \/ \E c \in Clients : call' = [call EXCEPT ![c] = NoCall]
    PROVE  BrainstormInv'
<1>1. brainstorm.revision \in Nat /\ brainstorm'.revision \in 1..MaxRevision
  BY MaxRevisionIsNat DEF BrainstormInv
<1>2. NoCall \in Calls /\ NoCall.kind = "none"
  BY DEF Calls, NoCall
<1>3. \A c \in Clients : call'[c] = call[c] \/ call'[c] = NoCall
  BY DEF BrainstormInv
<1>4. call' \in [Clients -> Calls]
  BY <1>2 DEF BrainstormInv
<1>5. LoadedIsKnown'
  <2> SUFFICES ASSUME NEW c \in Clients, call'[c].kind # "none"
               PROVE  /\ call'[c].base.revision <= brainstorm'.revision
                      /\ call'[c].base.revision # brainstorm'.revision
                      /\ call'[c].kind = "summarize" =>
                           ActiveWindow(call'[c].base) # 0
    BY DEF LoadedIsKnown
  <2>1. call'[c] = call[c]
    BY <1>2, <1>3
  <2>2. /\ call[c].base.revision <= brainstorm.revision
        /\ call[c].kind = "summarize" => ActiveWindow(call[c].base) # 0
    BY <2>1 DEF BrainstormInv, LoadedIsKnown
  <2>3. call[c].base.revision \in Nat
    BY <2>1, CallsAreTyped DEF Brainstorms
  <2> QED
    BY <1>1, <2>1, <2>2, <2>3
<1> QED
  BY <1>1, <1>4, <1>5 DEF BrainstormInv

LEMMA PrefixOfItself ==
    ASSUME NEW S, NEW s \in Seq(S), NEW x \in S
    PROVE  IsPrefix(s, s) /\ IsPrefix(s, Append(s, x))
<1> DEFINE t == Append(s, x)
<1>1. /\ t \in Seq(S) /\ Len(t) = Len(s) + 1 /\ Len(s) \in Nat
      /\ \A i \in 1..Len(s) : t[i] = s[i]
  OBVIOUS
<1> HIDE DEF t
<1>2. SubSeq(s, 1, Len(s)) = [i \in 1..Len(s) |-> s[i]]
  BY <1>1
<1>3. SubSeq(t, 1, Len(s)) = [i \in 1..Len(s) |-> t[i]]
  BY <1>1
<1>4. SubSeq(s, 1, Len(s)) = SubSeq(t, 1, Len(s))
  BY <1>1, <1>2, <1>3
<1>5. IsPrefix(s, s)
  BY <1>1 DEF IsPrefix
<1>6. IsPrefix(s, t)
  BY <1>1, <1>4 DEF IsPrefix
<1> QED
  BY <1>5, <1>6 DEF t

LEMMA ReplacedInSeq ==
    ASSUME NEW S, NEW s \in Seq(S), NEW i \in DOMAIN s, NEW x \in S,
           NEW t, t = [s EXCEPT ![i] = x]
    PROVE  /\ t \in Seq(S) /\ Len(t) = Len(s) /\ DOMAIN t = DOMAIN s
           /\ t[i] = x /\ \A j \in DOMAIN s : j # i => t[j] = s[j]
OBVIOUS

LEMMA WindowFields ==
    ASSUME NEW x \in Window, NEW t
    PROVE  /\ x.flushed \in BOOLEAN /\ x.talk \in Seq(Prompts)
           /\ [x EXCEPT !.talk = t] = [flushed |-> x.flushed, talk |-> t]
           /\ [x EXCEPT !.flushed = t] = [flushed |-> t, talk |-> x.talk]
<1>1. x.flushed \in BOOLEAN
  BY DEF Window
<1>2. x.talk \in Seq(Prompts)
  BY DEF Window
<1>3. [x EXCEPT !.talk = t] = [flushed |-> x.flushed, talk |-> t]
  BY DEF Window
<1>4. [x EXCEPT !.flushed = t] = [flushed |-> t, talk |-> x.talk]
  BY DEF Window
<1> QED
  BY <1>1, <1>2, <1>3, <1>4

\* Windows only grow while they are open.
WindowsKept(old, new) ==
    \A w \in DOMAIN old :
      /\ w \in DOMAIN new
      /\ IsPrefix(old[w].talk, new[w].talk)
      /\ old[w].flushed => new[w] = old[w]

LEMMA SameWindowsKept ==
    ASSUME NEW windows \in Seq(Window)
    PROVE  WindowsKept(windows, windows)
<1>1. \A w \in DOMAIN windows : windows[w].talk \in Seq(Prompts)
  <2>1. \A w \in DOMAIN windows : windows[w] \in Window
    OBVIOUS
  <2> QED
    BY <2>1, WindowFields
<1>2. \A s \in Seq(Prompts) : IsPrefix(s, s)
  BY DEF IsPrefix
<1> QED
  BY <1>1, <1>2 DEF WindowsKept

\* The windows with one that is open.
LEMMA WithActiveIsOpen ==
    ASSUME NEW base \in Brainstorms, OneIsOpen(base.windows),
           AreBehind(base.windows, base.batches),
           NEW ws, ws = WithActiveWindow(base),
           NEW w, w = ActiveWindow([base EXCEPT !.windows = ws])
    PROVE  /\ ws \in Seq(Window) /\ OneIsOpen(ws) /\ w \in DOMAIN ws
           /\ Open(ws[w]) /\ AreBehind(ws, base.batches)
           /\ \A v \in DOMAIN base.windows :
                v \in DOMAIN ws /\ ws[v] = base.windows[v]
<1> DEFINE s == [base EXCEPT !.windows = ws]
           a == ActiveWindow(base)
<1>1. base.windows \in Seq(Window)
  BY DEF Brainstorms
<1>2. s.windows = ws
  BY DEF Brainstorms
<1>3. /\ a # 0 => a \in DOMAIN base.windows /\ Open(base.windows[a])
      /\ a = 0 => \A v \in DOMAIN base.windows : ~Open(base.windows[v])
  BY <1>1, ActiveIsOpen
<1>4. NewWindow \in Window /\ Open(NewWindow)
  BY DEF NewWindow, Window, Open
<1> HIDE DEF a
<1>5. ws = IF a # 0 THEN base.windows ELSE Append(base.windows, NewWindow)
  BY DEF WithActiveWindow, a
<1>6. /\ ws \in Seq(Window)
      /\ \A v \in DOMAIN base.windows : v \in DOMAIN ws /\ ws[v] = base.windows[v]
      /\ \E v \in DOMAIN ws : Open(ws[v])
      /\ OneIsOpen(ws)
  <2>1. CASE a # 0
    BY <1>1, <1>3, <1>5, <2>1
  <2>2. CASE a = 0
    <3> DEFINE n == Len(base.windows)
    <3>1. ws = Append(base.windows, NewWindow)
      BY <1>5, <2>2
    <3>2. /\ DOMAIN ws = 1..(n + 1) /\ DOMAIN base.windows = 1..n /\ n \in Nat
          /\ ws[n + 1] = NewWindow /\ ws \in Seq(Window)
          /\ \A v \in DOMAIN base.windows : ws[v] = base.windows[v]
      BY <1>1, <1>4, <3>1
    <3>3. \A v \in DOMAIN ws : Open(ws[v]) => v = n + 1
      BY <1>3, <2>2, <3>2
    <3>4. n + 1 \in DOMAIN ws /\ Open(ws[n + 1])
      BY <1>4, <3>2
    <3> QED
      BY <3>2, <3>3, <3>4 DEF OneIsOpen
  <2> QED
    BY <2>1, <2>2
<1> HIDE DEF s
<1>7. w \in DOMAIN ws /\ Open(ws[w])
  BY <1>2, <1>6, ActiveIsOpen DEF s
<1>8. AreBehind(ws, base.batches)
  BY <1>6 DEF AreBehind
<1> QED
  BY <1>6, <1>7, <1>8

\* A prompt that is added to the open window.
LEMMA TalkGrows ==
    ASSUME NEW ws \in Seq(Window), OneIsOpen(ws), NEW w \in DOMAIN ws,
           Open(ws[w]), NEW p \in Prompts, NEW batches, AreBehind(ws, batches),
           NEW new, new = [ws EXCEPT ![w].talk = Append(@, p)]
    PROVE  /\ new \in Seq(Window) /\ OneIsOpen(new) /\ AreBehind(new, batches)
           /\ WindowsKept(ws, new)
<1> DEFINE talk == Append(ws[w].talk, p)
           window == [flushed |-> ws[w].flushed, talk |-> talk]
<1>a. ws[w] \in Window
  OBVIOUS
<1>1. ws[w] \in Window /\ ws[w].talk \in Seq(Prompts)
      /\ ws[w].flushed \in BOOLEAN
  BY <1>a, WindowFields
<1>2. talk \in Seq(Prompts) /\ IsPrefix(ws[w].talk, talk)
  BY <1>1, PrefixOfItself
<1>3. new = [ws EXCEPT ![w] = [ws[w] EXCEPT !.talk = talk]]
  OBVIOUS
<1> HIDE DEF talk
<1>4. [ws[w] EXCEPT !.talk = talk] = window
  BY <1>1, WindowFields
<1>b. window.flushed = ws[w].flushed /\ window.talk = talk
  OBVIOUS
<1>5. window \in Window
  BY <1>1, <1>2 DEF Window
<1> HIDE DEF window
<1>6. /\ DOMAIN new = DOMAIN ws /\ new[w] = window /\ new \in Seq(Window)
      /\ \A v \in DOMAIN ws : v # w => new[v] = ws[v]
  <2>1. new = [ws EXCEPT ![w] = window]
    BY <1>3, <1>4
  <2> QED
    BY <1>5, <2>1, ReplacedInSeq, SMTT(40)
<1>7. \A v \in DOMAIN ws : Open(new[v]) <=> Open(ws[v])
  BY <1>b, <1>6 DEF Open
<1>8. OneIsOpen(new)
  BY <1>6, <1>7 DEF OneIsOpen
<1>9. AreBehind(new, batches)
  BY <1>6, <1>7 DEF AreBehind
<1>10. WindowsKept(ws, new)
  <2> SUFFICES ASSUME NEW v \in DOMAIN ws
               PROVE  /\ IsPrefix(ws[v].talk, new[v].talk)
                      /\ ws[v].flushed => new[v] = ws[v]
    BY <1>6 DEF WindowsKept
  <2>1. CASE v = w
    BY <1>2, <1>b, <1>6, <2>1 DEF Open
  <2>2. CASE v # w
    BY <1>6, <2>2, SameWindowsKept DEF WindowsKept
  <2> QED
    BY <2>1, <2>2
<1> QED
  BY <1>6, <1>8, <1>9, <1>10

\* The open window is flushed.
LEMMA FlushCloses ==
    ASSUME NEW ws \in Seq(Window), OneIsOpen(ws), NEW w \in DOMAIN ws,
           Open(ws[w]), NEW batches, AreBehind(ws, batches),
           NEW new, new = FlushWindow(ws, w)
    PROVE  /\ new \in Seq(Window) /\ AreBehind(new, batches)
           /\ DOMAIN new = DOMAIN ws
           /\ \A v \in DOMAIN new : ~Open(new[v])
           /\ WindowsKept(ws, new)
<1> DEFINE window == [flushed |-> TRUE, talk |-> ws[w].talk]
<1>a. ws[w] \in Window
  OBVIOUS
<1>1. ws[w] \in Window /\ ws[w].talk \in Seq(Prompts)
  BY <1>a, WindowFields
<1>2. [ws[w] EXCEPT !.flushed = TRUE] = window
  BY <1>1, WindowFields
<1>3. new = [ws EXCEPT ![w] = [ws[w] EXCEPT !.flushed = TRUE]]
  BY DEF FlushWindow
<1>4. window \in Window /\ window.flushed /\ window.talk = ws[w].talk
  BY <1>1 DEF Window
<1> HIDE DEF window
<1>5. /\ DOMAIN new = DOMAIN ws /\ new[w] = window /\ new \in Seq(Window)
      /\ \A v \in DOMAIN ws : v # w => new[v] = ws[v]
  <2>1. new = [ws EXCEPT ![w] = window]
    BY <1>2, <1>3, <1>3
  <2> QED
    BY <1>4, <2>1, ReplacedInSeq
<1>6. \A v \in DOMAIN ws : ~Open(new[v])
  BY <1>4, <1>5 DEF OneIsOpen, Open
<1>7. AreBehind(new, batches)
  BY <1>5, <1>6 DEF AreBehind
<1>8. WindowsKept(ws, new)
  <2> SUFFICES ASSUME NEW v \in DOMAIN ws
               PROVE  /\ IsPrefix(ws[v].talk, new[v].talk)
                      /\ ws[v].flushed => new[v] = ws[v]
    BY <1>5 DEF WindowsKept
  <2>1. IsPrefix(ws[v].talk, ws[v].talk)
    BY SameWindowsKept DEF WindowsKept
  <2> QED
    BY <1>4, <1>5, <2>1 DEF Open
<1> QED
  BY <1>5, <1>6, <1>7, <1>8

\* What is recorded keeps what was said.
LEMMA RecordedWhole ==
    ASSUME BrainstormInv, brainstorm.revision < MaxRevision,
           NEW windows \in Seq(Window), NEW batches \in Seq(Batch),
           RecordSessionRevision(brainstorm, windows, batches),
           OneIsOpen(windows), AreBehind(windows, batches),
           WindowsKept(brainstorm.windows, windows),
           \A b \in DOMAIN brainstorm.batches :
             /\ b \in DOMAIN batches
             /\ windows # brainstorm.windows \/ brainstorm.batches[b].frozen =>
                  batches[b] = brainstorm.batches[b],
           call' = call \/ \E c \in Clients : call' = [call EXCEPT ![c] = NoCall]
    PROVE  BrainstormInv' /\ RecordedStays /\ SubmittedIsFrozen
<1>1. brainstorm \in Brainstorms
  BY DEF BrainstormInv
<1>2. /\ brainstorm' \in Brainstorms
      /\ brainstorm'.revision = brainstorm.revision + 1
      /\ brainstorm'.windows = windows /\ brainstorm'.batches = batches
  BY <1>1, RevisionIsRecorded
<1>3. BrainstormInv'
  BY <1>2, NextRevision
<1>4. RecordedStays
  BY <1>2 DEF RecordedStays, WindowsKept
<1>5. SubmittedIsFrozen
  BY <1>2 DEF SubmittedIsFrozen
<1> QED
  BY <1>3, <1>4, <1>5

LEMMA NothingRecorded ==
    ASSUME BrainstormInv, UNCHANGED brainstorm
    PROVE  RecordedStays /\ SubmittedIsFrozen
<1>1. brainstorm.windows \in Seq(Window)
  BY DEF BrainstormInv, Brainstorms
<1>2. WindowsKept(brainstorm.windows, brainstorm.windows)
  BY <1>1, SameWindowsKept
<1> QED
  BY <1>2 DEF RecordedStays, SubmittedIsFrozen, WindowsKept

\* A request starts to wait.
LEMMA CallStarts ==
    ASSUME BrainstormInv, NEW c \in Clients, NEW new \in Calls,
           new.kind # "none", new.base = brainstorm,
           new.kind = "summarize" => ActiveWindow(brainstorm) # 0,
           call' = [call EXCEPT ![c] = new], UNCHANGED brainstorm
    PROVE  BrainstormInv'
<1>1. call' \in [Clients -> Calls]
  BY DEF BrainstormInv
<1>2. \A d \in Clients : call'[d] = IF d = c THEN new ELSE call[d]
  BY DEF BrainstormInv
<1>3. brainstorm.revision \in Nat
  BY MaxRevisionIsNat DEF BrainstormInv
<1>4. LoadedIsKnown'
  <2> SUFFICES ASSUME NEW d \in Clients, call'[d].kind # "none"
               PROVE  /\ call'[d].base.revision <= brainstorm.revision
                      /\ call'[d].base.revision = brainstorm.revision =>
                           call'[d].base = brainstorm
                      /\ call'[d].kind = "summarize" =>
                           ActiveWindow(call'[d].base) # 0
    BY DEF LoadedIsKnown
  <2>1. CASE d = c
    BY <1>2, <1>3, <2>1
  <2>2. CASE d # c
    BY <1>2, <2>2 DEF BrainstormInv, LoadedIsKnown
  <2> QED
    BY <2>1, <2>2
<1> QED
  BY <1>1, <1>4 DEF BrainstormInv

LEMMA WaitSteps ==
    ASSUME BrainstormInv, NEW c \in Clients,
           \/ \E p \in Prompts : DiscussSession(c, p)
           \/ SummarizeSession(c)
           \/ CallRefused(c)
    PROVE  BrainstormInv' /\ RecordedStays /\ SubmittedIsFrozen
<1>1. UNCHANGED brainstorm /\ brainstorm \in Brainstorms
  BY DEF DiscussSession, SummarizeSession, CallRefused, BrainstormInv
<1>2. RecordedStays /\ SubmittedIsFrozen
  BY <1>1, NothingRecorded
<1>3. ASSUME NEW p \in Prompts, DiscussSession(c, p) PROVE BrainstormInv'
  <2> DEFINE new == [kind |-> "discuss", prompt |-> p, base |-> brainstorm]
  <2>1. call' = [call EXCEPT ![c] = new]
    BY <1>3 DEF DiscussSession
  <2>2. new \in Calls
    BY <1>1 DEF Calls
  <2>3. new.kind = "discuss" /\ new.base = brainstorm
    OBVIOUS
  <2> HIDE DEF new
  <2> QED
    BY <1>1, <2>1, <2>2, <2>3, CallStarts
<1>4. ASSUME SummarizeSession(c) PROVE BrainstormInv'
  <2> DEFINE new == [kind |-> "summarize", base |-> brainstorm]
  <2>1. call' = [call EXCEPT ![c] = new] /\ ActiveWindow(brainstorm) # 0
    BY <1>4 DEF SummarizeSession
  <2>2. new \in Calls
    BY <1>1 DEF Calls
  <2>3. new.kind = "summarize" /\ new.base = brainstorm
    OBVIOUS
  <2> HIDE DEF new
  <2> QED
    BY <1>1, <2>1, <2>2, <2>3, CallStarts
<1>5. ASSUME CallRefused(c) PROVE BrainstormInv'
  <2>1. call' = [call EXCEPT ![c] = NoCall]
    BY <1>5 DEF CallRefused
  <2>2. NoCall \in Calls /\ NoCall.kind = "none"
    BY DEF Calls, NoCall
  <2>3. call' \in [Clients -> Calls]
    BY <2>1, <2>2 DEF BrainstormInv
  <2>4. \A d \in Clients : call'[d] = NoCall \/ call'[d] = call[d]
    BY <2>1 DEF BrainstormInv
  <2>5. LoadedIsKnown'
    BY <1>1, <2>2, <2>4 DEF BrainstormInv, LoadedIsKnown
  <2> QED
    BY <1>1, <2>3, <2>5 DEF BrainstormInv
<1> QED
  BY <1>2, <1>3, <1>4, <1>5

LEMMA DiscussedStep ==
    ASSUME BrainstormInv, brainstorm.revision < MaxRevision, NEW c \in Clients,
           Discussed(c)
    PROVE  BrainstormInv' /\ RecordedStays /\ SubmittedIsFrozen
<1> DEFINE s == brainstorm
           p == call[c].prompt
           ws == WithActiveWindow(s)
           w == ActiveWindow([s EXCEPT !.windows = ws])
           new == [ws EXCEPT ![w].talk = Append(@, p)]
<1>1. /\ s \in Brainstorms /\ OneIsOpen(s.windows)
      /\ AreBehind(s.windows, s.batches)
  BY DEF BrainstormInv
<1>2. call[c].kind = "discuss" /\ RevisionFree(call[c].base)
  BY DEF Discussed
<1>3. call[c].base = s /\ p \in Prompts
  BY <1>2, FreeIsLatest, CallsAreTyped
<1>4. /\ RecordSessionRevision(s, new, s.batches)
      /\ call' = [call EXCEPT ![c] = NoCall]
  BY <1>3 DEF Discussed
<1>5. /\ ws \in Seq(Window) /\ OneIsOpen(ws) /\ w \in DOMAIN ws
      /\ Open(ws[w]) /\ AreBehind(ws, s.batches)
      /\ \A v \in DOMAIN s.windows : v \in DOMAIN ws /\ ws[v] = s.windows[v]
  BY <1>1, WithActiveIsOpen
<1> HIDE DEF ws, w
<1>d. new = [ws EXCEPT ![w].talk = Append(@, p)]
  OBVIOUS
<1> HIDE DEF new
<1>6. /\ new \in Seq(Window) /\ OneIsOpen(new) /\ AreBehind(new, s.batches)
      /\ WindowsKept(ws, new)
  BY <1>3, <1>5, <1>d, TalkGrows, ZenonT(60)
<1>7. WindowsKept(s.windows, new)
  BY <1>5, <1>6 DEF WindowsKept
<1>8. s.batches \in Seq(Batch)
  BY <1>1 DEF Brainstorms
<1> QED
  BY <1>4, <1>6, <1>7, <1>8, RecordedWhole

LEMMA ContinueStep ==
    ASSUME BrainstormInv, brainstorm.revision < MaxRevision, ContinueWriting
    PROVE  BrainstormInv' /\ RecordedStays /\ SubmittedIsFrozen
<1> DEFINE s == brainstorm
           w == ActiveWindow(s)
           new == FlushWindow(s.windows, w)
<1>1. /\ s \in Brainstorms /\ OneIsOpen(s.windows)
      /\ AreBehind(s.windows, s.batches)
      /\ s.windows \in Seq(Window) /\ s.batches \in Seq(Batch)
  BY DEF BrainstormInv, Brainstorms
<1>2. /\ w # 0 /\ RecordSessionRevision(s, new, s.batches) /\ UNCHANGED call
  BY DEF ContinueWriting
<1>3. w \in DOMAIN s.windows /\ Open(s.windows[w])
  BY <1>1, <1>2, ActiveIsOpen
<1> HIDE DEF w
<1>4. /\ new \in Seq(Window) /\ AreBehind(new, s.batches)
      /\ \A v \in DOMAIN new : ~Open(new[v])
      /\ WindowsKept(s.windows, new)
  BY <1>1, <1>3, FlushCloses
<1> HIDE DEF new
<1>5. OneIsOpen(new)
  BY <1>4 DEF OneIsOpen
<1> QED
  BY <1>1, <1>2, <1>4, <1>5, RecordedWhole

LEMMA SummarizedStep ==
    ASSUME BrainstormInv, brainstorm.revision < MaxRevision, NEW c \in Clients,
           Summarized(c)
    PROVE  BrainstormInv' /\ RecordedStays /\ SubmittedIsFrozen
<1> DEFINE s == brainstorm
           w == ActiveWindow(s)
           ws == FlushWindow(s.windows, w)
           item == [text |-> "summary", status |-> "active"]
           Drawn(n) == [source |-> w, frozen |-> FALSE,
                        items |-> [i \in 1..n |-> item]]
<1>1. /\ s \in Brainstorms /\ OneIsOpen(s.windows)
      /\ AreBehind(s.windows, s.batches)
      /\ s.windows \in Seq(Window) /\ s.batches \in Seq(Batch)
  BY DEF BrainstormInv, Brainstorms
<1>2. call[c].kind = "summarize" /\ RevisionFree(call[c].base)
  BY DEF Summarized
<1>3. call[c].base = s
  BY <1>2, FreeIsLatest
<1>4. w # 0
  BY <1>2, <1>3 DEF BrainstormInv, LoadedIsKnown
<1>5. PICK n \in 0..MaxItems :
        RecordSessionRevision(s, ws, Append(s.batches, Drawn(n)))
  BY <1>3 DEF Summarized
<1>6. call' = [call EXCEPT ![c] = NoCall]
  BY DEF Summarized
<1>7. w \in DOMAIN s.windows /\ Open(s.windows[w]) /\ w \in Nat
  BY <1>1, <1>4, ActiveIsOpen
<1> HIDE DEF w
<1>8. /\ ws \in Seq(Window) /\ AreBehind(ws, s.batches)
      /\ DOMAIN ws = DOMAIN s.windows
      /\ \A v \in DOMAIN ws : ~Open(ws[v])
      /\ WindowsKept(s.windows, ws)
  BY <1>1, <1>7, FlushCloses
<1> HIDE DEF ws
<1> DEFINE batch == Drawn(n)
           batches == Append(s.batches, batch)
<1>9. batch \in Batch /\ batch.source = w
  <2>1. item \in Item
    BY DEF Item
  <2> HIDE DEF item
  <2>2. MaxItems \in Nat /\ n \in Nat /\ n <= MaxItems
    BY BrainstormBounds
  <2>3. [i \in 1..n |-> item] \in Seq(Item) /\ Len([i \in 1..n |-> item]) = n
    BY <2>1, <2>2
  <2>4. [i \in 1..n |-> item] \in ItemLists
    BY <2>2, <2>3 DEF ItemLists
  <2> QED
    BY <1>7, <2>4 DEF Batch
<1> HIDE DEF batch
<1>10. /\ DOMAIN batches = 1..(Len(s.batches) + 1)
       /\ DOMAIN s.batches = 1..Len(s.batches)
       /\ Len(s.batches) \in Nat /\ batches[Len(s.batches) + 1] = batch
       /\ \A b \in DOMAIN s.batches : batches[b] = s.batches[b]
  BY <1>1, <1>9, AppendIsLast
<1>11. batches \in Seq(Batch)
  BY <1>1, <1>9
<1> HIDE DEF batches
<1>12. \A b \in DOMAIN s.batches :
         s.batches[b].source # w
  BY <1>1, <1>7 DEF AreBehind
<1>13. AreBehind(ws, batches)
  <2> SUFFICES ASSUME NEW b \in DOMAIN batches
               PROVE  /\ batches[b].source \in DOMAIN ws
                      /\ ~Open(ws[batches[b].source])
                      /\ \A d \in DOMAIN batches \ {b} :
                           batches[d].source # batches[b].source
    BY DEF AreBehind
  <2>1. CASE b = Len(s.batches) + 1
    <3>1. batches[b].source = w
      BY <1>9, <1>10, <2>1
    <3>2. \A d \in DOMAIN batches \ {b} : d \in DOMAIN s.batches
      BY <1>10, <2>1
    <3> QED
      BY <1>7, <1>8, <1>10, <1>12, <3>1, <3>2
  <2>2. CASE b # Len(s.batches) + 1
    <3>1. b \in DOMAIN s.batches /\ batches[b] = s.batches[b]
      BY <1>10, <2>2
    <3>2. batches[b].source \in DOMAIN ws /\ ~Open(ws[batches[b].source])
      BY <1>8, <3>1 DEF AreBehind
    <3>3. ASSUME NEW d \in DOMAIN batches \ {b}
          PROVE  batches[d].source # batches[b].source
      <4>1. CASE d = Len(s.batches) + 1
        BY <1>9, <1>10, <1>12, <3>1, <4>1
      <4>2. CASE d # Len(s.batches) + 1
        BY <1>1, <1>10, <3>1, <4>2 DEF AreBehind
      <4> QED
        BY <4>1, <4>2
    <3> QED
      BY <3>2, <3>3
  <2> QED
    BY <2>1, <2>2
<1>14. OneIsOpen(ws)
  BY <1>8 DEF OneIsOpen
<1>15. RecordSessionRevision(s, ws, batches)
  BY <1>5 DEF batches, batch
<1>16. \A b \in DOMAIN s.batches :
         b \in DOMAIN batches /\ batches[b] = s.batches[b]
  BY <1>10
<1> QED
  BY <1>6, <1>8, <1>11, <1>13, <1>14, <1>15, <1>16, RecordedWhole

LEMMA BatchFields ==
    ASSUME NEW x \in Batch, NEW f, NEW t
    PROVE  /\ x.source \in Nat /\ x.frozen \in BOOLEAN /\ x.items \in ItemLists
           /\ [x EXCEPT !.items = t] =
                [source |-> x.source, frozen |-> x.frozen, items |-> t]
           /\ [[x EXCEPT !.frozen = f] EXCEPT !.items = t] =
                [source |-> x.source, frozen |-> f, items |-> t]
<1>1. x.source \in Nat /\ x.frozen \in BOOLEAN
  BY DEF Batch
<1>2. x.items \in ItemLists
  BY DEF Batch
<1>3. [x EXCEPT !.items = t] =
        [source |-> x.source, frozen |-> x.frozen, items |-> t]
  BY DEF Batch
<1>4. [[x EXCEPT !.frozen = f] EXCEPT !.items = t] =
        [source |-> x.source, frozen |-> f, items |-> t]
  <2> DEFINE y == [x EXCEPT !.frozen = f]
  <2>1. y = [source |-> x.source, frozen |-> f, items |-> x.items]
    BY DEF Batch
  <2> HIDE DEF y
  <2>2. [y EXCEPT !.items = t] = [source |-> x.source, frozen |-> f, items |-> t]
    BY <2>1
  <2> QED
    BY <2>2 DEF y
<1> QED
  BY <1>1, <1>2, <1>3, <1>4

\* A batch that can be edited gets other items, and may be frozen with them.
LEMMA EditStep ==
    ASSUME BrainstormInv, brainstorm.revision < MaxRevision,
           NEW b \in DOMAIN brainstorm.batches, ~brainstorm.batches[b].frozen,
           NEW frozen \in BOOLEAN, NEW items \in ItemLists,
           NEW batches,
           batches = [brainstorm.batches EXCEPT ![b] =
                        [source |-> brainstorm.batches[b].source,
                         frozen |-> frozen, items |-> items]],
           RecordSessionRevision(brainstorm, brainstorm.windows, batches),
           UNCHANGED call
    PROVE  BrainstormInv' /\ RecordedStays /\ SubmittedIsFrozen
<1> DEFINE s == brainstorm
           batch == [source |-> s.batches[b].source, frozen |-> frozen,
                     items |-> items]
<1>1. /\ s.windows \in Seq(Window) /\ s.batches \in Seq(Batch)
      /\ OneIsOpen(s.windows) /\ AreBehind(s.windows, s.batches)
  BY DEF BrainstormInv, Brainstorms
<1>2. s.batches[b] \in Batch
  BY <1>1
<1>3. batch \in Batch /\ batch.source = s.batches[b].source
  BY <1>2, BatchFields DEF Batch
<1>4. batches = [s.batches EXCEPT ![b] = batch]
  OBVIOUS
<1> HIDE DEF batch
<1>5. /\ batches \in Seq(Batch) /\ DOMAIN batches = DOMAIN s.batches
      /\ batches[b] = batch
      /\ \A d \in DOMAIN s.batches : d # b => batches[d] = s.batches[d]
  BY <1>1, <1>3, <1>4, ReplacedInSeq
<1>6. \A d \in DOMAIN s.batches : batches[d].source = s.batches[d].source
  BY <1>3, <1>5
<1>7. AreBehind(s.windows, batches)
  BY <1>1, <1>5, <1>6 DEF AreBehind
<1>8. WindowsKept(s.windows, s.windows)
  BY <1>1, SameWindowsKept
<1>9. \A d \in DOMAIN s.batches :
        d \in DOMAIN batches /\ (s.batches[d].frozen => batches[d] = s.batches[d])
  BY <1>5
<1> QED
  BY <1>1, <1>5, <1>7, <1>8, <1>9, RecordedWhole

LEMMA BatchSteps ==
    ASSUME BrainstormInv, brainstorm.revision < MaxRevision,
           NEW b \in DOMAIN brainstorm.batches,
           \/ CreateItem(b)
           \/ \E i \in DOMAIN brainstorm.batches[b].items,
                 words \in {"summary", "own", "edited"},
                 status \in {"active", "deleted"} :
                UpdateItem(b, i, words, status)
           \/ SubmitBatch(b)
    PROVE  BrainstormInv' /\ RecordedStays /\ SubmittedIsFrozen
<1> DEFINE old == brainstorm.batches[b]
           items == old.items
           Changed(f, new) == [brainstorm.batches EXCEPT ![b] =
                                 [source |-> old.source, frozen |-> f,
                                  items |-> new]]
<1>1. brainstorm.batches \in Seq(Batch)
  BY DEF BrainstormInv, Brainstorms
<1>2. old \in Batch
  BY <1>1
<1>3. /\ old.source \in Nat /\ old.frozen \in BOOLEAN /\ items \in ItemLists
      /\ \A t : [old EXCEPT !.items = t] =
                  [source |-> old.source, frozen |-> old.frozen, items |-> t]
  BY <1>2, BatchFields
<1>4. items \in Seq(Item) /\ Len(items) <= MaxItems
  BY <1>3 DEF ItemLists
<1>5. ASSUME NEW new \in ItemLists, Edited(b, new), ~old.frozen
      PROVE  BrainstormInv' /\ RecordedStays /\ SubmittedIsFrozen
  <2>1. [brainstorm.batches EXCEPT ![b].items = new] = Changed(old.frozen, new)
    BY <1>3
  <2>2. /\ RecordSessionRevision(brainstorm, brainstorm.windows,
             Changed(old.frozen, new))
        /\ UNCHANGED call
    BY <1>5, <2>1 DEF Edited
  <2> QED
    BY <1>3, <1>5, <2>2, EditStep
<1>6. CASE CreateItem(b)
  <2> DEFINE item == [text |-> "own", status |-> "active"]
             new == Append(items, item)
  <2>1. /\ ~old.frozen /\ Len(items) < MaxItems /\ Edited(b, new)
    BY <1>6 DEF CreateItem, Editable
  <2>2. item \in Item
    BY DEF Item
  <2> HIDE DEF item
  <2>3. new \in Seq(Item) /\ Len(new) = Len(items) + 1 /\ Len(items) \in Nat
    BY <1>4, <2>2
  <2>4. new \in ItemLists
    BY <2>1, <2>3, BrainstormBounds DEF ItemLists
  <2> QED
    BY <1>5, <2>1, <2>4
<1>7. ASSUME NEW i \in DOMAIN items, NEW words \in {"summary", "own", "edited"},
             NEW status \in {"active", "deleted"},
             UpdateItem(b, i, words, status)
      PROVE  BrainstormInv' /\ RecordedStays /\ SubmittedIsFrozen
  <2> DEFINE item == [text |-> words, status |-> status]
             new == [items EXCEPT ![i] = item]
  <2>1. ~old.frozen /\ Edited(b, new)
    BY <1>7 DEF UpdateItem, Editable
  <2>2. item \in Item
    BY DEF Item
  <2> HIDE DEF item
  <2>3. new \in Seq(Item) /\ Len(new) = Len(items)
    BY <1>4, <2>2, ReplacedInSeq
  <2>4. new \in ItemLists
    BY <1>4, <2>3 DEF ItemLists
  <2> QED
    BY <1>5, <2>1, <2>4
<1>8. CASE SubmitBatch(b)
  <2> DEFINE Waiting(x) == IF x.status = "active"
                           THEN [x EXCEPT !.status = "pending"] ELSE x
             new == [i \in DOMAIN items |-> Waiting(items[i])]
  <2>1. /\ ~old.frozen /\ UNCHANGED call
        /\ RecordSessionRevision(brainstorm, brainstorm.windows,
             [brainstorm.batches EXCEPT ![b].frozen = TRUE, ![b].items = new])
    BY <1>8 DEF SubmitBatch, Editable
  <2>2. \A x \in Item : Waiting(x) \in Item
    BY DEF Item
  <2> HIDE DEF Waiting
  <2>3. new \in Seq(Item) /\ Len(new) = Len(items)
    BY <1>4, <2>2
  <2>4. new \in ItemLists
    BY <1>4, <2>3 DEF ItemLists
  <2> HIDE DEF new
  <2>5. [brainstorm.batches EXCEPT ![b].frozen = TRUE, ![b].items = new]
          = [brainstorm.batches EXCEPT ![b] =
               [[old EXCEPT !.frozen = TRUE] EXCEPT !.items = new]]
    OBVIOUS
  <2>6. [[old EXCEPT !.frozen = TRUE] EXCEPT !.items = new]
          = [source |-> old.source, frozen |-> TRUE, items |-> new]
    BY <1>2, BatchFields
  <2>7. RecordSessionRevision(brainstorm, brainstorm.windows, Changed(TRUE, new))
    BY <2>1, <2>5, <2>6
  <2> QED
    BY <2>1, <2>4, <2>7, EditStep
<1> QED
  BY <1>6, <1>7, <1>8

LEMMA CloseStep ==
    ASSUME BrainstormInv, brainstorm.revision < MaxRevision, CloseSession
    PROVE  BrainstormInv' /\ RecordedStays /\ SubmittedIsFrozen
<1> DEFINE s == brainstorm
           revision == s.revision + 1
<1>1. s \in Brainstorms /\ OneIsOpen(s.windows) /\ AreBehind(s.windows, s.batches)
  BY DEF BrainstormInv
<1>2. revision \in Nat
  BY <1>1 DEF Brainstorms
<1>3. s' = [s EXCEPT !.closed = TRUE, !.revision = revision] /\ UNCHANGED call
  BY DEF CloseSession
<1> HIDE DEF revision
<1>4. s' = [revision |-> revision, closed |-> TRUE, windows |-> s.windows,
            batches |-> s.batches]
  BY <1>1, <1>3 DEF Brainstorms
<1>5. s' \in Brainstorms
  BY <1>1, <1>2, <1>4 DEF Brainstorms
<1>6. s'.revision = revision /\ s'.windows = s.windows /\ s'.batches = s.batches
  BY <1>4
<1>7. BrainstormInv'
  BY <1>1, <1>3, <1>5, <1>6, NextRevision DEF revision
<1>8. WindowsKept(s.windows, s.windows)
  BY <1>1, SameWindowsKept DEF Brainstorms
<1> QED
  BY <1>6, <1>7, <1>8 DEF RecordedStays, SubmittedIsFrozen, WindowsKept

LEMMA BrainstormStep ==
    ASSUME BrainstormInv, BrainstormNext
    PROVE  BrainstormInv' /\ RecordedStays /\ SubmittedIsFrozen
<1>1. brainstorm.revision < MaxRevision
  BY DEF BrainstormNext
<1> QED
  BY <1>1, WaitSteps, DiscussedStep, SummarizedStep, ContinueStep, BatchSteps,
     CloseStep DEF BrainstormNext

LEMMA BrainstormInvInit == BrainstormInit => BrainstormInv
<1> SUFFICES ASSUME BrainstormInit PROVE BrainstormInv
  OBVIOUS
<1>1. NewWindow \in Window /\ NoCall \in Calls /\ NoCall.kind = "none"
  BY DEF NewWindow, Window, Calls, NoCall
<1>2. /\ brainstorm = [revision |-> 1, closed |-> FALSE,
                       windows |-> <<NewWindow>>, batches |-> <<>>]
      /\ call = [c \in Clients |-> NoCall]
  BY DEF BrainstormInit
<1>3. brainstorm \in Brainstorms
  BY <1>1, <1>2 DEF Brainstorms
<1>4. brainstorm.revision \in 1..MaxRevision
  BY <1>2, MaxRevisionIsNat
<1>5. OneIsOpen(brainstorm.windows)
  BY <1>2 DEF OneIsOpen
<1>6. AreBehind(brainstorm.windows, brainstorm.batches)
  BY <1>2 DEF AreBehind
<1>7. call \in [Clients -> Calls] /\ LoadedIsKnown
  BY <1>1, <1>2 DEF LoadedIsKnown
<1> QED
  BY <1>3, <1>4, <1>5, <1>6, <1>7 DEF BrainstormInv

LEMMA BrainstormInvStep ==
    BrainstormInv /\ [BrainstormNext]_brainstormVars => BrainstormInv'
<1>1. BrainstormInv /\ UNCHANGED brainstormVars => BrainstormInv'
  BY DEF brainstormVars, BrainstormInv, LoadedIsKnown
<1> QED
  BY <1>1, BrainstormStep

\* The variables of the brainstorm keep their types.
THEOREM BrainstormTypesHold == BrainstormSpec => []BrainstormTypeOK
<1>1. BrainstormInv => BrainstormTypeOK
  <2> SUFFICES ASSUME BrainstormInv PROVE BrainstormTypeOK
    OBVIOUS
  <2>1. /\ brainstorm.closed \in BOOLEAN
        /\ brainstorm.windows \in Seq(Window) /\ brainstorm.batches \in Seq(Batch)
        /\ brainstorm.revision \in 1..MaxRevision
    BY DEF BrainstormInv, Brainstorms
  <2>2. \A w \in DOMAIN brainstorm.windows :
          /\ brainstorm.windows[w].flushed \in BOOLEAN
          /\ brainstorm.windows[w].talk \in Seq(Prompts)
    <3>1. \A w \in DOMAIN brainstorm.windows : brainstorm.windows[w] \in Window
      BY <2>1
    <3> QED
      BY <3>1, WindowFields
  <2>3. ItemLists \subseteq SeqOf(Item, MaxItems)
    <3> SUFFICES ASSUME NEW items \in ItemLists
                 PROVE  items \in SeqOf(Item, MaxItems)
      OBVIOUS
    <3>1. /\ items \in [1..Len(items) -> Item]
          /\ Len(items) \in 0..MaxItems
      BY BrainstormBounds DEF ItemLists
    <3> QED
      BY <3>1 DEF SeqOf
  <2>4. \A b \in DOMAIN brainstorm.batches :
          /\ brainstorm.batches[b].source \in DOMAIN brainstorm.windows
          /\ brainstorm.batches[b].frozen \in BOOLEAN
          /\ brainstorm.batches[b].items \in ItemLists
    <3>1. \A b \in DOMAIN brainstorm.batches : brainstorm.batches[b] \in Batch
      BY <2>1
    <3>2. AreBehind(brainstorm.windows, brainstorm.batches)
      BY DEF BrainstormInv
    <3> QED
      BY <3>1, <3>2, BatchFields DEF AreBehind
  <2> QED
    BY <2>1, <2>2, <2>3, <2>4, CallsAreTyped DEF BrainstormTypeOK
<1> QED
  BY <1>1, BrainstormInvInit, BrainstormInvStep, PTL DEF BrainstormSpec

\* Of two requests that wait for the model over one brainstorm neither takes
\* back what the other recorded, a batch is drawn from a window that is behind,
\* and what was submitted stays as it was (_record_session_revision).
THEOREM NothingSaidIsEverLost == BrainstormSpec => NothingSaidIsLost
<1>1. BrainstormInv => OneOpenWindow /\ WindowsAreBehind
  BY DEF BrainstormInv, OneIsOpen, AreBehind, OneOpenWindow, WindowsAreBehind
<1>2. BrainstormInv /\ [BrainstormNext]_brainstormVars
        => [RecordedStays /\ SubmittedIsFrozen]_brainstormVars
  BY BrainstormStep
<1>3. BrainstormSpec =>
        /\ [][RecordedStays /\ SubmittedIsFrozen]_brainstormVars
        /\ [](OneOpenWindow /\ WindowsAreBehind)
  BY <1>1, <1>2, BrainstormInvInit, BrainstormInvStep, PTL DEF BrainstormSpec
<1> QED
  BY <1>3 DEF NothingSaidIsLost

-----------------------------------------------------------------------------
(* The review of a draft.                                                  *)

Overlay == [draft : Texts, refs : SUBSET RemarkIds]
CandidateTexts == Seq(AllBlocks \cup {Rewritten})
Candidate == [request : Nat, text : CandidateTexts]
Selection == [candidate : Nat, cleared : BOOLEAN]
Adoption == [candidate : Nat, selection : Nat, choices : Nat]

\* Documents ds and overlays os are two records of the same versions of the
\* text, and what an overlay refers to, of the remarks rs, is about its text.
AnchorsHold(ds, os, rs) ==
    /\ ds \in Seq(Texts) /\ os \in Seq(Overlay) /\ Len(os) = Len(ds)
    /\ \A i \in DOMAIN ds : os[i].draft = ds[i]
    /\ \A i, j \in DOMAIN ds : ds[i] = ds[j] => i = j
    /\ \A i \in DOMAIN rs : rs[i].overlay \in DOMAIN os
    /\ \A o \in DOMAIN os : \A r \in os[o].refs :
         r \in DOMAIN rs /\ rs[r].block \in TextBlocks(os[o].draft)

\* What a request carries is about its document, and a paragraph's request
\* carries what is about its targets.
RequestsHold(qs, rs) ==
    /\ qs \in Seq(RewriteRequest)
    /\ \A q \in DOMAIN qs : \A r \in qs[q].remarks :
         /\ r \in DOMAIN rs /\ rs[r].block \in TextBlocks(qs[q].draft)
         /\ qs[q].scope = "paragraph" => rs[r].block \in qs[q].targets

CandidatesHold(cs, qs) ==
    /\ cs \in Seq(Candidate)
    /\ \A c \in DOMAIN cs :
         /\ cs[c].request \in DOMAIN qs
         /\ qs[cs[c].request].scope = "paragraph" =>
              cs[c].text = Composed(qs[cs[c].request].draft,
                                    qs[cs[c].request].targets)

ChoicesHold(ss, as, cs) ==
    /\ ss \in Seq(Selection) /\ as \in Seq(Adoption)
    /\ \A s \in DOMAIN ss : ss[s].candidate \in DOMAIN cs
    /\ \A a \in DOMAIN as :
         as[a].candidate \in DOMAIN cs /\ as[a].selection \in 0..Len(ss)

ReviewInv ==
    /\ text \in Texts
    /\ remarks \in Seq(Remark) /\ Len(remarks) <= MaxRemarks
    /\ AnchorsHold(documents, overlays, remarks)
    /\ RequestsHold(requests, remarks)
    /\ CandidatesHold(candidates, requests)
    /\ ChoicesHold(selections, adoptions, candidates)

LEMMA BlocksAreListed ==
    ASSUME NEW t \in Texts
    PROVE  /\ BlocksOf[t] \in Seq(AllBlocks)
           /\ TextBlocks(t) \subseteq AllBlocks
           /\ \A i \in DOMAIN BlocksOf[t] : BlocksOf[t][i] \in TextBlocks(t)
<1>1. BlocksOf[t] \in Seq(Range(BlocksOf[t]))
  BY ReviewBounds
<1>2. TextBlocks(t) \subseteq AllBlocks
  BY DEF AllBlocks
<1>3. \A i \in DOMAIN BlocksOf[t] : BlocksOf[t][i] \in TextBlocks(t)
  BY DEF TextBlocks, ToSet
<1>4. BlocksOf[t] \in Seq(AllBlocks)
  <2>1. Len(BlocksOf[t]) \in Nat
        /\ BlocksOf[t] = [i \in 1..Len(BlocksOf[t]) |-> BlocksOf[t][i]]
    BY <1>1
  <2>2. \A i \in 1..Len(BlocksOf[t]) : BlocksOf[t][i] \in AllBlocks
    BY <1>1, <1>2, <1>3
  <2> QED
    BY <1>1, <2>2
<1> QED
  BY <1>2, <1>3, <1>4

\* Remarks are added and settled, what they are about stays.
LEMMA AnchorsStay ==
    ASSUME NEW rs, NEW new,
           \A r \in DOMAIN rs : r \in DOMAIN new /\ new[r].block = rs[r].block,
           NEW qs, RequestsHold(qs, rs)
    PROVE  RequestsHold(qs, new)
BY DEF RequestsHold

LEMMA OverlayFields ==
    ASSUME NEW x \in Overlay, NEW t
    PROVE  /\ x.draft \in Texts /\ x.refs \in SUBSET RemarkIds
           /\ [x EXCEPT !.refs = t] = [draft |-> x.draft, refs |-> t]
BY DEF Overlay

LEMMA RemarkFields ==
    ASSUME NEW x \in Remark, NEW t
    PROVE  /\ x.block \in AllBlocks /\ x.overlay \in Nat
           /\ x.kind \in {"comment", "change"}
           /\ [x EXCEPT !.status = t] =
                [kind |-> x.kind, block |-> x.block, overlay |-> x.overlay,
                 status |-> t]
BY DEF Remark

\* Ensuring the overlay of the text as it stands adds a document with it.
LEMMA EnsuredOverlay ==
    ASSUME ReviewInv
    PROVE  /\ AnchorsHold(DocumentsNow, OverlaysNow, remarks)
           /\ OverlayNow \in DOMAIN OverlaysNow
           /\ OverlaysNow[OverlayNow].draft = text
<1> DEFINE new == [draft |-> text, refs |-> {}]
           n == Len(documents)
<1>1. AnchorsHold(documents, overlays, remarks) /\ text \in Texts
  BY DEF ReviewInv
<1>2. /\ documents \in Seq(Texts) /\ overlays \in Seq(Overlay) /\ n \in Nat
      /\ DOMAIN documents = 1..n /\ DOMAIN overlays = 1..n
      /\ Len(overlays) = n
      /\ \A i \in 1..n : overlays[i].draft = documents[i]
  BY <1>1 DEF AnchorsHold
<1>3. new \in Overlay /\ new.draft = text /\ new.refs = {}
  BY <1>1 DEF Overlay
<1> HIDE DEF new
<1>4. text \in ToSet(documents) <=> \E i \in 1..n : overlays[i].draft = text
  BY <1>2 DEF ToSet
<1>5. CASE \E i \in 1..n : overlays[i].draft = text
  <2>1. OverlaysNow = overlays /\ DocumentsNow = documents
    BY <1>2, <1>4, <1>5 DEF OverlaysNow, DocumentsNow
  <2> QED
    BY <1>1, <1>2, <1>5, <2>1 DEF OverlayNow
<1>6. CASE ~\E i \in 1..n : overlays[i].draft = text
  <2>1. /\ OverlaysNow = Append(overlays, new)
        /\ DocumentsNow = Append(documents, text)
    BY <1>2, <1>4, <1>6 DEF OverlaysNow, DocumentsNow, new
  <2> DEFINE os == OverlaysNow
             ds == DocumentsNow
  <2>2. /\ os \in Seq(Overlay) /\ Len(os) = n + 1 /\ DOMAIN os = 1..(n + 1)
        /\ os[n + 1] = new /\ \A i \in 1..n : os[i] = overlays[i]
    BY <1>2, <1>3, <2>1, AppendIsLast
  <2>3. /\ ds \in Seq(Texts) /\ Len(ds) = n + 1 /\ DOMAIN ds = 1..(n + 1)
        /\ ds[n + 1] = text /\ \A i \in 1..n : ds[i] = documents[i]
    BY <1>1, <1>2, <2>1, AppendIsLast
  <2> HIDE DEF os, ds
  <2>4. \A i \in 1..(n + 1) : i \in 1..n \/ i = n + 1
    BY <1>2
  <2>5. \A i \in DOMAIN ds : os[i].draft = ds[i]
    BY <1>2, <1>3, <2>2, <2>3, <2>4
  <2>6. \A i, j \in DOMAIN ds : ds[i] = ds[j] => i = j
    <3>1. \A i \in 1..n : documents[i] # text
      BY <1>2, <1>6
    <3>2. \A i, j \in 1..n : documents[i] = documents[j] => i = j
      BY <1>1, <1>2 DEF AnchorsHold
    <3> QED
      BY <2>3, <2>4, <3>1, <3>2
  <2>7. \A i \in DOMAIN remarks : remarks[i].overlay \in DOMAIN os
    BY <1>1, <1>2, <2>2 DEF AnchorsHold
  <2>8. \A o \in DOMAIN os : \A r \in os[o].refs :
          r \in DOMAIN remarks /\ remarks[r].block \in TextBlocks(os[o].draft)
    BY <1>1, <1>2, <1>3, <2>2, <2>4 DEF AnchorsHold
  <2>9. AnchorsHold(ds, os, remarks)
    BY <2>2, <2>3, <2>5, <2>6, <2>7, <2>8 DEF AnchorsHold
  <2>10. n + 1 \in DOMAIN os /\ os[n + 1].draft = text
    BY <1>2, <1>3, <2>2
  <2> QED
    BY <2>9, <2>10 DEF OverlayNow, os, ds
<1> QED
  BY <1>5, <1>6

LEMMA AddRemarkStep ==
    ASSUME ReviewInv, NEW kind \in {"comment", "change"}, NEW block \in AllBlocks,
           AddRemark(kind, block)
    PROVE  ReviewInv'
<1> DEFINE ds == DocumentsNow
           old == OverlaysNow
           o == OverlayNow
           n == Len(remarks) + 1
           remark == [kind |-> kind, block |-> block, overlay |-> o,
                      status |-> "active"]
           overlay == [draft |-> text, refs |-> old[o].refs \cup {n}]
           rs == Append(remarks, remark)
           os == [old EXCEPT ![o] = overlay]
<1>1. /\ remarks \in Seq(Remark) /\ Len(remarks) \in Nat
      /\ Len(remarks) < MaxRemarks /\ block \in TextBlocks(text)
  BY DEF AddRemark, ReviewInv
<1>2. /\ AnchorsHold(ds, old, remarks) /\ o \in DOMAIN old
      /\ old[o].draft = text
  BY EnsuredOverlay
<1>3. /\ remarks' = rs /\ documents' = ds
      /\ overlays' = [old EXCEPT ![o].refs = @ \cup {Len(rs)}]
      /\ UNCHANGED <<text, requests, candidates, selections, adoptions>>
  BY DEF AddRemark, EnsureOverlay
<1> HIDE DEF ds, old, o
<1>4. old \in Seq(Overlay) /\ old[o] \in Overlay /\ o \in Nat
  BY <1>2 DEF AnchorsHold
<1>5. remark \in Remark /\ remark.block = block /\ remark.overlay = o
  BY <1>4 DEF Remark
<1> HIDE DEF remark
<1>6. /\ rs \in Seq(Remark) /\ Len(rs) = n /\ DOMAIN rs = 1..n
      /\ DOMAIN remarks = 1..Len(remarks)
      /\ rs[n] = remark /\ \A r \in DOMAIN remarks : rs[r] = remarks[r]
  BY <1>1, <1>5, AppendIsLast
<1> HIDE DEF rs
<1>7. n \in RemarkIds
  BY <1>1, ReviewBounds DEF RemarkIds
<1>8. overlays' = os
  <2>1. [old[o] EXCEPT !.refs = old[o].refs \cup {n}] = overlay
    BY <1>2, <1>4, OverlayFields
  <2> HIDE DEF overlay
  <2> QED
    BY <1>3, <1>6, <2>1
<1>9. /\ overlay \in Overlay /\ overlay.draft = text
      /\ overlay.refs = old[o].refs \cup {n}
  BY <1>4, <1>7, OverlayFields DEF Overlay, ReviewInv
<1> HIDE DEF overlay
<1>10. /\ os \in Seq(Overlay) /\ Len(os) = Len(old) /\ DOMAIN os = DOMAIN old
       /\ os[o] = overlay /\ \A i \in DOMAIN old : i # o => os[i] = old[i]
  BY <1>2, <1>4, <1>9, ReplacedInSeq
<1> HIDE DEF os
<1>11. AnchorsHold(ds, os, rs)
  <2>1. DOMAIN ds = DOMAIN old /\ ds \in Seq(Texts)
    BY <1>2, <1>4 DEF AnchorsHold
  <2>2. \A i \in DOMAIN ds : os[i].draft = ds[i]
    BY <1>2, <1>9, <1>10, <2>1 DEF AnchorsHold
  <2>3. \A i \in DOMAIN rs : rs[i].overlay \in DOMAIN os
    <3>1. \A i \in DOMAIN rs : i \in DOMAIN remarks \/ i = n
      BY <1>1, <1>6
    <3> QED
      BY <1>2, <1>5, <1>6, <1>10, <3>1 DEF AnchorsHold
  <2>4. \A i \in DOMAIN os : \A r \in os[i].refs :
          r \in DOMAIN rs /\ rs[r].block \in TextBlocks(os[i].draft)
    <3> SUFFICES ASSUME NEW i \in DOMAIN os, NEW r \in os[i].refs
                 PROVE  r \in DOMAIN rs /\ rs[r].block \in TextBlocks(os[i].draft)
      OBVIOUS
    <3>1. os[i].draft = old[i].draft
      BY <1>2, <1>9, <1>10
    <3>2. CASE r \in old[i].refs
      <4>1. r \in DOMAIN remarks /\ remarks[r].block \in TextBlocks(old[i].draft)
        BY <1>2, <1>10, <3>2 DEF AnchorsHold
      <4>2. r \in DOMAIN rs /\ rs[r] = remarks[r]
        BY <1>1, <1>6, <4>1
      <4> QED
        BY <3>1, <4>1, <4>2
    <3>3. CASE r \notin old[i].refs
      <4>1. i = o /\ r = n
        BY <1>9, <1>10, <3>3
      <4> QED
        BY <1>1, <1>2, <1>5, <1>6, <3>1, <4>1
    <3> QED
      BY <3>2, <3>3
  <2> QED
    BY <1>2, <1>10, <2>1, <2>2, <2>3, <2>4 DEF AnchorsHold
<1>12. RequestsHold(requests, rs)
  BY <1>1, <1>6, AnchorsStay DEF ReviewInv
<1>13. Len(rs) <= MaxRemarks
  BY <1>1, <1>6, ReviewBounds
<1> QED
  BY <1>3, <1>6, <1>8, <1>11, <1>12, <1>13 DEF ReviewInv

LEMMA SettleStep ==
    ASSUME ReviewInv, NEW r \in DOMAIN remarks,
           NEW status \in {"resolved", "deleted"}, SettleComment(r, status)
    PROVE  ReviewInv'
<1> DEFINE ds == DocumentsNow
           os == OverlaysNow
           remark == [remarks[r] EXCEPT !.status = status]
           rs == [remarks EXCEPT ![r] = remark]
<1>1. remarks \in Seq(Remark) /\ remarks[r] \in Remark /\ Len(remarks) <= MaxRemarks
  BY DEF ReviewInv
<1>2. AnchorsHold(ds, os, remarks)
  BY EnsuredOverlay
<1>3. /\ remarks' = rs /\ documents' = ds /\ overlays' = os
      /\ UNCHANGED <<text, requests, candidates, selections, adoptions>>
  BY DEF SettleComment, EnsureOverlay
<1>4. /\ remark \in Remark /\ remark.block = remarks[r].block
      /\ remark.overlay = remarks[r].overlay
  BY <1>1 DEF Remark
<1> HIDE DEF remark, ds, os
<1>5. /\ rs \in Seq(Remark) /\ Len(rs) = Len(remarks)
      /\ DOMAIN rs = DOMAIN remarks
      /\ rs[r] = remark /\ \A i \in DOMAIN remarks : i # r => rs[i] = remarks[i]
  BY <1>1, <1>4, ReplacedInSeq
<1> HIDE DEF rs
<1>6. \A i \in DOMAIN remarks :
        /\ i \in DOMAIN rs /\ rs[i].block = remarks[i].block
        /\ rs[i].overlay = remarks[i].overlay
  BY <1>4, <1>5
<1>7. AnchorsHold(ds, os, rs)
  BY <1>2, <1>5, <1>6 DEF AnchorsHold
<1>8. RequestsHold(requests, rs)
  BY <1>6, AnchorsStay DEF ReviewInv
<1> QED
  BY <1>1, <1>3, <1>5, <1>7, <1>8 DEF ReviewInv

\* The document and the overlay of a request, found separately, are of one
\* version: what is active in the overlay is about the document.
LEMMA LatestIsOverlaid ==
    ASSUME ReviewInv, overlays # <<>>
    PROVE  /\ LatestDocument \in Texts
           /\ \A r \in ActiveRemarks(OverlayForDraft) :
                /\ r \in DOMAIN remarks /\ r \in RemarkIds
                /\ remarks[r].status = "active"
                /\ remarks[r].block \in TextBlocks(LatestDocument)
<1> DEFINE n == Len(documents)
<1>1. AnchorsHold(documents, overlays, remarks)
  BY DEF ReviewInv
<1>2. /\ documents \in Seq(Texts) /\ overlays \in Seq(Overlay) /\ n \in Nat
      /\ Len(overlays) = n /\ n # 0
  BY <1>1 DEF AnchorsHold
<1>3. n \in DOMAIN documents /\ n \in DOMAIN overlays
  BY <1>2
<1>4. LatestDocument = documents[n] /\ OverlayForDraft = n
  BY <1>2 DEF LatestDocument, OverlayForDraft, Last
<1>5. overlays[n].draft = documents[n] /\ documents[n] \in Texts
      /\ overlays[n] \in Overlay
  BY <1>1, <1>2, <1>3 DEF AnchorsHold
<1>6. overlays[n].refs \subseteq RemarkIds
  BY <1>5, OverlayFields
<1> QED
  BY <1>1, <1>3, <1>4, <1>5, <1>6 DEF ActiveRemarks, AnchorsHold

\* A request that carries active remarks of the latest overlay is added.
LEMMA RequestStep ==
    ASSUME ReviewInv, overlays # <<>>,
           NEW scope \in {"full", "paragraph"}, NEW targets \in SUBSET AllBlocks,
           NEW refs, refs \subseteq ActiveRemarks(OverlayForDraft),
           scope = "paragraph" => \A r \in refs : remarks[r].block \in targets,
           AddRequest([scope |-> scope, draft |-> LatestDocument,
                       targets |-> targets, remarks |-> refs])
    PROVE  ReviewInv' /\ SettledIsNotSent /\ LastChoiceIsAdopted
<1> DEFINE request == [scope |-> scope, draft |-> LatestDocument,
                       targets |-> targets, remarks |-> refs]
           n == Len(requests)
           qs == Append(requests, request)
<1>1. /\ requests' = qs
      /\ UNCHANGED <<text, documents, overlays, remarks, candidates,
                     selections, adoptions>>
  BY DEF AddRequest
<1>2. /\ LatestDocument \in Texts
      /\ \A r \in refs :
           /\ r \in DOMAIN remarks /\ r \in RemarkIds
           /\ remarks[r].status = "active"
           /\ remarks[r].block \in TextBlocks(LatestDocument)
  BY LatestIsOverlaid
<1>3. /\ request \in RewriteRequest /\ request.remarks = refs
      /\ request.draft = LatestDocument /\ request.scope = scope
      /\ request.targets = targets
  BY <1>2 DEF RewriteRequest
<1> HIDE DEF request
<1>4. RequestsHold(requests, remarks) /\ requests \in Seq(RewriteRequest)
  BY DEF ReviewInv, RequestsHold
<1>5. /\ qs \in Seq(RewriteRequest) /\ DOMAIN qs = 1..(n + 1) /\ n \in Nat
      /\ DOMAIN requests = 1..n /\ Len(qs) = n + 1
      /\ qs[n + 1] = request /\ \A q \in DOMAIN requests : qs[q] = requests[q]
  BY <1>3, <1>4, AppendIsLast
<1> HIDE DEF qs
<1>6. \A q \in DOMAIN qs : q \in DOMAIN requests \/ q = n + 1
  BY <1>5
<1>7. RequestsHold(qs, remarks)
  BY <1>2, <1>3, <1>4, <1>5, <1>6 DEF RequestsHold
<1>8. \A q \in DOMAIN requests : q \in DOMAIN qs /\ qs[q] = requests[q]
  BY <1>5
<1>9. CandidatesHold(candidates, qs)
  <2>1. CandidatesHold(candidates, requests)
    BY DEF ReviewInv
  <2> QED
    BY <1>8, <2>1 DEF CandidatesHold
<1>10. ReviewInv'
  BY <1>1, <1>7, <1>9 DEF ReviewInv
<1>11. SettledIsNotSent
  <2>1. Last(requests') = request
    BY <1>1, <1>5 DEF Last
  <2> QED
    BY <1>2, <1>3, <2>1 DEF SettledIsNotSent
<1>12. LastChoiceIsAdopted
  BY <1>1 DEF LastChoiceIsAdopted, ReviewInv, ChoicesHold
<1> QED
  BY <1>10, <1>11, <1>12

LEMMA RequestSteps ==
    ASSUME ReviewInv,
           \/ RequestFull
           \/ \E targets \in SUBSET AllBlocks, refs \in SUBSET DOMAIN remarks :
                RequestParagraph(targets, refs)
    PROVE  ReviewInv' /\ SettledIsNotSent /\ LastChoiceIsAdopted
<1>1. CASE RequestFull
  <2> DEFINE refs == RecordsOf(overlays[OverlayForDraft].refs)
  <2>1. /\ overlays # <<>>
        /\ AddRequest([scope |-> "full", draft |-> LatestDocument,
                       targets |-> {}, remarks |-> refs])
    BY <1>1 DEF RequestFull
  <2>2. refs \subseteq ActiveRemarks(OverlayForDraft)
    BY DEF RecordsOf
  <2> HIDE DEF refs
  <2>3. {} \in SUBSET AllBlocks /\ "full" \in {"full", "paragraph"}
        /\ "full" # "paragraph"
    OBVIOUS
  <2> QED
    BY <2>1, <2>2, <2>3, RequestStep
<1>2. ASSUME NEW targets \in SUBSET AllBlocks, NEW refs \in SUBSET DOMAIN remarks,
             RequestParagraph(targets, refs)
      PROVE  ReviewInv' /\ SettledIsNotSent /\ LastChoiceIsAdopted
  <2> DEFINE t == LatestDocument
  <2>1. /\ overlays # <<>> /\ targets # {} /\ targets \subseteq TextBlocks(t)
        /\ refs = RecordsOf(refs) /\ InScope(t, targets, refs)
        /\ AddRequest([scope |-> "paragraph", draft |-> t,
                       targets |-> targets, remarks |-> refs])
    BY <1>2 DEF RequestParagraph
  <2>2. refs \subseteq ActiveRemarks(OverlayForDraft)
    BY <2>1 DEF RecordsOf
  <2>3. \A r \in refs : remarks[r].block \in targets
    BY <2>1 DEF InScope
  <2> HIDE DEF t
  <2>4. "paragraph" \in {"full", "paragraph"}
    OBVIOUS
  <2> QED
    BY <2>1, <2>2, <2>3, <2>4, RequestStep DEF t
<1> QED
  BY <1>1, <1>2

\* The parts of the review that most operations leave alone.
LEMMA RestOfReview ==
    ASSUME ReviewInv
    PROVE  /\ candidates \in Seq(Candidate) /\ selections \in Seq(Selection)
           /\ adoptions \in Seq(Adoption) /\ requests \in Seq(RewriteRequest)
           /\ Len(candidates) \in Nat /\ DOMAIN candidates = 1..Len(candidates)
           /\ Len(selections) \in Nat /\ DOMAIN selections = 1..Len(selections)
           /\ CandidatesHold(candidates, requests)
           /\ ChoicesHold(selections, adoptions, candidates)
BY DEF ReviewInv, CandidatesHold, ChoicesHold, RequestsHold

LEMMA ComposedIsText ==
    ASSUME NEW t \in Texts, NEW replaced
    PROVE  /\ Composed(t, replaced) \in CandidateTexts
           /\ Len(Composed(t, replaced)) = Len(BlocksOf[t])
           /\ \A i \in DOMAIN BlocksOf[t] :
                Composed(t, replaced)[i] =
                  IF BlocksOf[t][i] \in replaced THEN Rewritten
                  ELSE BlocksOf[t][i]
<1> DEFINE n == Len(BlocksOf[t])
           Part(i) == IF BlocksOf[t][i] \in replaced THEN Rewritten
                      ELSE BlocksOf[t][i]
<1>1. /\ BlocksOf[t] \in Seq(AllBlocks) /\ n \in Nat
      /\ DOMAIN BlocksOf[t] = 1..n
  BY BlocksAreListed
<1>2. \A i \in 1..n : Part(i) \in AllBlocks \cup {Rewritten}
  BY <1>1
<1>3. Composed(t, replaced) = [i \in 1..n |-> Part(i)]
  BY <1>1 DEF Composed
<1>4. \A i \in 1..n : Composed(t, replaced)[i] = Part(i)
  BY <1>3
<1> HIDE DEF Part
<1>5. Composed(t, replaced) \in Seq(AllBlocks \cup {Rewritten})
      /\ Len(Composed(t, replaced)) = n
  BY <1>1, <1>2, <1>3
<1> QED
  BY <1>1, <1>4, <1>5 DEF CandidateTexts, Part

LEMMA CandidateStep ==
    ASSUME ReviewInv, NEW q \in DOMAIN requests, NEW words \in CandidateTexts,
           requests[q].scope = "paragraph" =>
             words = Composed(requests[q].draft, requests[q].targets),
           AddCandidate([request |-> q, text |-> words])
    PROVE  ReviewInv' /\ SettledIsNotSent /\ LastChoiceIsAdopted
<1> DEFINE candidate == [request |-> q, text |-> words]
           n == Len(candidates)
           cs == Append(candidates, candidate)
<1>1. /\ candidates' = cs
      /\ UNCHANGED <<text, documents, overlays, remarks, requests,
                     selections, adoptions>>
  BY DEF AddCandidate
<1>2. /\ candidates \in Seq(Candidate) /\ CandidatesHold(candidates, requests)
      /\ ChoicesHold(selections, adoptions, candidates)
      /\ requests \in Seq(RewriteRequest)
  BY RestOfReview
<1>3. q \in Nat
  BY <1>2
<1>4. candidate \in Candidate /\ candidate.request = q /\ candidate.text = words
  BY <1>3 DEF Candidate
<1> HIDE DEF candidate
<1>5. /\ cs \in Seq(Candidate) /\ DOMAIN cs = 1..(n + 1) /\ n \in Nat
      /\ DOMAIN candidates = 1..n /\ Len(cs) = n + 1
      /\ cs[n + 1] = candidate
      /\ \A c \in DOMAIN candidates : cs[c] = candidates[c]
  BY <1>2, <1>4, AppendIsLast
<1> HIDE DEF cs
<1>6. \A c \in DOMAIN cs : c \in DOMAIN candidates \/ c = n + 1
  BY <1>5
<1>7. CandidatesHold(cs, requests)
  BY <1>2, <1>4, <1>5, <1>6 DEF CandidatesHold
<1>8. \A c \in DOMAIN candidates : c \in DOMAIN cs
  BY <1>5
<1>9. ChoicesHold(selections, adoptions, cs)
  BY <1>2, <1>8 DEF ChoicesHold
<1>10. ReviewInv'
  BY <1>1, <1>7, <1>9 DEF ReviewInv
<1>11. SettledIsNotSent /\ LastChoiceIsAdopted
  BY <1>1, <1>2 DEF SettledIsNotSent, LastChoiceIsAdopted, ChoicesHold
<1> QED
  BY <1>10, <1>11

LEMMA CandidateSteps ==
    ASSUME ReviewInv, NEW q \in DOMAIN requests,
           \/ CandidateFull(q)
           \/ \E replaced \in SUBSET AllBlocks : CandidateParagraph(q, replaced)
    PROVE  ReviewInv' /\ SettledIsNotSent /\ LastChoiceIsAdopted
<1>1. requests[q] \in RewriteRequest
  BY RestOfReview
<1>2. requests[q].draft \in Texts
  BY <1>1 DEF RewriteRequest
<1>3. CASE CandidateFull(q)
  <2>1. <<Rewritten>> \in CandidateTexts
    BY DEF CandidateTexts
  <2>2. /\ requests[q].scope = "full"
        /\ AddCandidate([request |-> q, text |-> <<Rewritten>>])
    BY <1>3 DEF CandidateFull
  <2> QED
    BY <2>1, <2>2, CandidateStep
<1>4. ASSUME NEW replaced \in SUBSET AllBlocks, CandidateParagraph(q, replaced)
      PROVE  ReviewInv' /\ SettledIsNotSent /\ LastChoiceIsAdopted
  <2> DEFINE words == Composed(LatestDocument, replaced)
  <2>1. /\ requests[q].draft = LatestDocument
        /\ replaced = requests[q].targets
        /\ AddCandidate([request |-> q, text |-> words])
    BY <1>4 DEF CandidateParagraph, PatchFits
  <2>2. words \in CandidateTexts
    BY <1>2, <2>1, ComposedIsText
  <2>3. words = Composed(requests[q].draft, requests[q].targets)
    BY <2>1
  <2> HIDE DEF words
  <2> QED
    BY <2>1, <2>2, <2>3, CandidateStep
<1> QED
  BY <1>3, <1>4

\* A receipt of a selection is added.
LEMMA SelectionStep ==
    ASSUME ReviewInv, NEW selection \in Selection,
           selection.candidate \in DOMAIN candidates,
           selections' = Append(selections, selection),
           UNCHANGED <<text, documents, overlays, remarks, requests, candidates,
                       adoptions>>
    PROVE  ReviewInv' /\ SettledIsNotSent /\ LastChoiceIsAdopted
<1> DEFINE n == Len(selections)
           ss == Append(selections, selection)
<1>1. /\ selections \in Seq(Selection) /\ requests \in Seq(RewriteRequest)
      /\ ChoicesHold(selections, adoptions, candidates)
  BY RestOfReview
<1>2. /\ ss \in Seq(Selection) /\ DOMAIN ss = 1..(n + 1) /\ n \in Nat
      /\ DOMAIN selections = 1..n /\ Len(ss) = n + 1 /\ ss[n + 1] = selection
      /\ \A s \in DOMAIN selections : ss[s] = selections[s]
  BY <1>1, AppendIsLast
<1>3. selections' = ss
  OBVIOUS
<1> HIDE DEF ss
<1>4. \A s \in DOMAIN ss : ss[s].candidate \in DOMAIN candidates
  <2>1. \A s \in DOMAIN ss : s \in DOMAIN selections \/ s = n + 1
    BY <1>2
  <2> QED
    BY <1>1, <1>2, <2>1 DEF ChoicesHold
<1>5. \A a \in DOMAIN adoptions :
        /\ adoptions[a].candidate \in DOMAIN candidates
        /\ adoptions[a].selection \in 0..Len(ss)
  BY <1>1, <1>2 DEF ChoicesHold
<1>6. ChoicesHold(ss, adoptions, candidates)
  BY <1>1, <1>2, <1>4, <1>5 DEF ChoicesHold
<1>7. ReviewInv'
  BY <1>3, <1>6 DEF ReviewInv
<1>8. SettledIsNotSent /\ LastChoiceIsAdopted
  BY <1>1 DEF SettledIsNotSent, LastChoiceIsAdopted, ChoicesHold
<1> QED
  BY <1>7, <1>8

LEMMA ActiveSelectionIsLast ==
    ASSUME ReviewInv, ActiveSelection # 0
    PROVE  /\ ActiveSelection = Len(selections)
           /\ ActiveSelection \in DOMAIN selections
           /\ selections[ActiveSelection] \in Selection
           /\ selections[ActiveSelection].candidate \in DOMAIN candidates
           /\ ~selections[ActiveSelection].cleared
<1>1. /\ selections \in Seq(Selection)
      /\ ChoicesHold(selections, adoptions, candidates)
  BY RestOfReview
<1>2. /\ selections # <<>> /\ ~Last(selections).cleared
      /\ ActiveSelection = Len(selections)
  BY DEF ActiveSelection
<1>3. Len(selections) \in DOMAIN selections
      /\ Last(selections) = selections[Len(selections)]
  BY <1>1, <1>2 DEF Last
<1> QED
  BY <1>1, <1>2, <1>3 DEF ChoicesHold

LEMMA SelectionSteps ==
    ASSUME ReviewInv,
           ClearSelection \/ \E c \in DOMAIN candidates : SelectCandidate(c)
    PROVE  ReviewInv' /\ SettledIsNotSent /\ LastChoiceIsAdopted
<1>1. ASSUME NEW c \in DOMAIN candidates, SelectCandidate(c)
      PROVE  ReviewInv' /\ SettledIsNotSent /\ LastChoiceIsAdopted
  <2> DEFINE selection == [candidate |-> c, cleared |-> FALSE]
  <2>1. /\ selections' = Append(selections, selection)
        /\ UNCHANGED <<text, documents, overlays, remarks, requests, candidates,
                       adoptions>>
    BY <1>1 DEF SelectCandidate
  <2>2. c \in Nat
    BY RestOfReview
  <2>3. selection \in Selection /\ selection.candidate = c
    BY <2>2 DEF Selection
  <2> HIDE DEF selection
  <2> QED
    BY <2>1, <2>3, SelectionStep
<1>2. CASE ClearSelection
  <2> DEFINE chosen == selections[ActiveSelection]
             selection == [chosen EXCEPT !.cleared = TRUE]
  <2>1. /\ ActiveSelection # 0 /\ selections' = Append(selections, selection)
        /\ UNCHANGED <<text, documents, overlays, remarks, requests, candidates,
                       adoptions>>
    BY <1>2 DEF ClearSelection
  <2>2. chosen \in Selection /\ chosen.candidate \in DOMAIN candidates
    BY <2>1, ActiveSelectionIsLast
  <2> HIDE DEF chosen
  <2>3. selection \in Selection /\ selection.candidate = chosen.candidate
    BY <2>2 DEF Selection
  <2> HIDE DEF selection
  <2> QED
    BY <2>1, <2>2, <2>3, SelectionStep
<1> QED
  BY <1>1, <1>2

\* A receipt of an adoption is added: of what is named, of the only candidate,
\* or of the selection that is the last word.
LEMMA AdoptionStep ==
    ASSUME ReviewInv, NEW c \in DOMAIN candidates, NEW s \in 0..Len(selections),
           s # 0 => /\ s = Len(selections) /\ ~selections[s].cleared
                    /\ selections[s].candidate = c,
           AddAdoption(c, s)
    PROVE  ReviewInv' /\ SettledIsNotSent /\ LastChoiceIsAdopted
<1> DEFINE n == Len(adoptions)
           adoption == [candidate |-> c, selection |-> s,
                        choices |-> Len(candidates)]
           as == Append(adoptions, adoption)
<1>1. /\ adoptions' = as
      /\ UNCHANGED <<text, documents, overlays, remarks, requests, candidates,
                     selections>>
  BY DEF AddAdoption
<1>2. /\ adoptions \in Seq(Adoption) /\ requests \in Seq(RewriteRequest)
      /\ ChoicesHold(selections, adoptions, candidates)
      /\ Len(selections) \in Nat /\ Len(candidates) \in Nat /\ c \in Nat
  <2>1. /\ adoptions \in Seq(Adoption) /\ requests \in Seq(RewriteRequest)
        /\ ChoicesHold(selections, adoptions, candidates)
        /\ Len(selections) \in Nat /\ Len(candidates) \in Nat
        /\ DOMAIN candidates = 1..Len(candidates)
    BY RestOfReview
  <2>2. c \in Nat
    BY <2>1
  <2> QED
    BY <2>1, <2>2
<1>3. /\ adoption \in Adoption /\ adoption.candidate = c
      /\ adoption.selection = s
  BY <1>2 DEF Adoption
<1> HIDE DEF adoption
<1>4. /\ as \in Seq(Adoption) /\ DOMAIN as = 1..(n + 1) /\ n \in Nat
      /\ DOMAIN adoptions = 1..n /\ Len(as) = n + 1 /\ as[n + 1] = adoption
      /\ \A a \in DOMAIN adoptions : as[a] = adoptions[a]
  BY <1>2, <1>3, AppendIsLast
<1> HIDE DEF as
<1>5. \A a \in DOMAIN as : a \in DOMAIN adoptions \/ a = n + 1
  BY <1>4
<1>6. ChoicesHold(selections, as, candidates)
  BY <1>2, <1>3, <1>4, <1>5 DEF ChoicesHold
<1>7. ReviewInv'
  BY <1>1, <1>6 DEF ReviewInv
<1>8. SettledIsNotSent
  BY <1>1, <1>2 DEF SettledIsNotSent
<1>9. Last(adoptions') = adoption
  BY <1>1, <1>4 DEF Last
<1>10. LastChoiceIsAdopted
  BY <1>3, <1>9 DEF LastChoiceIsAdopted
<1> QED
  BY <1>7, <1>8, <1>10

LEMMA AdoptionSteps ==
    ASSUME ReviewInv,
           \/ \E c \in DOMAIN candidates : AdoptNamed(c)
           \/ AdoptOnly
           \/ AdoptSelected
    PROVE  ReviewInv' /\ SettledIsNotSent /\ LastChoiceIsAdopted
<1>1. /\ Len(selections) \in Nat /\ 0 \in 0..Len(selections)
      /\ Len(candidates) \in Nat /\ DOMAIN candidates = 1..Len(candidates)
  BY RestOfReview
<1>2. ASSUME NEW c \in DOMAIN candidates, AdoptNamed(c)
      PROVE  ReviewInv' /\ SettledIsNotSent /\ LastChoiceIsAdopted
  BY <1>1, <1>2, AdoptionStep DEF AdoptNamed
<1>3. CASE AdoptOnly
  <2>1. 1 \in DOMAIN candidates /\ AddAdoption(1, 0)
    BY <1>1, <1>3 DEF AdoptOnly
  <2> QED
    BY <1>1, <2>1, AdoptionStep
<1>4. CASE AdoptSelected
  <2> DEFINE s == ActiveSelection
             c == selections[s].candidate
  <2>1. s # 0 /\ AddAdoption(c, s)
    BY <1>4 DEF AdoptSelected
  <2>2. s = Len(selections) /\ c \in DOMAIN candidates /\ ~selections[s].cleared
    BY <2>1, ActiveSelectionIsLast
  <2>3. s \in 0..Len(selections)
    BY <1>1, <2>2
  <2> HIDE DEF s
  <2> QED
    BY <2>1, <2>2, <2>3, AdoptionStep
<1> QED
  BY <1>2, <1>3, <1>4

LEMMA ReviewStep ==
    ASSUME ReviewInv, ReviewNext
    PROVE  ReviewInv' /\ SettledIsNotSent /\ LastChoiceIsAdopted
<1>1. requests' = requests /\ adoptions' = adoptions =>
        SettledIsNotSent /\ LastChoiceIsAdopted
  BY RestOfReview DEF SettledIsNotSent, LastChoiceIsAdopted
<1>2. ASSUME NEW t \in Texts, EditDraft(t)
      PROVE  ReviewInv' /\ SettledIsNotSent /\ LastChoiceIsAdopted
  BY <1>1, <1>2 DEF EditDraft, ReviewInv
<1>3. ASSUME NEW kind \in {"comment", "change"}, NEW block \in AllBlocks,
             AddRemark(kind, block)
      PROVE  ReviewInv' /\ SettledIsNotSent /\ LastChoiceIsAdopted
  <2>1. ReviewInv'
    BY <1>3, AddRemarkStep
  <2>2. requests' = requests /\ adoptions' = adoptions
    BY <1>3 DEF AddRemark
  <2> QED
    BY <1>1, <2>1, <2>2
<1>4. ASSUME NEW r \in DOMAIN remarks, NEW status \in {"resolved", "deleted"},
             SettleComment(r, status)
      PROVE  ReviewInv' /\ SettledIsNotSent /\ LastChoiceIsAdopted
  <2>1. ReviewInv'
    BY <1>4, SettleStep
  <2>2. requests' = requests /\ adoptions' = adoptions
    BY <1>4 DEF SettleComment
  <2> QED
    BY <1>1, <2>1, <2>2
<1> QED
  BY <1>2, <1>3, <1>4, RequestSteps, CandidateSteps, SelectionSteps,
     AdoptionSteps DEF ReviewNext

LEMMA ReviewInvInit == ReviewInit => ReviewInv
<1> SUFFICES ASSUME ReviewInit PROVE ReviewInv
  OBVIOUS
<1>1. /\ text \in Texts /\ documents = <<>> /\ overlays = <<>>
      /\ remarks = <<>> /\ requests = <<>> /\ candidates = <<>>
      /\ selections = <<>> /\ adoptions = <<>>
  BY DEF ReviewInit
<1>2. AnchorsHold(documents, overlays, remarks)
  BY <1>1 DEF AnchorsHold
<1>3. RequestsHold(requests, remarks) /\ CandidatesHold(candidates, requests)
      /\ ChoicesHold(selections, adoptions, candidates)
  BY <1>1 DEF RequestsHold, CandidatesHold, ChoicesHold
<1> QED
  BY <1>1, <1>2, <1>3, ReviewBounds DEF ReviewInv

LEMMA ReviewInvStep == ReviewInv /\ [ReviewNext]_reviewVars => ReviewInv'
<1>1. ReviewInv /\ UNCHANGED reviewVars => ReviewInv'
  BY DEF reviewVars, ReviewInv
<1> QED
  BY <1>1, ReviewStep

\* The variables of the review keep their types.
THEOREM ReviewTypesHold == ReviewSpec => []ReviewTypeOK
<1>1. ReviewInv => ReviewTypeOK
  <2> SUFFICES ASSUME ReviewInv PROVE ReviewTypeOK
    OBVIOUS
  <2>1. AnchorsHold(documents, overlays, remarks)
        /\ CandidatesHold(candidates, requests)
        /\ ChoicesHold(selections, adoptions, candidates)
    BY DEF ReviewInv
  <2>2. documents \in Seq(Texts) /\ IsInjective(documents)
        /\ Len(overlays) = Len(documents)
    BY <2>1 DEF AnchorsHold, IsInjective
  <2>3. \A i \in DOMAIN overlays :
          overlays[i] \in [draft : Texts, refs : SUBSET RemarkIds]
    <3>1. overlays \in Seq(Overlay)
      BY <2>1 DEF AnchorsHold
    <3>2. \A i \in DOMAIN overlays : overlays[i] \in Overlay
      BY <3>1
    <3> QED
      BY <3>2 DEF Overlay
  <2>4. \A i \in DOMAIN remarks : remarks[i].overlay \in DOMAIN overlays
    BY <2>1 DEF AnchorsHold
  <2>5. \A i \in DOMAIN candidates :
          /\ candidates[i].request \in DOMAIN requests
          /\ candidates[i].text \in Seq(AllBlocks \cup {Rewritten})
    <3>1. \A i \in DOMAIN candidates : candidates[i] \in Candidate
      BY RestOfReview
    <3>2. \A i \in DOMAIN candidates : candidates[i].text \in CandidateTexts
      BY <3>1 DEF Candidate
    <3> QED
      BY <2>1, <3>2 DEF CandidatesHold, CandidateTexts
  <2>6. \A i \in DOMAIN selections :
          selections[i] \in [candidate : DOMAIN candidates, cleared : BOOLEAN]
    <3>1. \A i \in DOMAIN selections : selections[i] \in Selection
      BY RestOfReview
    <3>2. \A i \in DOMAIN selections :
            selections[i].candidate \in DOMAIN candidates
      BY <2>1 DEF ChoicesHold
    <3> QED
      BY <3>1, <3>2 DEF Selection
  <2>7. \A i \in DOMAIN adoptions :
          /\ adoptions[i].candidate \in DOMAIN candidates
          /\ adoptions[i].selection \in 0..Len(selections)
    BY <2>1 DEF ChoicesHold
  <2>8. text \in Texts /\ remarks \in Seq(Remark)
        /\ requests \in Seq(RewriteRequest)
    BY RestOfReview DEF ReviewInv
  <2> QED
    BY <2>2, <2>3, <2>4, <2>5, <2>6, <2>7, <2>8 DEF ReviewTypeOK
<1> QED
  BY <1>1, ReviewInvInit, ReviewInvStep, PTL DEF ReviewSpec

LEMMA PatchesAreInTarget ==
    ASSUME ReviewInv
    PROVE  PatchesStayInTarget
<1> SUFFICES ASSUME NEW c \in DOMAIN candidates,
                    requests[candidates[c].request].scope = "paragraph"
             PROVE  LET q == requests[candidates[c].request]
                        whole == BlocksOf[q.draft]
                    IN  /\ Len(candidates[c].text) = Len(whole)
                        /\ \A i \in DOMAIN whole :
                             candidates[c].text[i] =
                               IF whole[i] \in q.targets THEN Rewritten
                               ELSE whole[i]
                        /\ \A r \in q.remarks : remarks[r].block \in q.targets
  BY DEF PatchesStayInTarget
<1> DEFINE k == candidates[c].request
           q == requests[k]
<1>1. k \in DOMAIN requests /\ candidates[c].text = Composed(q.draft, q.targets)
  BY RestOfReview DEF CandidatesHold
<1>2. q \in RewriteRequest
  BY <1>1, RestOfReview
<1>3. q.draft \in Texts
  BY <1>2 DEF RewriteRequest
<1>4. \A r \in q.remarks : remarks[r].block \in q.targets
  BY <1>1 DEF ReviewInv, RequestsHold
<1> HIDE DEF q
<1> QED
  BY <1>1, <1>3, <1>4, ComposedIsText DEF q

\* A rewrite request carries what is about the draft it is built from and was
\* not settled before, the patch that answers it stays within its target, and of
\* several choices the last one is adopted (find_overlay_for_draft_ref,
\* find_draft_document_by_ref, create_paragraph_rewrite_candidate,
\* adopt_for_continue).
THEOREM ReviewIsAlwaysFaithful == ReviewSpec => ReviewIsFaithful
<1>1. ReviewInv => RequestsKeepAnchors /\ PatchesStayInTarget
  BY PatchesAreInTarget DEF ReviewInv, RequestsHold, RequestsKeepAnchors
<1>2. ReviewInv /\ [ReviewNext]_reviewVars
        => [SettledIsNotSent /\ LastChoiceIsAdopted]_reviewVars
  BY ReviewStep
<1>3. ReviewSpec =>
        /\ [](RequestsKeepAnchors /\ PatchesStayInTarget)
        /\ [][SettledIsNotSent /\ LastChoiceIsAdopted]_reviewVars
  BY <1>1, <1>2, ReviewInvInit, ReviewInvStep, PTL DEF ReviewSpec
<1> QED
  BY <1>3 DEF ReviewIsFaithful

-----------------------------------------------------------------------------
(* What the story remembers.                                               *)

ChunkRecord == [chunks : {"tagged", "bare", "none"}, tags : Tags]

\* An asset has the chunks it was indexed with, or none.
IndexAgrees(es, ix) ==
    \A a \in DOMAIN es : ix[a] \in {NoChunks, Chunks(es[a])}

\* A version is there for its layer; the active ones have chunks if they could
\* be indexed, the ones that were replaced have none.
SourcesHold(es, ix) ==
    \A a \in DOMAIN es :
      es[a].kind = "source" =>
        /\ es[a].tags.state \in {"active", "superseded"}
        /\ es[a].tags.state = "active" => (ix[a] # NoChunks <=> es[a].indexed)
        /\ es[a].tags.state = "superseded" => ix[a] = NoChunks

\* The versions with chunks, and those that had none and were replaced.
Held(es, ix) == {a \in DOMAIN es : es[a].kind = "source" /\ ix[a] # NoChunks}
Passed(es) == {a \in DOMAIN es : /\ es[a].kind = "source" /\ ~es[a].indexed
                                 /\ es[a].tags.state = "superseded"}
AddsUp(es, ix) == Cardinality(Held(es, ix)) = 1 + Cardinality(Passed(es))

\* Assets and index are two records of the same.
Records(es, ix) ==
    /\ es \in Seq(Asset) /\ ix \in Seq(ChunkRecord) /\ Len(ix) = Len(es)
    /\ Len(es) <= MaxAssets
    /\ \A a \in DOMAIN es : es[a].version <= Len(es)
    /\ IndexAgrees(es, ix) /\ SourcesHold(es, ix) /\ AddsUp(es, ix)

TreeHolds ==
    /\ made \subseteq Branches /\ Trunk \in made
    /\ parent \in [Branches -> made \cup {Nobody}]
    /\ forkedFrom \in [Branches -> 0..Len(turnBranch)]
    /\ \A b \in Branches \ made : forkedFrom[b] = 0
    /\ turnBranch \in Seq(made) /\ Len(turnBranch) <= MaxTurns
    /\ hidden \subseteq DOMAIN turnBranch

MemoryInv ==
    /\ TreeHolds /\ closed \in BOOLEAN
    /\ Records(assets, index)

-----------------------------------------------------------------------------
(* What is found.                                                          *)

LEMMA AssetFields ==
    ASSUME NEW x \in Asset
    PROVE  /\ x.kind \in {"source", "scene"} /\ x.version \in 1..MaxAssets
           /\ x.tags \in Tags /\ x.materialized \in BOOLEAN
           /\ x.indexed \in BOOLEAN /\ x.key \in Branches \cup {Nobody}
BY DEF Asset

LEMMA ChunksAre ==
    ASSUME NEW x \in Asset
    PROVE  /\ Chunks(x) \in ChunkRecord /\ Chunks(x) # NoChunks
           /\ x.materialized => Chunks(x).tags = x.tags /\ Chunks(x) # Bare
           /\ ~x.materialized => Chunks(x) = Bare
           /\ NoChunks \in ChunkRecord /\ NoChunks # Bare
<1>1. Untagged \in Tags
  BY MemoryBounds DEF Untagged, Tags, NoTurn
<1>2. x.tags \in Tags /\ x.materialized \in BOOLEAN
  BY AssetFields
<1>3. /\ \A g : Tagged(g).chunks = "tagged" /\ Tagged(g).tags = g
      /\ Bare.chunks = "bare" /\ NoChunks.chunks = "none"
  BY DEF Tagged, Bare, NoChunks
<1>4. /\ \A g \in Tags : Tagged(g) \in ChunkRecord
      /\ Bare \in ChunkRecord /\ NoChunks \in ChunkRecord
  BY <1>1 DEF Tagged, Bare, NoChunks, ChunkRecord
<1>5. /\ \A g : Tagged(g) # NoChunks /\ Tagged(g) # Bare
      /\ Bare # NoChunks
  BY <1>3
<1> QED
  BY <1>2, <1>3, <1>4, <1>5 DEF Chunks

\* What is out of date is found nowhere.
LEMMA OutdatedIsHidden ==
    ASSUME MemoryInv
    PROVE  OutdatedIsNotFound
<1> SUFFICES ASSUME NEW a \in DOMAIN assets, NEW t \in DOMAIN turnBranch,
                    assets[a].tags.state # "active", index[a] # NoChunks
             PROVE  HitTags(a).state # "active"
  BY DEF OutdatedIsNotFound, Found, Visible
<1>1. assets[a] \in Asset /\ index[a] \in {NoChunks, Chunks(assets[a])}
  BY DEF MemoryInv, Records, IndexAgrees
<1>2. index[a] = Chunks(assets[a])
  BY <1>1
<1> QED
  BY <1>1, <1>2, ChunksAre DEF HitTags

LEMMA CountIsCount ==
    ASSUME MemoryInv
    PROVE  VersionsAddUp
<1>1. /\ {a \in Versions : index[a] # NoChunks} = Held(assets, index)
      /\ {a \in Versions : /\ ~assets[a].indexed
                           /\ assets[a].tags.state = "superseded"}
           = Passed(assets)
  BY DEF Versions, Held, Passed
<1> QED
  BY <1>1 DEF MemoryInv, Records, AddsUp, VersionsAddUp

LEMMA ChosenAlike ==
    ASSUME NEW S, NEW T, NEW f, NEW g, NEW o, S = T, f = g
    PROVE  (CHOOSE c \in S : f[c] = o) = (CHOOSE c \in T : g[c] = o)
OBVIOUS

\* Where the tree is as it was, and no more is hidden, turns see what they saw.
LEMMA SeenStays ==
    ASSUME UNCHANGED <<parent, forkedFrom>>,
           \A t \in DOMAIN turnBranch : turnBranch'[t] = turnBranch[t]
    PROVE  \A t \in DOMAIN turnBranch : \A g :
             /\ hidden \subseteq hidden' => (Visible(g, t)' => Visible(g, t))
             /\ hidden' = hidden => Visible(g, t)' = Visible(g, t)
<1>1. Lineage' = Lineage
  BY DEF Lineage
<1>2. \A t \in DOMAIN turnBranch : \A o : Cutoff(t, o)' = Cutoff(t, o)
  <2> SUFFICES ASSUME NEW t \in DOMAIN turnBranch, NEW o
               PROVE  Cutoff(t, o)' = Cutoff(t, o)
    OBVIOUS
  <2>1. /\ turnBranch'[t] = turnBranch[t]
        /\ Lineage'[turnBranch'[t]] = Lineage[turnBranch[t]]
    BY <1>1
  <2>2. (CHOOSE c \in Lineage'[turnBranch'[t]] : parent'[c] = o)
          = (CHOOSE c \in Lineage[turnBranch[t]] : parent[c] = o)
    BY <2>1, ChosenAlike
  <2> QED
    BY <2>1, <2>2 DEF Cutoff
<1> QED
  BY <1>1, <1>2 DEF Visible

-----------------------------------------------------------------------------
(* Assets that are added, replaced and superseded.                         *)

\* A scene is none of the versions that are counted.
SourcesStay(es, ix, bs, jx) ==
    \A a \in DOMAIN es : es[a].kind = "source" =>
      a \in DOMAIN bs /\ bs[a] = es[a] /\ jx[a] = ix[a]

LEMMA SceneIsNotCounted ==
    ASSUME NEW es, NEW ix, NEW bs, NEW jx,
           SourcesStay(es, ix, bs, jx), SourcesStay(bs, jx, es, ix)
    PROVE  Held(bs, jx) = Held(es, ix) /\ Passed(bs) = Passed(es)
<1>1. \A a : a \in Held(bs, jx) <=> a \in Held(es, ix)
  BY DEF Held, SourcesStay
<1>2. \A a : a \in Passed(bs) <=> a \in Passed(es)
  BY DEF Passed, SourcesStay
<1> QED
  BY <1>1, <1>2

LEMMA SceneIsAdded ==
    ASSUME NEW es, NEW ix, Records(es, ix), Len(es) < MaxAssets,
           NEW x \in Asset, x.kind = "scene", x.version = 1,
           NEW c, c \in {NoChunks, Chunks(x)},
           NEW bs, bs = Append(es, x), NEW jx, jx = Append(ix, c)
    PROVE  Records(bs, jx)
<1>1. /\ es \in Seq(Asset) /\ ix \in Seq(ChunkRecord) /\ Len(ix) = Len(es)
      /\ c \in ChunkRecord
  BY ChunksAre DEF Records
<1>2. /\ DOMAIN bs = 1..(Len(es) + 1) /\ DOMAIN es = 1..Len(es)
      /\ Len(es) \in Nat /\ bs[Len(es) + 1] = x /\ Len(bs) = Len(es) + 1
      /\ \A u \in DOMAIN es : bs[u] = es[u]
  BY <1>1, AppendIsLast
<1>3. /\ DOMAIN jx = 1..(Len(es) + 1) /\ DOMAIN ix = DOMAIN es
      /\ jx[Len(es) + 1] = c /\ Len(jx) = Len(bs)
      /\ \A u \in DOMAIN es : jx[u] = ix[u]
  <2>1. /\ DOMAIN jx = 1..(Len(ix) + 1) /\ DOMAIN ix = 1..Len(ix)
        /\ jx[Len(ix) + 1] = c /\ Len(jx) = Len(ix) + 1
        /\ \A u \in DOMAIN ix : jx[u] = ix[u]
    BY <1>1, AppendIsLast
  <2> QED
    BY <1>1, <1>2, <2>1
<1>4. /\ bs \in Seq(Asset) /\ jx \in Seq(ChunkRecord) /\ Len(bs) <= MaxAssets
  BY <1>1, MemoryBounds
<1>5. \A u \in DOMAIN bs : u \in DOMAIN es \/ u = Len(es) + 1
  BY <1>2
<1>6. \A u \in DOMAIN bs : bs[u].version <= Len(bs)
  <2>1. \A u \in DOMAIN es : es[u].version <= Len(es)
                            /\ es[u].version \in Nat
    BY <1>1, AssetFields DEF Records
  <2> QED
    BY <1>2, <1>5, <2>1
<1>7. IndexAgrees(bs, jx) /\ SourcesHold(bs, jx)
  BY <1>2, <1>3, <1>5 DEF Records, IndexAgrees, SourcesHold
<1>8. Held(bs, jx) = Held(es, ix) /\ Passed(bs) = Passed(es)
  <2>1. DOMAIN es \subseteq DOMAIN bs
    BY <1>2
  <2>2. SourcesStay(es, ix, bs, jx)
    BY <1>2, <1>3, <2>1 DEF SourcesStay
  <2>3. SourcesStay(bs, jx, es, ix)
    BY <1>2, <1>3, <1>5 DEF SourcesStay
  <2> QED
    BY <2>2, <2>3, SceneIsNotCounted
<1> QED
  BY <1>3, <1>4, <1>6, <1>7, <1>8 DEF Records, AddsUp

Rewrites(es, ix, a, x, bs, jx) ==
    bs = [es EXCEPT ![a] = x] /\ jx = [ix EXCEPT ![a] = Chunks(x)]

LEMMA SceneIsReplaced ==
    ASSUME NEW es, NEW ix, Records(es, ix), NEW a \in DOMAIN es,
           es[a].kind = "scene",
           NEW x \in Asset, x.kind = "scene", x.version <= Len(es),
           NEW bs, NEW jx, Rewrites(es, ix, a, x, bs, jx)
    PROVE  /\ Records(bs, jx) /\ DOMAIN bs = DOMAIN es
           /\ bs[a] = x /\ jx[a] = Chunks(x)
           /\ \A u \in DOMAIN es : u # a => bs[u] = es[u] /\ jx[u] = ix[u]
<1>1. /\ es \in Seq(Asset) /\ ix \in Seq(ChunkRecord) /\ Len(ix) = Len(es)
      /\ Chunks(x) \in ChunkRecord /\ DOMAIN ix = DOMAIN es
  BY ChunksAre DEF Records
<1>2. /\ bs \in Seq(Asset) /\ Len(bs) = Len(es) /\ DOMAIN bs = DOMAIN es
      /\ bs[a] = x /\ \A u \in DOMAIN es : u # a => bs[u] = es[u]
  BY <1>1, ReplacedInSeq DEF Rewrites
<1>3. /\ jx \in Seq(ChunkRecord) /\ Len(jx) = Len(ix)
      /\ jx[a] = Chunks(x) /\ \A u \in DOMAIN es : u # a => jx[u] = ix[u]
  BY <1>1, ReplacedInSeq DEF Rewrites
<1>6. \A u \in DOMAIN bs : bs[u].version <= Len(bs)
  BY <1>2 DEF Records
<1>7. IndexAgrees(bs, jx) /\ SourcesHold(bs, jx)
  BY <1>2, <1>3 DEF Records, IndexAgrees, SourcesHold
<1>8. Held(bs, jx) = Held(es, ix) /\ Passed(bs) = Passed(es)
  <2>2. SourcesStay(es, ix, bs, jx)
    BY <1>2, <1>3 DEF SourcesStay
  <2>3. SourcesStay(bs, jx, es, ix)
    BY <1>2, <1>3 DEF SourcesStay
  <2> QED
    BY <2>2, <2>3, SceneIsNotCounted
<1> QED
  BY <1>1, <1>2, <1>3, <1>6, <1>7, <1>8 DEF Records, AddsUp

\* A version that was not indexed is added, and nothing else.
LEMMA UnindexedIsAdded ==
    ASSUME NEW es, NEW ix, Records(es, ix), Len(es) < MaxAssets,
           NEW x \in Asset, x.kind = "source", ~x.indexed,
           x.tags.state = "active", x.version <= Len(es) + 1,
           NEW bs, bs = Append(es, x), NEW jx, jx = Append(ix, NoChunks)
    PROVE  Records(bs, jx)
<1>1. /\ es \in Seq(Asset) /\ ix \in Seq(ChunkRecord) /\ Len(ix) = Len(es)
      /\ NoChunks \in ChunkRecord
  BY ChunksAre DEF Records
<1>2. /\ DOMAIN bs = 1..(Len(es) + 1) /\ DOMAIN es = 1..Len(es)
      /\ Len(es) \in Nat /\ bs[Len(es) + 1] = x /\ Len(bs) = Len(es) + 1
      /\ \A u \in DOMAIN es : bs[u] = es[u]
  BY <1>1, AppendIsLast
<1>3. /\ DOMAIN jx = 1..(Len(es) + 1) /\ DOMAIN ix = DOMAIN es
      /\ jx[Len(es) + 1] = NoChunks /\ Len(jx) = Len(bs)
      /\ \A u \in DOMAIN es : jx[u] = ix[u]
  <2>1. /\ DOMAIN jx = 1..(Len(ix) + 1) /\ DOMAIN ix = 1..Len(ix)
        /\ jx[Len(ix) + 1] = NoChunks /\ Len(jx) = Len(ix) + 1
        /\ \A u \in DOMAIN ix : jx[u] = ix[u]
    BY <1>1, AppendIsLast
  <2> QED
    BY <1>1, <1>2, <2>1
<1>4. /\ bs \in Seq(Asset) /\ jx \in Seq(ChunkRecord) /\ Len(bs) <= MaxAssets
  BY <1>1, MemoryBounds
<1>5. \A u \in DOMAIN bs : u \in DOMAIN es \/ u = Len(es) + 1
  BY <1>2
<1>6. \A u \in DOMAIN bs : bs[u].version <= Len(bs)
  <2>1. \A u \in DOMAIN es : es[u].version <= Len(es)
                            /\ es[u].version \in Nat
    BY <1>1, AssetFields DEF Records
  <2> QED
    BY <1>2, <1>5, <2>1
<1>7. IndexAgrees(bs, jx)
  BY <1>2, <1>3, <1>5 DEF Records, IndexAgrees
<1>8. SourcesHold(bs, jx)
  BY <1>2, <1>3, <1>5 DEF Records, SourcesHold
<1>9. Held(bs, jx) = Held(es, ix) /\ Passed(bs) = Passed(es)
  <2>1. DOMAIN es \subseteq DOMAIN bs /\ Len(es) + 1 \notin DOMAIN es
    BY <1>2
  <2>2. \A u : u \in Held(bs, jx) <=> u \in Held(es, ix)
    BY <1>2, <1>3, <1>5, <2>1 DEF Held
  <2>3. \A u : u \in Passed(bs) <=> u \in Passed(es)
    BY <1>2, <1>3, <1>5, <2>1 DEF Passed
  <2> QED
    BY <2>2, <2>3
<1> QED
  BY <1>3, <1>4, <1>6, <1>7, <1>8, <1>9 DEF Records, AddsUp

\* A version that is indexed takes the place of the one it replaces.
LEMMA CountAfter ==
    ASSUME NEW D, NEW a, NEW n, IsFiniteSet(D), n \notin D, n # a
    PROVE  /\ a \in D => Cardinality((D \ {a}) \cup {n}) = Cardinality(D)
           /\ Cardinality(D \cup {n}) = Cardinality(D) + 1
           /\ Cardinality(D) \in Nat
<1>1. Cardinality(D) \in Nat
  BY FS_CardinalityType
<1>2. ASSUME a \in D
      PROVE  Cardinality((D \ {a}) \cup {n}) = Cardinality(D)
  <2>1. IsFiniteSet(D \ {a}) /\ Cardinality(D \ {a}) = Cardinality(D) - 1
    BY <1>2, FS_RemoveElement
  <2>2. Cardinality((D \ {a}) \cup {n}) = Cardinality(D \ {a}) + 1
    BY <2>1, FS_AddElement
  <2> QED
    BY <1>1, <2>1, <2>2
<1>3. Cardinality(D \cup {n}) = Cardinality(D) + 1
  BY FS_AddElement
<1> QED
  BY <1>1, <1>2, <1>3

LEMMA RestatedAsset ==
    ASSUME NEW x \in Asset, NEW s \in {"active", "superseded", "invalidated"},
           NEW y, y = [x EXCEPT !.tags.state = s]
    PROVE  /\ y \in Asset /\ y.tags.state = s /\ y.kind = x.kind
           /\ y.version = x.version /\ y.indexed = x.indexed
           /\ y.materialized = x.materialized
BY DEF Asset, Tags

IsNextVersion(x, y) ==
    /\ x.kind = "source" /\ x.indexed /\ x.tags.state = "active"
    /\ x.version = y.version + 1

Replaces(es, ix, a, x, bs, jx) ==
    /\ bs = Append(Supersede(a, es), x)
    /\ jx = [Append(Withdraw(a, ix), NoChunks)
               EXCEPT ![Len(es) + 1] = Chunks(x)]

LEMMA IndexedIsAdded ==
    ASSUME NEW es, NEW ix, Records(es, ix), Len(es) < MaxAssets,
           NEW a \in DOMAIN es, es[a].kind = "source",
           es[a].tags.state = "active",
           NEW x \in Asset, IsNextVersion(x, es[a]),
           NEW bs, NEW jx, Replaces(es, ix, a, x, bs, jx)
    PROVE  /\ Records(bs, jx) /\ DOMAIN bs = 1..(Len(es) + 1)
           /\ bs[Len(es) + 1] = x /\ Len(bs) = Len(es) + 1
<1>1. /\ es \in Seq(Asset) /\ ix \in Seq(ChunkRecord) /\ Len(ix) = Len(es)
      /\ NoChunks \in ChunkRecord /\ Chunks(x) \in ChunkRecord
      /\ Chunks(x) # NoChunks /\ DOMAIN ix = DOMAIN es
      /\ DOMAIN es = 1..Len(es) /\ Len(es) \in Nat
  BY ChunksAre DEF Records
<1>x. /\ x.kind = "source" /\ x.indexed /\ x.tags.state = "active"
      /\ x.version = es[a].version + 1
  BY DEF IsNextVersion
<1>y. PICK y : y = [es[a] EXCEPT !.tags.state = "superseded"]
  OBVIOUS
<1>c. PICK cs : cs = Supersede(a, es)
  OBVIOUS
<1>k. PICK kx : kx = Withdraw(a, ix)
  OBVIOUS
<1>n. PICK n : n = Len(es) + 1
  OBVIOUS
<1>2. es[a] \in Asset
  BY <1>1
<1>3. /\ y \in Asset /\ y.tags.state = "superseded" /\ y.kind = "source"
      /\ y.version = es[a].version /\ y.indexed = es[a].indexed
  BY <1>2, <1>y, RestatedAsset
<1>4. cs = [es EXCEPT ![a] = y]
  BY <1>y, <1>c DEF Supersede
<1>5. /\ cs \in Seq(Asset) /\ Len(cs) = Len(es) /\ DOMAIN cs = DOMAIN es
      /\ cs[a] = y /\ \A u \in DOMAIN es : u # a => cs[u] = es[u]
  BY <1>1, <1>3, <1>4, ReplacedInSeq
<1>6. kx = [ix EXCEPT ![a] = NoChunks]
  BY <1>k DEF Withdraw
<1>7. /\ kx \in Seq(ChunkRecord) /\ Len(kx) = Len(es)
      /\ kx[a] = NoChunks /\ \A u \in DOMAIN es : u # a => kx[u] = ix[u]
  BY <1>1, <1>6, ReplacedInSeq
<1>8. /\ bs \in Seq(Asset) /\ Len(bs) = n /\ DOMAIN bs = 1..n /\ bs[n] = x
      /\ \A u \in DOMAIN es : bs[u] = cs[u]
  <2>1. bs = Append(cs, x)
    BY <1>c DEF Replaces
  <2>2. bs \in Seq(Asset)
    BY <1>5, <2>1
  <2>3. /\ DOMAIN bs = 1..(Len(cs) + 1) /\ bs[Len(cs) + 1] = x
        /\ Len(bs) = Len(cs) + 1 /\ \A u \in DOMAIN cs : bs[u] = cs[u]
    BY <1>5, <2>1, AppendIsLast
  <2> QED
    BY <1>5, <1>n, <2>2, <2>3
<1>9. /\ jx \in Seq(ChunkRecord) /\ Len(jx) = n /\ jx[n] = Chunks(x)
      /\ \A u \in DOMAIN es : jx[u] = kx[u]
  <2>0. PICK lx : lx = Append(kx, NoChunks)
    OBVIOUS
  <2>1. jx = [lx EXCEPT ![n] = Chunks(x)]
    BY <1>k, <1>n, <2>0 DEF Replaces
  <2>a. /\ DOMAIN lx = 1..(Len(kx) + 1) /\ Len(lx) = Len(kx) + 1
        /\ \A u \in DOMAIN kx : lx[u] = kx[u]
    BY <1>1, <1>7, <2>0, AppendIsLast
  <2>b. lx \in Seq(ChunkRecord)
    BY <1>1, <1>7, <2>0
  <2>2. /\ Len(lx) = n /\ DOMAIN lx = 1..n
        /\ \A u \in DOMAIN es : lx[u] = kx[u]
    BY <1>1, <1>7, <1>n, <2>a
  <2>3. n \in DOMAIN lx /\ n \notin DOMAIN es /\ DOMAIN es \subseteq DOMAIN lx
    BY <1>1, <1>n, <2>2
  <2>4. /\ jx \in Seq(ChunkRecord) /\ Len(jx) = Len(lx) /\ jx[n] = Chunks(x)
        /\ \A u \in DOMAIN lx : u # n => jx[u] = lx[u]
    BY <1>1, <2>1, <2>b, <2>3, ReplacedInSeq
  <2> QED
    BY <2>2, <2>3, <2>4
<1>10. /\ \A u \in DOMAIN bs : u \in DOMAIN es \/ u = n
       /\ n \notin DOMAIN es /\ DOMAIN es \subseteq DOMAIN bs
  BY <1>1, <1>8, <1>n
<1>a. /\ bs[a] = y /\ jx[a] = NoChunks
      /\ \A u \in DOMAIN es : u # a => bs[u] = es[u] /\ jx[u] = ix[u]
  BY <1>5, <1>7, <1>8, <1>9
<1>11. \A u \in DOMAIN bs : bs[u].version <= Len(bs)
  <2>1. \A u \in DOMAIN es : es[u].version <= Len(es)
                            /\ es[u].version \in Nat
    BY <1>1, AssetFields DEF Records
  <2>2. \A u \in DOMAIN es : bs[u].version = es[u].version
    BY <1>3, <1>a
  <2>3. bs[n].version <= n
    <3>1. es[a].version <= Len(es) /\ es[a].version \in Nat
      BY <2>1
    <3>2. x.version <= n
      BY <1>1, <1>n, <1>x, <3>1
    <3> QED
      BY <1>8, <3>2
  <2>4. \A u \in DOMAIN es : bs[u].version <= n
    BY <1>1, <1>n, <2>1, <2>2
  <2> QED
    BY <1>8, <1>10, <2>3, <2>4
<1>12. IndexAgrees(bs, jx)
  <2>1. \A u \in DOMAIN es : jx[u] \in {NoChunks, Chunks(bs[u])}
    BY <1>a DEF Records, IndexAgrees
  <2>2. jx[n] = Chunks(bs[n])
    BY <1>8, <1>9
  <2> QED
    BY <1>10, <2>1, <2>2 DEF IndexAgrees
<1>13. SourcesHold(bs, jx)
  <2> SUFFICES ASSUME NEW u \in DOMAIN bs, bs[u].kind = "source"
               PROVE  /\ bs[u].tags.state \in {"active", "superseded"}
                      /\ bs[u].tags.state = "active"
                           => (jx[u] # NoChunks <=> bs[u].indexed)
                      /\ bs[u].tags.state = "superseded" => jx[u] = NoChunks
    BY DEF SourcesHold
  <2>1. CASE u = n
    BY <1>1, <1>8, <1>9, <1>x, <2>1
  <2>2. CASE u = a
    BY <1>3, <1>a, <2>2
  <2>3. CASE u \in DOMAIN es /\ u # a
    BY <1>a, <2>3 DEF Records, SourcesHold
  <2> QED
    BY <1>10, <2>1, <2>2, <2>3
<1>14. AddsUp(bs, jx)
  <2>d. PICK D : D = Held(es, ix)
    OBVIOUS
  <2>p. PICK P : P = Passed(es)
    OBVIOUS
  <2>1. IsFiniteSet(D) /\ IsFiniteSet(P) /\ D \subseteq DOMAIN es
        /\ P \subseteq DOMAIN es
    <3>1. IsFiniteSet(DOMAIN es)
      BY <1>1, FS_Interval
    <3> QED
      BY <2>d, <2>p, <3>1, FS_Subset DEF Held, Passed
  <2>2. n \notin D /\ n # a /\ a \notin P
    BY <1>10, <2>p, <2>1 DEF Passed
  <2>3. \A u : u \in Held(bs, jx) <=> (u \in D /\ u # a) \/ u = n
    BY <1>1, <1>8, <1>9, <1>10, <1>a, <1>x, <2>d DEF Held
  <2>4. a \in D <=> es[a].indexed
    BY <2>d DEF Held, Records, SourcesHold
  <2>5. \A u : u \in Passed(bs) <=> u \in P \/ (u = a /\ ~es[a].indexed)
    BY <1>3, <1>8, <1>10, <1>a, <1>x, <2>p DEF Passed
  <2>6. \/ a \in D /\ Held(bs, jx) = (D \ {a}) \cup {n} /\ Passed(bs) = P
        \/ /\ a \notin D /\ Held(bs, jx) = D \cup {n}
           /\ Passed(bs) = P \cup {a}
    BY <2>3, <2>4, <2>5
  <2>7. Cardinality(D) = 1 + Cardinality(P)
    BY <2>d, <2>p DEF Records, AddsUp
  <2>a. /\ a \in D => Cardinality((D \ {a}) \cup {n}) = Cardinality(D)
        /\ Cardinality(D \cup {n}) = Cardinality(D) + 1
        /\ Cardinality(D) \in Nat
    BY <2>1, <2>2, CountAfter
  <2>b. /\ Cardinality(P \cup {a}) = Cardinality(P) + 1
        /\ Cardinality(P) \in Nat
    BY <2>1, <2>2, FS_AddElement, FS_CardinalityType
  <2>8. Cardinality(Held(bs, jx)) = 1 + Cardinality(Passed(bs))
    <3>1. CASE Held(bs, jx) = (D \ {a}) \cup {n} /\ Passed(bs) = P /\ a \in D
      BY <2>7, <2>a, <3>1
    <3>2. CASE Held(bs, jx) = D \cup {n} /\ Passed(bs) = P \cup {a}
      BY <2>7, <2>a, <2>b, <3>2
    <3> QED
      BY <2>6, <3>1, <3>2
  <2> QED
    BY <2>8 DEF AddsUp
<1>15. Len(bs) <= MaxAssets
  BY <1>1, <1>8, <1>n, MemoryBounds
<1> QED
  BY <1>n, <1>8, <1>9, <1>11, <1>12, <1>13, <1>14, <1>15 DEF Records

-----------------------------------------------------------------------------
(* The steps.                                                              *)

\* What a step has to keep, of the assets and of what is found.
MemoryKept ==
    /\ Records(assets, index)'
    /\ FailedVersionCostsNothing /\ FoundByIndexingOnly

TurnsKept == \A t \in DOMAIN turnBranch : turnBranch'[t] = turnBranch[t]

LEMMA FoundStays ==
    ASSUME UNCHANGED <<parent, forkedFrom>>, TurnsKept
    PROVE  /\ hidden \subseteq hidden' /\ UNCHANGED <<assets, index>> =>
                \A t \in DOMAIN turnBranch : \A a : Found(a, t)' => Found(a, t)
           /\ hidden' = hidden =>
                \A t \in DOMAIN turnBranch : \A a :
                  /\ index'[a] = index[a]
                  /\ index[a] # Bare \/ assets'[a].tags = assets[a].tags
                  => Found(a, t)' = Found(a, t)
<1>1. ASSUME hidden \subseteq hidden', UNCHANGED <<assets, index>>,
             NEW t \in DOMAIN turnBranch, NEW a
      PROVE  Found(a, t)' => Found(a, t)
  <2>1. HitTags(a)' = HitTags(a)
    BY <1>1 DEF HitTags
  <2>2. \A g : Visible(g, t)' => Visible(g, t)
    BY <1>1, SeenStays DEF TurnsKept
  <2> QED
    BY <1>1, <2>1, <2>2 DEF Found
<1>2. ASSUME hidden' = hidden, NEW t \in DOMAIN turnBranch, NEW a,
             index'[a] = index[a],
             index[a] # Bare \/ assets'[a].tags = assets[a].tags
      PROVE  Found(a, t)' = Found(a, t)
  <2>1. HitTags(a)' = HitTags(a)
    BY <1>2 DEF HitTags
  <2>2. \A g : Visible(g, t)' = Visible(g, t)
    BY <1>2, SeenStays DEF TurnsKept
  <2> QED
    BY <1>2, <2>1, <2>2 DEF Found
<1> QED
  BY <1>1, <1>2

\* No asset is touched: no turn finds more.
LEMMA NothingIndexed ==
    ASSUME MemoryInv, TurnsKept, UNCHANGED <<assets, index>>,
           \/ forkedFrom' # forkedFrom
           \/ UNCHANGED <<parent, forkedFrom>> /\ hidden \subseteq hidden'
    PROVE  MemoryKept
<1>1. Records(assets, index)'
  BY DEF MemoryInv
<1>2. CASE forkedFrom' # forkedFrom
  BY <1>1, <1>2 DEF MemoryKept, FailedVersionCostsNothing, FoundByIndexingOnly
<1>3. CASE UNCHANGED <<parent, forkedFrom>> /\ hidden \subseteq hidden'
  <2>1. FoundByIndexingOnly
    BY <1>3, FoundStays DEF FoundByIndexingOnly
  <2>2. CASE hidden' # hidden
    BY <1>1, <2>1, <2>2 DEF MemoryKept, FailedVersionCostsNothing
  <2>3. CASE hidden' = hidden
    <3>1. \A t \in DOMAIN turnBranch : \A a : Found(a, t)' = Found(a, t)
      BY <1>3, <2>3, FoundStays
    <3>2. Versions' = Versions
      BY DEF Versions
    <3>3. FailedVersionCostsNothing
      BY <3>1, <3>2 DEF FailedVersionCostsNothing
    <3> QED
      BY <1>1, <2>1, <3>3 DEF MemoryKept
  <2> QED
    BY <2>2, <2>3
<1> QED
  BY <1>2, <1>3

\* The versions and their chunks stay: what is found of the source stays.
LEMMA SourcesAreFound ==
    ASSUME TurnsKept, UNCHANGED <<parent, forkedFrom, hidden>>,
           \A a \in Versions : /\ a \in DOMAIN assets'
                               /\ assets'[a] = assets[a] /\ index'[a] = index[a]
    PROVE  FailedVersionCostsNothing
<1>1. ASSUME NEW t \in DOMAIN turnBranch, NEW a \in Versions, Found(a, t)
      PROVE  a \in Versions' /\ Found(a, t)'
  <2>1. a \in Versions'
    BY DEF Versions
  <2>2. Found(a, t)' = Found(a, t)
    BY FoundStays
  <2> QED
    BY <1>1, <2>1, <2>2
<1> QED
  BY <1>1 DEF FailedVersionCostsNothing

\* A scene's transcript is built anew, or marked.
LEMMA SceneIsRewritten ==
    ASSUME MemoryInv, TurnsKept, UNCHANGED <<parent, forkedFrom, hidden>>,
           NEW a \in DOMAIN assets, assets[a].kind = "scene",
           NEW x \in Asset, x.kind = "scene", x.version <= Len(assets),
           Rewrites(assets, index, a, x, assets', index'),
           x.materialized \/ assets[a].materialized
    PROVE  MemoryKept
<1>1. Records(assets, index)
  BY DEF MemoryInv
<1>2. /\ Records(assets', index') /\ DOMAIN assets' = DOMAIN assets
      /\ assets'[a] = x /\ index'[a] = Chunks(x)
      /\ \A u \in DOMAIN assets :
           u # a => assets'[u] = assets[u] /\ index'[u] = index[u]
  BY <1>1, SceneIsReplaced
<1>3. FailedVersionCostsNothing
  <2>1. \A u \in Versions : /\ u \in DOMAIN assets'
                            /\ assets'[u] = assets[u] /\ index'[u] = index[u]
    BY <1>2 DEF Versions
  <2> QED
    BY <2>1, SourcesAreFound
<1>4. FoundByIndexingOnly
  <2> SUFFICES ASSUME index' = index, NEW t \in DOMAIN turnBranch,
                      NEW u \in DOMAIN assets
               PROVE  Found(u, t)' => Found(u, t)
    BY DEF FoundByIndexingOnly
  <2>1. CASE u # a
    BY <1>2, <2>1, FoundStays
  <2>2. CASE u = a
    <3>1. assets[a] \in Asset /\ index[a] \in {NoChunks, Chunks(assets[a])}
      BY <1>1 DEF Records, IndexAgrees
    <3>2. index[a] = Chunks(x)
      BY <1>2
    <3>3. Chunks(x) # Bare
      BY <3>1, <3>2, ChunksAre
    <3> QED
      BY <1>2, <2>2, <3>2, <3>3, FoundStays
  <2> QED
    BY <2>1, <2>2
<1> QED
  BY <1>2, <1>3, <1>4 DEF MemoryKept

LEMMA SceneIsWritten ==
    ASSUME MemoryInv, TurnsKept, UNCHANGED <<parent, forkedFrom, hidden>>,
           Len(assets) < MaxAssets,
           NEW x \in Asset, x.kind = "scene", x.version = 1,
           assets' = Append(assets, x), index' = Append(index, Chunks(x))
    PROVE  MemoryKept
<1>1. Records(assets, index) /\ Len(index) = Len(assets)
      /\ assets \in Seq(Asset) /\ index \in Seq(ChunkRecord)
      /\ Chunks(x) \in ChunkRecord
  BY ChunksAre DEF MemoryInv, Records
<1>2. Records(assets', index')
  BY <1>1, SceneIsAdded
<1>3. FailedVersionCostsNothing
  <2>1. \A u \in Versions : /\ u \in DOMAIN assets'
                            /\ assets'[u] = assets[u] /\ index'[u] = index[u]
    BY <1>1 DEF Versions
  <2> QED
    BY <2>1, SourcesAreFound
<1>4. FoundByIndexingOnly
  <2>1. Len(index') = Len(index) + 1 /\ Len(index) \in Nat
    BY <1>1
  <2>2. index' # index
    BY <2>1
  <2> QED
    BY <2>2 DEF FoundByIndexingOnly
<1> QED
  BY <1>2, <1>3, <1>4 DEF MemoryKept

-----------------------------------------------------------------------------
(* The actions.                                                            *)

LEMMA MemoryTypes ==
    ASSUME MemoryInv
    PROVE  MemoryTypeOK
<1>1. index \in Seq(ChunkRecord)
  BY DEF MemoryInv, Records
<1>2. \A a \in DOMAIN index : index[a] \in ChunkRecord
  BY <1>1
<1> QED
  BY <1>2 DEF MemoryInv, TreeHolds, Records, MemoryTypeOK, ChunkRecord

\* A turn is added to the tree.
LEMMA TurnIsAdded ==
    ASSUME TreeHolds, NEW b \in made, Len(turnBranch) < MaxTurns,
           turnBranch' = Append(turnBranch, b),
           UNCHANGED <<made, parent, forkedFrom, hidden>>
    PROVE  TreeHolds' /\ TurnsKept
<1>1. /\ turnBranch \in Seq(made) /\ DOMAIN turnBranch = 1..Len(turnBranch)
      /\ Len(turnBranch) \in Nat
  BY DEF TreeHolds
<1>2. /\ turnBranch' \in Seq(made) /\ Len(turnBranch') = Len(turnBranch) + 1
      /\ DOMAIN turnBranch' = 1..(Len(turnBranch) + 1)
      /\ \A t \in DOMAIN turnBranch : turnBranch'[t] = turnBranch[t]
  BY <1>1
<1>3. DOMAIN turnBranch \subseteq DOMAIN turnBranch'
  BY <1>1, <1>2
<1>4. 0..Len(turnBranch) \subseteq 0..Len(turnBranch')
  BY <1>1, <1>2
<1>5. forkedFrom \in [Branches -> 0..Len(turnBranch')]
  BY <1>4 DEF TreeHolds
<1>6. Len(turnBranch') <= MaxTurns
  BY <1>1, <1>2, MemoryBounds
<1> QED
  BY <1>2, <1>3, <1>5, <1>6 DEF TreeHolds, TurnsKept

LEMMA BeginTurnIsSafe ==
    ASSUME MemoryInv, NEW b \in made, BeginTurn(b)
    PROVE  MemoryInv' /\ MemoryKept
<1>1. TreeHolds' /\ TurnsKept
  BY TurnIsAdded DEF MemoryInv, BeginTurn
<1>2. MemoryKept
  BY <1>1, NothingIndexed DEF BeginTurn
<1> QED
  BY <1>1, <1>2 DEF MemoryInv, MemoryKept, BeginTurn

LEMMA ForkIsSafe ==
    ASSUME MemoryInv, NEW t \in DOMAIN turnBranch, NEW c \in Branches,
           ForkAt(t, c)
    PROVE  MemoryInv' /\ MemoryKept
<1>1. /\ turnBranch \in Seq(made) /\ DOMAIN turnBranch = 1..Len(turnBranch)
      /\ Len(turnBranch) \in Nat /\ made \subseteq Branches
  BY DEF MemoryInv, TreeHolds
<1>2. turnBranch[t] \in made /\ t \in 0..Len(turnBranch) /\ t # 0
  BY <1>1
<1>3. TurnsKept
  BY DEF ForkAt, TurnsKept
<1>4. forkedFrom'[c] = t /\ forkedFrom[c] = 0
  BY DEF MemoryInv, TreeHolds, ForkAt
<1>a. forkedFrom' # forkedFrom
  BY <1>2, <1>4
<1>5. MemoryKept
  BY <1>3, <1>a, NothingIndexed, Zenon DEF ForkAt
<1>6. TreeHolds'
  <2>1. /\ made' \subseteq Branches /\ Trunk \in made' /\ made \subseteq made'
        /\ turnBranch' \in Seq(made') /\ Len(turnBranch') <= MaxTurns
        /\ hidden' \subseteq DOMAIN turnBranch'
    BY <1>1 DEF MemoryInv, TreeHolds, ForkAt
  <2>2. parent' \in [Branches -> made' \cup {Nobody}]
    BY <1>1, <1>2 DEF MemoryInv, TreeHolds, ForkAt
  <2>3. forkedFrom' \in [Branches -> 0..Len(turnBranch')]
    BY <1>2 DEF MemoryInv, TreeHolds, ForkAt
  <2>4. \A b \in Branches \ made' : forkedFrom'[b] = 0
    BY DEF MemoryInv, TreeHolds, ForkAt
  <2> QED
    BY <2>1, <2>2, <2>3, <2>4 DEF TreeHolds
<1> QED
  BY <1>5, <1>6 DEF MemoryInv, MemoryKept, ForkAt

LEMMA RollbackTurnIsSafe ==
    ASSUME MemoryInv, NEW b \in made, NEW t \in DOMAIN turnBranch,
           RollbackTurn(b, t)
    PROVE  MemoryInv' /\ MemoryKept
<1>1. /\ turnBranch \in Seq(made) /\ DOMAIN turnBranch = 1..Len(turnBranch)
      /\ Len(turnBranch) \in Nat /\ made \subseteq Branches
  BY DEF MemoryInv, TreeHolds
<1>2. t \in 0..Len(turnBranch) /\ b \in Branches
  BY <1>1
<1>3. TurnsKept
  BY DEF RollbackTurn, TurnsKept
<1>4. hidden \subseteq hidden' /\ hidden' \subseteq DOMAIN turnBranch
  BY DEF RollbackTurn, MemoryInv, TreeHolds
<1>5. MemoryKept
  BY <1>3, <1>4, NothingIndexed, Zenon DEF RollbackTurn
<1>6. TreeHolds'
  <2>1. forkedFrom' \in [Branches -> 0..Len(turnBranch)]
    BY <1>2 DEF MemoryInv, TreeHolds, RollbackTurn
  <2>2. \A c \in Branches \ made : forkedFrom'[c] = 0
    BY <1>2 DEF MemoryInv, TreeHolds, RollbackTurn
  <2> QED
    BY <1>4, <2>1, <2>2 DEF MemoryInv, TreeHolds, RollbackTurn
<1> QED
  BY <1>5, <1>6 DEF MemoryInv, MemoryKept, RollbackTurn

-----------------------------------------------------------------------------
(* Versions and transcripts.                                               *)

\* What may be reviewed or replaced at a turn is active.
LEMMA InspectedIsActive ==
    ASSUME NEW a, NEW t, Inspected(a, t)
    PROVE  assets[a].materialized /\ assets[a].tags.state = "active"
BY DEF Inspected, AssetVisible, Visible

\* The tags and the record of a version that is made.
LEMMA EvolvedIsAsset ==
    ASSUME MemoryInv, NEW a \in DOMAIN assets, NEW t \in DOMAIN turnBranch,
           Len(assets) < MaxAssets,
           NEW scope \in {"story_global", "current_branch", "listed"},
           NEW bs \in SUBSET Branches, NEW ok \in BOOLEAN,
           NEW x, x = [kind |-> "source", key |-> Nobody,
                       version |-> assets[a].version + 1,
                       tags |-> EvolvedTags(t, scope, bs),
                       materialized |-> TRUE, indexed |-> ok]
    PROVE  /\ x \in Asset /\ x.kind = "source" /\ x.indexed = ok
           /\ x.tags.state = "active" /\ x.version = assets[a].version + 1
           /\ x.version <= Len(assets) + 1
<1>1. /\ turnBranch \in Seq(made) /\ DOMAIN turnBranch = 1..Len(turnBranch)
      /\ Len(turnBranch) \in Nat /\ made \subseteq Branches
      /\ Len(turnBranch) <= MaxTurns
  BY DEF MemoryInv, TreeHolds
<1>2. turnBranch[t] \in Branches /\ t \in 0..MaxTurns
  BY <1>1, MemoryBounds
<1>3. EvolvedTags(t, scope, bs) \in Tags
  BY <1>2 DEF EvolvedTags, Tags
<1>4. EvolvedTags(t, scope, bs).state = "active"
  BY DEF EvolvedTags
<1>5. /\ assets[a] \in Asset /\ assets[a].version <= Len(assets)
      /\ Len(assets) \in Nat
  BY DEF MemoryInv, Records
<1>6. assets[a].version \in 1..MaxAssets
  BY <1>5, AssetFields
<1>7. assets[a].version + 1 \in 1..MaxAssets
  BY <1>5, <1>6, MemoryBounds
<1>8. assets[a].version + 1 <= Len(assets) + 1
  BY <1>5, <1>6, MemoryBounds
<1> QED
  BY <1>3, <1>4, <1>7, <1>8 DEF Asset

LEMMA EvolveIsSafe ==
    ASSUME MemoryInv, NEW a \in DOMAIN assets, NEW t \in DOMAIN turnBranch,
           NEW scope \in {"story_global", "current_branch", "listed"},
           NEW bs \in SUBSET Branches, NEW ok \in BOOLEAN,
           EvolveSource(a, t, scope, bs, ok)
    PROVE  MemoryInv' /\ MemoryKept
<1>1. PICK x : x = [kind |-> "source", key |-> Nobody,
                    version |-> assets[a].version + 1,
                    tags |-> EvolvedTags(t, scope, bs),
                    materialized |-> TRUE, indexed |-> ok]
  OBVIOUS
<1>2. Len(assets) < MaxAssets /\ assets[a].kind = "source" /\ Inspected(a, t)
  BY DEF EvolveSource
<1>3. /\ x \in Asset /\ x.kind = "source" /\ x.indexed = ok
      /\ x.tags.state = "active" /\ x.version = assets[a].version + 1
      /\ x.version <= Len(assets) + 1
  BY <1>1, <1>2, EvolvedIsAsset
<1>4. /\ Records(assets, index) /\ Len(assets) \in Nat
      /\ assets \in Seq(Asset) /\ index \in Seq(ChunkRecord)
      /\ Len(index) = Len(assets)
  BY DEF MemoryInv, Records
<1>5. assets' = Append(IF ok THEN Supersede(a, assets) ELSE assets, x)
  BY <1>1 DEF EvolveSource
<1>6. CASE ok
  <2>1. assets' = Append(Supersede(a, assets), x)
    BY <1>5, <1>6
  <2>2. Len(assets') = Len(assets) + 1 /\ assets'[Len(assets) + 1] = x
    BY <1>4, <2>1 DEF Supersede
  <2>3. Replaces(assets, index, a, x, assets', index')
    <3>1. index' = Reindexed(Append(Withdraw(a, index), NoChunks),
                             Len(assets'), assets', ok)
      BY <1>6 DEF EvolveSource
    <3> QED
      BY <1>6, <2>1, <2>2, <3>1 DEF Reindexed, Replaces
  <2>4. assets[a].tags.state = "active"
    BY <1>2, InspectedIsActive
  <2>x. x.indexed
    BY <1>3, <1>6
  <2>5. Records(assets', index')
    <3>2. IsNextVersion(x, assets[a])
      BY <1>3, <2>x DEF IsNextVersion
    <3> QED
      BY <1>2, <1>3, <1>4, <2>3, <2>4, <3>2, IndexedIsAdded
  <2>6. Len(assets') > Len(assets) /\ Last(assets').indexed
    <3>1. assets'[Len(assets')].indexed
      BY <1>4, <2>2, <2>x
    <3>2. Len(assets') > Len(assets)
      BY <1>4, <2>2
    <3> QED
      BY <3>1, <3>2 DEF Last
  <2>7. index' # index
    BY <1>4, <2>2, <2>5 DEF Records
  <2> QED
    BY <2>5, <2>6, <2>7
       DEF MemoryInv, MemoryKept, FailedVersionCostsNothing,
           FoundByIndexingOnly, EvolveSource, branchVars, TreeHolds
<1>7. CASE ~ok
  <2>1. assets' = Append(assets, x)
    BY <1>5, <1>7
  <2>2. index' = Append(index, NoChunks)
    BY <1>7 DEF EvolveSource, Reindexed
  <2>3. Records(assets', index')
    BY <1>2, <1>3, <1>4, <1>7, <2>1, <2>2, UnindexedIsAdded
  <2>4. \A u \in Versions : /\ u \in DOMAIN assets'
                            /\ assets'[u] = assets[u] /\ index'[u] = index[u]
    BY <1>4, <2>1, <2>2, ChunksAre DEF Versions
  <2>5. TurnsKept /\ UNCHANGED <<parent, forkedFrom, hidden>>
    BY DEF EvolveSource, branchVars, TurnsKept
  <2>6. FailedVersionCostsNothing
    BY <2>4, <2>5, SourcesAreFound
  <2>7. index' # index
    <3>1. Len(index') = Len(index) + 1 /\ Len(index) \in Nat
      BY <1>4, <2>2
    <3> QED
      BY <3>1
  <2> QED
    BY <2>3, <2>6, <2>7
       DEF MemoryInv, MemoryKept, FoundByIndexingOnly, EvolveSource,
           branchVars, TreeHolds
<1> QED
  BY <1>6, <1>7

LEMMA ReviewIsSafe ==
    ASSUME MemoryInv, NEW t \in DOMAIN turnBranch, ReviewRecall(t)
    PROVE  MemoryInv' /\ MemoryKept
<1>1. ASSUME NEW a \in DOMAIN assets, assets[a].kind = "scene",
             Inspected(a, t),
             NEW x \in Asset, x.kind = "scene",
             x.version = assets[a].version,
             Rewrites(assets, index, a, x, assets', index'),
             UNCHANGED <<branchVars, closed>>
      PROVE  MemoryInv' /\ MemoryKept
  <2>1. TurnsKept /\ UNCHANGED <<parent, forkedFrom, hidden>>
    BY <1>1 DEF branchVars, TurnsKept
  <2>2. x.version <= Len(assets)
    BY <1>1 DEF MemoryInv, Records
  <2>3. assets[a].materialized
    BY <1>1, InspectedIsActive
  <2>4. MemoryKept
    BY <1>1, <2>1, <2>2, <2>3, SceneIsRewritten
  <2> QED
    BY <1>1, <2>4 DEF MemoryInv, MemoryKept, branchVars, TreeHolds
<1>2. ASSUME NEW a \in DOMAIN assets
      PROVE  assets[a] \in Asset /\ DOMAIN index = DOMAIN assets
             /\ a \in DOMAIN index
  BY <1>2 DEF MemoryInv, Records
<1>3. ASSUME NEW a \in DOMAIN assets, NEW s \in {"superseded", "invalidated"},
             MarkMaterial(a, t, s)
      PROVE  MemoryInv' /\ MemoryKept
  <2>1. PICK x : x = [assets[a] EXCEPT !.tags.state = s]
    OBVIOUS
  <2>2. x \in Asset /\ x.kind = assets[a].kind /\ x.version = assets[a].version
    BY <1>2, <2>1, RestatedAsset
  <2>3. assets' = [assets EXCEPT ![a] = x]
    BY <1>3, <2>1 DEF MarkMaterial
  <2>4. assets'[a] = x
    BY <2>3
  <2>5. Rewrites(assets, index, a, x, assets', index')
    BY <1>3, <2>3, <2>4 DEF MarkMaterial, Marked, Reindexed, Rewrites
  <2> QED
    BY <1>1, <1>3, <2>2, <2>5 DEF MarkMaterial
<1>4. ASSUME NEW a \in DOMAIN assets, RecomputeMaterial(a, t)
      PROVE  MemoryInv' /\ MemoryKept
  <2>1. PICK x : x = [assets[a] EXCEPT !.tags = Untagged, !.materialized = FALSE]
    OBVIOUS
  <2>2. x \in Asset /\ x.kind = assets[a].kind /\ x.version = assets[a].version
    <3>1. assets[a] \in Asset
      BY <1>2
    <3>2. Untagged \in Tags
      BY MemoryBounds DEF Untagged, Tags, NoTurn
    <3> QED
      BY <2>1, <3>1, <3>2 DEF Asset
  <2>3. assets' = [assets EXCEPT ![a] = x]
    BY <1>4, <2>1 DEF RecomputeMaterial
  <2>4. assets'[a] = x
    BY <2>3
  <2>5. Rewrites(assets, index, a, x, assets', index')
    BY <1>4, <2>3, <2>4 DEF RecomputeMaterial, Reindexed, Rewrites
  <2> QED
    BY <1>1, <1>4, <2>2, <2>5 DEF RecomputeMaterial
<1> QED
  BY <1>3, <1>4 DEF ReviewRecall

LEMMA PutInPlace ==
    ASSUME NEW S, NEW s \in Seq(S), NEW x \in S, NEW y \in S, NEW n,
           n = Len(s) + 1
    PROVE  [Append(s, x) EXCEPT ![n] = y] = Append(s, y)
<1>0. PICK new : new = [Append(s, x) EXCEPT ![n] = y]
  OBVIOUS
<1>1. PICK t : t = Append(s, y)
  OBVIOUS
<1>2. PICK u : u = Append(s, x)
  OBVIOUS
<1>3. /\ u \in Seq(S) /\ DOMAIN u = 1..n /\ n \in 1..n
      /\ \A i \in 1..n : i # n => i \in DOMAIN s /\ u[i] = s[i]
  BY <1>2
<1>4. new = [u EXCEPT ![n] = y]
  BY <1>0, <1>2
<1>5. /\ new \in Seq(S) /\ Len(new) = n
      /\ \A i \in 1..n : new[i] = IF i = n THEN y ELSE s[i]
  BY <1>3, <1>4
<1>6. /\ t \in Seq(S) /\ Len(t) = n
      /\ \A i \in 1..n : t[i] = IF i = n THEN y ELSE s[i]
  BY <1>1
<1>7. new = t
  BY <1>5, <1>6, SeqEqual
<1> QED
  BY <1>0, <1>1, <1>7

LEMMA TranscriptIsKept ==
    ASSUME MemoryInv, TurnsKept, UNCHANGED <<parent, forkedFrom, hidden>>,
           NEW k \in Branches \cup {Nobody}, NEW g \in Tags, Transcript(k, g)
    PROVE  MemoryKept
<1>1. PICK x : x = [kind |-> "scene", key |-> k, version |-> 1, tags |-> g,
                    materialized |-> TRUE, indexed |-> TRUE]
  OBVIOUS
<1>2. /\ x \in Asset /\ x.kind = "scene" /\ x.version = 1 /\ x.materialized
  BY <1>1, MemoryBounds DEF Asset
<1>3. PICK here : here = {a \in DOMAIN assets : /\ assets[a].kind = "scene"
                                                /\ assets[a].key = k}
  OBVIOUS
<1>4. /\ Records(assets, index) /\ Len(assets) \in Nat
      /\ assets \in Seq(Asset) /\ index \in Seq(ChunkRecord)
      /\ Len(index) = Len(assets) /\ DOMAIN index = DOMAIN assets
      /\ Chunks(x) \in ChunkRecord /\ NoChunks \in ChunkRecord
  BY <1>2, ChunksAre DEF MemoryInv, Records
<1>5. CASE here = {}
  <2>1. /\ Len(assets) + 1 <= MaxAssets /\ assets' = Append(assets, x)
        /\ index' = Reindexed(Append(index, NoChunks), Len(assets) + 1,
                              assets', TRUE)
    BY <1>1, <1>3, <1>5 DEF Transcript
  <2>2. assets'[Len(assets) + 1] = x
    BY <1>4, <2>1
  <2>n. PICK n : n = Len(assets) + 1
    OBVIOUS
  <2>3. index' = [Append(index, NoChunks) EXCEPT ![n] = Chunks(x)]
    BY <2>1, <2>2, <2>n DEF Reindexed
  <2>m. n = Len(index) + 1
    BY <1>4, <2>n
  <2>4. index' = Append(index, Chunks(x))
    <3>1. [Append(index, NoChunks) EXCEPT ![n] = Chunks(x)]
            = Append(index, Chunks(x))
      BY <1>4, <2>m, PutInPlace
    <3> QED
      BY <2>3, <3>1
  <2>5. Len(assets) < MaxAssets
    BY <1>4, <2>1, MemoryBounds
  <2> QED
    BY <1>2, <2>1, <2>4, <2>5, SceneIsWritten
<1>6. CASE here # {}
  <2>1. PICK a : a = CHOOSE u \in here : TRUE
    OBVIOUS
  <2>2. a \in here
    BY <1>6, <2>1
  <2>3. assets' = [assets EXCEPT ![a] = x]
        /\ index' = Reindexed(index, a, assets', TRUE)
    BY <1>1, <1>3, <1>6, <2>1 DEF Transcript
  <2>4. a \in DOMAIN assets /\ assets[a].kind = "scene"
    BY <1>3, <2>2
  <2>5. assets'[a] = x
    BY <2>3, <2>4
  <2>6. Rewrites(assets, index, a, x, assets', index')
    BY <2>3, <2>5 DEF Reindexed, Rewrites
  <2>7. 1 <= Len(assets)
    BY <1>4, <2>4
  <2> QED
    BY <1>2, <2>4, <2>6, <2>7, SceneIsRewritten
<1> QED
  BY <1>5, <1>6

LEMMA SceneIsSafe ==
    ASSUME MemoryInv,
           \/ CloseScene
           \/ \E b \in made : CompleteInScene(b) \/ AcceptInScene(b)
    PROVE  MemoryInv' /\ MemoryKept
<1>1. /\ made \subseteq Branches /\ Len(turnBranch) \in Nat
      /\ closed \in BOOLEAN
  BY DEF MemoryInv, TreeHolds
<1>2. CASE CloseScene
  <2>1. Untagged \in Tags
    BY MemoryBounds DEF Untagged, Tags, NoTurn
  <2>2. /\ TurnsKept /\ UNCHANGED <<parent, forkedFrom, hidden>>
        /\ Transcript(Nobody, Untagged)
    BY <1>2 DEF CloseScene, branchVars, TurnsKept
  <2>3. MemoryKept
    BY <2>1, <2>2, TranscriptIsKept
  <2> QED
    BY <1>2, <2>3 DEF MemoryInv, MemoryKept, CloseScene, branchVars, TreeHolds
<1>3. ASSUME NEW b \in made, TranscriptOfTurn(b)
      PROVE  TreeHolds' /\ MemoryKept
  <2>1. PICK g : g = [scope |-> "current_branch", owner |-> b,
                      turn |-> Len(turnBranch) + 1, branches |-> {},
                      state |-> "active"]
    OBVIOUS
  <2>2. Len(turnBranch) < MaxTurns
    BY <1>3 DEF TranscriptOfTurn
  <2>3. g \in Tags
    <3>1. Len(turnBranch) + 1 \in 0..MaxTurns /\ b \in Branches
      BY <1>1, <2>2, MemoryBounds
    <3> QED
      BY <2>1, <3>1 DEF Tags
  <2>4. TreeHolds' /\ TurnsKept
    BY <1>3, TurnIsAdded DEF TranscriptOfTurn, MemoryInv
  <2>5. Transcript(b, g) /\ UNCHANGED <<parent, forkedFrom, hidden>>
    BY <1>3, <2>1 DEF TranscriptOfTurn
  <2> QED
    BY <1>1, <2>3, <2>4, <2>5, TranscriptIsKept
<1>4. ASSUME NEW b \in made, CompleteInScene(b) \/ AcceptInScene(b)
      PROVE  MemoryInv' /\ MemoryKept
  <2>1. TranscriptOfTurn(b) /\ closed' \in BOOLEAN
    BY <1>1, <1>4 DEF CompleteInScene, AcceptInScene
  <2> QED
    BY <1>3, <2>1 DEF MemoryInv, MemoryKept
<1> QED
  BY <1>2, <1>4

-----------------------------------------------------------------------------
(* The theorems.                                                           *)

LEMMA MemoryStarts ==
    ASSUME MemoryInit
    PROVE  MemoryInv
<1>1. PICK x : x = [kind |-> "source", key |-> Nobody, version |-> 1,
                    tags |-> Untagged, materialized |-> TRUE,
                    indexed |-> TRUE]
  OBVIOUS
<1>2. assets = <<x>> /\ index = <<Tagged(Untagged)>>
  BY <1>1 DEF MemoryInit
<1>3. Untagged \in Tags /\ Untagged.state = "active"
  BY MemoryBounds DEF Untagged, Tags, NoTurn
<1>4. /\ x \in Asset /\ x.kind = "source" /\ x.version = 1
      /\ x.indexed /\ x.tags.state = "active" /\ Chunks(x) = Tagged(Untagged)
  BY <1>1, <1>3, MemoryBounds DEF Asset, Chunks
<1>5. Tagged(Untagged) \in ChunkRecord /\ Tagged(Untagged) # NoChunks
  BY <1>4, ChunksAre
<1>6. /\ DOMAIN assets = {1} /\ assets[1] = x /\ Len(assets) = 1
      /\ assets \in Seq(Asset)
      /\ index[1] = Tagged(Untagged) /\ Len(index) = 1
      /\ index \in Seq(ChunkRecord)
  BY <1>2, <1>4, <1>5
<1>7. AddsUp(assets, index)
  <2>1. Held(assets, index) = {1} /\ Passed(assets) = {}
    BY <1>4, <1>5, <1>6 DEF Held, Passed
  <2>2. Cardinality({1}) = 1 /\ Cardinality({}) = 0
    BY FS_Singleton, FS_EmptySet
  <2> QED
    BY <2>1, <2>2 DEF AddsUp
<1>8. IndexAgrees(assets, index) /\ SourcesHold(assets, index)
  BY <1>4, <1>5, <1>6 DEF IndexAgrees, SourcesHold
<1>9. Records(assets, index)
  <2>1. 1 <= MaxAssets
    BY MemoryBounds
  <2> QED
    BY <1>4, <1>6, <1>7, <1>8, <2>1 DEF Records
<1>10. TreeHolds
  BY MemoryBounds DEF MemoryInit, TreeHolds, NoTurn
<1> QED
  BY <1>9, <1>10 DEF MemoryInv, MemoryInit

LEMMA MemoryStep ==
    ASSUME MemoryInv, [MemoryNext]_memoryVars
    PROVE  MemoryInv' /\ [MemoryKept]_memoryVars
<1>1. ASSUME NEW b \in made, BeginTurn(b)
      PROVE  MemoryInv' /\ MemoryKept
  BY <1>1, BeginTurnIsSafe
<1>2. ASSUME NEW t \in DOMAIN turnBranch, NEW c \in Branches, ForkAt(t, c)
      PROVE  MemoryInv' /\ MemoryKept
  BY <1>2, ForkIsSafe
<1>3. ASSUME NEW b \in made, NEW t \in DOMAIN turnBranch, RollbackTurn(b, t)
      PROVE  MemoryInv' /\ MemoryKept
  BY <1>3, RollbackTurnIsSafe
<1>4. ASSUME NEW t \in DOMAIN turnBranch, Evolve(t)
      PROVE  MemoryInv' /\ MemoryKept
  <2>1. made \subseteq Branches /\ turnBranch[t] \in made
    BY DEF MemoryInv, TreeHolds
  <2>2. \A bs \in (SUBSET made) \ {{}} : bs \in SUBSET Branches
    BY <2>1
  <2>3. {} \in SUBSET Branches /\ {turnBranch[t]} \in SUBSET Branches
    BY <2>1
  <2> QED
    BY <1>4, <2>2, <2>3, EvolveIsSafe DEF Evolve
<1>5. ASSUME NEW t \in DOMAIN turnBranch, ReviewRecall(t)
      PROVE  MemoryInv' /\ MemoryKept
  BY <1>5, ReviewIsSafe
<1>6. CASE UNCHANGED memoryVars
  BY <1>6
     DEF memoryVars, branchVars, MemoryInv, TreeHolds, Records, IndexAgrees,
         SourcesHold, AddsUp, Held, Passed, Chunks
<1> QED
  BY <1>1, <1>2, <1>3, <1>4, <1>5, <1>6, SceneIsSafe DEF MemoryNext

\* The assets, their chunks and the branches of the session stay well-formed:
\* every chunk is of an asset, every turn of a branch there is.
THEOREM MemoryTypesHold == MemorySpec => []MemoryTypeOK
<1>1. MemoryInit => MemoryInv
  BY MemoryStarts
<1>2. MemoryInv /\ [MemoryNext]_memoryVars => MemoryInv'
  BY MemoryStep
<1>3. MemoryInv => MemoryTypeOK
  BY MemoryTypes
<1> QED
  BY <1>1, <1>2, <1>3, PTL DEF MemorySpec

\* What was superseded or invalidated is found no more; the versions of a source
\* that have chunks are one more than those that could not be indexed and were
\* replaced; a version that could not be indexed takes nothing away; and only
\* indexing lets a turn find what it did not (evolve_source, _mark_assets,
\* BranchVisibilityResolver).
THEOREM MemoryIsAlwaysSound == MemorySpec => MemoryIsSound
<1>1. MemoryInit => MemoryInv
  BY MemoryStarts
<1>2. MemoryInv /\ [MemoryNext]_memoryVars => MemoryInv'
  BY MemoryStep
<1>3. MemoryInv => OutdatedIsNotFound /\ VersionsAddUp
  BY OutdatedIsHidden, CountIsCount
<1>4. MemoryInv /\ [MemoryNext]_memoryVars =>
        [FailedVersionCostsNothing /\ FoundByIndexingOnly]_memoryVars
  BY MemoryStep DEF MemoryKept
<1> QED
  BY <1>1, <1>2, <1>3, <1>4, PTL DEF MemorySpec, MemoryIsSound
=============================================================================
