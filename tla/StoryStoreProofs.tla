-------------------------- MODULE StoryStoreProofs --------------------------
(***************************************************************************)
(* What the operations on a store preserve.  Each lemma is about one       *)
(* operation of StoryStore and holds for every store, branch and turn.     *)
(***************************************************************************)
EXTENDS StoryStore, WellFoundedInduction, FiniteSetTheorems, TLAPS

(* Typing.                                                                 *)

\* A record of the right type has fields of the right types.
LEMMA StoreFields ==
  ASSUME NEW s \in Store
  PROVE  /\ s.active \in Branches
         /\ s.made \in SUBSET Branches
         /\ s.deleted \in SUBSET Branches
         /\ s.parent \in [Branches -> Branches \cup {None}]
         /\ s.forkOrigin \in [Branches -> TurnRef]
         /\ s.forkedFrom \in [Branches -> TurnRef]
         /\ s.head \in [Branches -> TurnRef]
         /\ s.lastSettled \in [Branches -> TurnRef]
         /\ s.hiddenIds \in [Branches -> SUBSET Turns]
         /\ s.turns \in TurnRef
         /\ s.on \in [Turns -> Branches]
         /\ s.status \in [Turns -> TurnStatus]
         /\ s.telling \in SUBSET Turns
         /\ s.hidden \in SUBSET Turns
         /\ s.job \in [Turns -> JobStatus]
         /\ s.art \in [Turns -> ArtifactStatus]
         /\ s.bound \in SUBSET Turns
         /\ s.pending \in TurnRef
         /\ s.phase \in Phase
  BY SMT DEF Store

\* Replacing one field by a value of its type.
LEMMA FieldUpdate ==
  ASSUME NEW s \in Store
  PROVE  /\ \A v \in Branches : [s EXCEPT !.active = v] \in Store
         /\ \A v \in SUBSET Branches : [s EXCEPT !.made = v] \in Store
         /\ \A v \in SUBSET Branches : [s EXCEPT !.deleted = v] \in Store
         /\ \A v \in [Branches -> Branches \cup {None}] : [s EXCEPT !.parent = v] \in Store
         /\ \A v \in [Branches -> TurnRef] : [s EXCEPT !.forkOrigin = v] \in Store
         /\ \A v \in [Branches -> TurnRef] : [s EXCEPT !.forkedFrom = v] \in Store
         /\ \A v \in [Branches -> TurnRef] : [s EXCEPT !.head = v] \in Store
         /\ \A v \in [Branches -> TurnRef] : [s EXCEPT !.lastSettled = v] \in Store
         /\ \A v \in [Branches -> SUBSET Turns] : [s EXCEPT !.hiddenIds = v] \in Store
         /\ \A v \in TurnRef : [s EXCEPT !.turns = v] \in Store
         /\ \A v \in [Turns -> Branches] : [s EXCEPT !.on = v] \in Store
         /\ \A v \in [Turns -> TurnStatus] : [s EXCEPT !.status = v] \in Store
         /\ \A v \in SUBSET Turns : [s EXCEPT !.telling = v] \in Store
         /\ \A v \in SUBSET Turns : [s EXCEPT !.hidden = v] \in Store
         /\ \A v \in [Turns -> JobStatus] : [s EXCEPT !.job = v] \in Store
         /\ \A v \in [Turns -> ArtifactStatus] : [s EXCEPT !.art = v] \in Store
         /\ \A v \in SUBSET Turns : [s EXCEPT !.bound = v] \in Store
         /\ \A v \in TurnRef : [s EXCEPT !.pending = v] \in Store
         /\ \A v \in Phase : [s EXCEPT !.phase = v] \in Store
<1>1. \A v \in Branches : [s EXCEPT !.active = v] \in Store
  BY DEF Store
<1>2. \A v \in SUBSET Branches : [s EXCEPT !.made = v] \in Store
  BY DEF Store
<1>3. \A v \in SUBSET Branches : [s EXCEPT !.deleted = v] \in Store
  BY DEF Store
<1>4. \A v \in [Branches -> Branches \cup {None}] : [s EXCEPT !.parent = v] \in Store
  BY DEF Store
<1>5. \A v \in [Branches -> TurnRef] : [s EXCEPT !.forkOrigin = v] \in Store
  BY DEF Store
<1>6. \A v \in [Branches -> TurnRef] : [s EXCEPT !.forkedFrom = v] \in Store
  BY DEF Store
<1>7. \A v \in [Branches -> TurnRef] : [s EXCEPT !.head = v] \in Store
  BY DEF Store
<1>8. \A v \in [Branches -> TurnRef] : [s EXCEPT !.lastSettled = v] \in Store
  BY DEF Store
<1>9. \A v \in [Branches -> SUBSET Turns] : [s EXCEPT !.hiddenIds = v] \in Store
  BY DEF Store
<1>10. \A v \in TurnRef : [s EXCEPT !.turns = v] \in Store
  BY DEF Store
<1>11. \A v \in [Turns -> Branches] : [s EXCEPT !.on = v] \in Store
  BY DEF Store
<1>12. \A v \in [Turns -> TurnStatus] : [s EXCEPT !.status = v] \in Store
  BY DEF Store
<1>19. \A v \in SUBSET Turns : [s EXCEPT !.telling = v] \in Store
  BY DEF Store
<1>13. \A v \in SUBSET Turns : [s EXCEPT !.hidden = v] \in Store
  BY DEF Store
<1>14. \A v \in [Turns -> JobStatus] : [s EXCEPT !.job = v] \in Store
  BY DEF Store
<1>15. \A v \in [Turns -> ArtifactStatus] : [s EXCEPT !.art = v] \in Store
  BY DEF Store
<1>16. \A v \in SUBSET Turns : [s EXCEPT !.bound = v] \in Store
  BY DEF Store
<1>17. \A v \in TurnRef : [s EXCEPT !.pending = v] \in Store
  BY DEF Store
<1>18. \A v \in Phase : [s EXCEPT !.phase = v] \in Store
  BY DEF Store
<1> QED
  BY <1>1, <1>2, <1>3, <1>4, <1>5, <1>6, <1>7, <1>8, <1>9,
     <1>10, <1>11, <1>12, <1>13, <1>14, <1>15, <1>16, <1>17, <1>18, <1>19

\* The store of a new session is well typed.
LEMMA FreshTyped == FreshStore \in Store
  BY BranchAssumption, MaxTurnsAssumption, SMT
  DEF Store, FreshStore, Phase, TurnStatus, JobStatus, ArtifactStatus,
      Turns, TurnRef, NoTurn

\* Turn ids are turn references, and the next one is free below the bound.
LEMMA TurnIds ==
  ASSUME NEW s \in Store
  PROVE  /\ Turns \subseteq TurnRef
         /\ NoTurn \in TurnRef /\ NoTurn \notin Turns
         /\ s.turns \in Nat
         /\ Created(s) \subseteq Turns
         /\ s.turns < MaxTurns => s.turns + 1 \in Turns
<1>1. s.turns \in 0..MaxTurns BY StoreFields DEF TurnRef
<1>2. QED
  BY <1>1, MaxTurnsAssumption, SMT DEF Turns, TurnRef, NoTurn, Created

\* create_turn
LEMMA CreateTurnTyped ==
  ASSUME NEW s \in Store, NEW b \in Branches, NEW cmd, s.turns < MaxTurns
  PROVE  CreateTurn(s, b, cmd) \in Store
<1> DEFINE t == s.turns + 1
           s1 == [s EXCEPT !.turns = t]
           s2 == [s1 EXCEPT !.on[t] = b]
           s3 == [s2 EXCEPT !.status[t] = "started"]
           told == IF cmd \in TellingCommands THEN s3.telling \cup {t} ELSE s3.telling
           s4 == [s3 EXCEPT !.telling = told]
           s5 == [s4 EXCEPT !.head[b] = t]
<1>1. t \in TurnRef /\ t \in Turns BY TurnIds
<1>2. CreateTurn(s, b, cmd) = s5 BY DEF CreateTurn
<1>3. s1 \in Store BY <1>1, FieldUpdate
<1>4. s2 \in Store BY <1>1, <1>3, FieldUpdate, StoreFields
<1> HIDE DEF s1, s2, t
<1>5. s3 \in Store BY <1>1, <1>4, FieldUpdate, StoreFields DEF TurnStatus
<1>6. told \in SUBSET Turns BY <1>1, <1>5, StoreFields
<1> HIDE DEF s3, told
<1>7. s4 \in Store BY <1>5, <1>6, FieldUpdate
<1>8. s5 \in Store BY <1>1, <1>7, FieldUpdate, StoreFields
<1>9. QED BY <1>2, <1>8 DEF s3, told

\* update_turn_status
LEMMA UpdateStatusTyped ==
  ASSUME NEW s \in Store, NEW t \in Turns, NEW st \in TurnStatus
  PROVE  UpdateStatus(s, t, st) \in Store
  BY FieldUpdate, StoreFields DEF UpdateStatus

\* update_turn_status(SETTLED)
LEMMA SettleTyped ==
  ASSUME NEW s \in Store, NEW t \in Turns
  PROVE  Settle(s, t) \in Store
<1> DEFINE s1 == [s EXCEPT !.status[t] = "settled"]
           s2 == [s1 EXCEPT !.hidden = @ \ {t}]
           s3 == [s2 EXCEPT !.head[s.on[t]] = t]
           s4 == [s3 EXCEPT !.lastSettled[s.on[t]] = t]
<1>1. Settle(s, t) = s4 BY DEF Settle
<1>2. s1 \in Store BY FieldUpdate, StoreFields DEF TurnStatus
<1> HIDE DEF s1
<1>3. s2 \in Store BY <1>2, FieldUpdate, StoreFields
<1> HIDE DEF s2
<1>4. s3 \in Store BY <1>3, TurnIds, FieldUpdate, StoreFields
<1> HIDE DEF s3
<1>5. s4 \in Store BY <1>4, TurnIds, FieldUpdate, StoreFields
<1>6. QED BY <1>1, <1>5

\* _mark_turn_settled_preserving_branch_progress
LEMMA SettleInPlaceTyped ==
  ASSUME NEW s \in Store, NEW t \in Turns
  PROVE  SettleInPlace(s, t) \in Store
<1> DEFINE b == s.on[t]
           s1 == [s EXCEPT !.status[t] = "settled"]
           s2 == [s1 EXCEPT !.hidden = @ \ {t}]
           s3 == [s2 EXCEPT !.lastSettled[b] =
                    IF ReplacesLastSettled(s, t) THEN t ELSE @]
           s4 == [s3 EXCEPT !.head[b] = IF AdvancesHead(s, t) THEN t ELSE @]
<1>0. b \in Branches BY StoreFields
<1>1. SettleInPlace(s, t) = s4 BY DEF SettleInPlace
<1>2. s1 \in Store BY FieldUpdate, StoreFields DEF TurnStatus
<1> HIDE DEF s1, b
<1>3. s2 \in Store BY <1>2, FieldUpdate, StoreFields
<1> HIDE DEF s2
<1>4. s3 \in Store BY <1>0, <1>3, TurnIds, FieldUpdate, StoreFields
<1> HIDE DEF s3
<1>5. s4 \in Store BY <1>0, <1>4, TurnIds, FieldUpdate, StoreFields, SMTT(30)
<1>6. QED BY <1>1, <1>5

\* ensure_creation_time_obligations
LEMMA EnsureJobsTyped ==
  ASSUME NEW s \in Store, NEW t \in Turns
  PROVE  EnsureJobs(s, t) \in Store
  BY FieldUpdate, StoreFields DEF EnsureJobs, JobStatus

\* mark_required_jobs_deferred / mark_required_jobs_completed
LEMMA CloseJobsTyped ==
  ASSUME NEW s \in Store, NEW t \in Turns, NEW st \in JobStatus
  PROVE  CloseJobs(s, t, st) \in Store
  BY FieldUpdate, StoreFields DEF CloseJobs, JobStatus

\* _settle_turn_if_ready
LEMMA SettleIfReadyTyped ==
  ASSUME NEW s \in Store, NEW t \in Turns
  PROVE  SettleIfReady(s, t) \in Store
  BY SettleTyped DEF SettleIfReady

\* _settle_adopted_output_turn_if_visible
LEMMA SettleAdoptedTyped ==
  ASSUME NEW s \in Store, NEW t \in Turns
  PROVE  SettleAdopted(s, t) \in Store
<1>1. CloseJobs(s, t, "deferred") \in Store BY CloseJobsTyped DEF JobStatus
<1>2. QED BY <1>1, SettleInPlaceTyped DEF SettleAdopted

\* A reader of the active branch sees created turns that are not hidden.
LEMMA VisibleIsCreated ==
  ASSUME NEW s
  PROVE  /\ VisibleTurns(s) \subseteq Created(s)
         /\ VisibleTurns(s) \cap s.hidden = {}
  BY DEF VisibleTurns, VisibleOn

\* The chapter as the active branch sees it is a chapter.
LEMMA EffectiveTyped ==
  ASSUME NEW s \in Store
  PROVE  EffectivePending(s) \in TurnRef /\ EffectivePhase(s) \in Phase
  BY StoreFields, TurnIds DEF EffectivePending, EffectivePhase, Phase

\* _persist_generated_artifact_impl, for segments and for messages
LEMMA PersistSegmentTyped ==
  ASSUME NEW s \in Store, NEW t \in Turns
  PROVE  PersistSegment(s, t) \in Store
<1> DEFINE s1 == [s EXCEPT !.art[t] = "draft"]
           s2 == [s1 EXCEPT !.pending = t]
           s3 == [s2 EXCEPT !.phase = "segment_review"]
<1>1. PersistSegment(s, t) = s3 BY DEF PersistSegment
<1>2. s1 \in Store BY FieldUpdate, StoreFields DEF ArtifactStatus
<1> HIDE DEF s1
<1>3. s2 \in Store BY <1>2, TurnIds, FieldUpdate
<1> HIDE DEF s2
<1>4. s3 \in Store BY <1>3, FieldUpdate DEF Phase
<1>5. QED BY <1>1, <1>4

\* Discussion output rewrites the chapter with the active branch's view of it.
LEMMA PersistMessageTyped ==
  ASSUME NEW s \in Store, NEW t \in Turns
  PROVE  PersistMessage(s, t) \in Store
<1> DEFINE s1 == [s EXCEPT !.art[t] = "message"]
           s2 == [s1 EXCEPT !.pending = EffectivePending(s)]
           s3 == [s2 EXCEPT !.phase = EffectivePhase(s)]
<1>1. PersistMessage(s, t) = s3 BY DEF PersistMessage
<1>2. s1 \in Store BY FieldUpdate, StoreFields DEF ArtifactStatus
<1> HIDE DEF s1
<1>3. s2 \in Store BY <1>2, EffectiveTyped, FieldUpdate
<1> HIDE DEF s2
<1>4. s3 \in Store BY <1>3, EffectiveTyped, FieldUpdate
<1>5. QED BY <1>1, <1>4

\* Binding an output to its turn
LEMMA BindTyped ==
  ASSUME NEW s \in Store, NEW t \in Turns, NEW cmd
  PROVE  BindOutput(s, t, cmd) \in Store /\ BindAccepted(s, t) \in Store
<1>1. s.bound \in SUBSET Turns /\ s.bound \cup {t} \in SUBSET Turns
  BY StoreFields
<1>2. [s EXCEPT !.bound = s.bound] \in Store
      /\ [s EXCEPT !.bound = s.bound \cup {t}] \in Store
  BY <1>1, FieldUpdate
<1>3. BindOutput(s, t, cmd) \in Store
  <2>1. CASE cmd = "rewrite_pending_segment" BY <2>1, <1>2 DEF BindOutput
  <2>2. CASE cmd # "rewrite_pending_segment" BY <2>2, <1>2 DEF BindOutput
  <2>3. QED BY <2>1, <2>2
<1>4. BindAccepted(s, t) \in Store
  <2>1. CASE HiddenByRollback(s, s.on[t], t) BY <2>1, <1>2 DEF BindAccepted
  <2>2. CASE ~ HiddenByRollback(s, s.on[t], t) BY <2>2, <1>2 DEF BindAccepted
  <2>3. QED BY <2>1, <2>2
<1>5. QED BY <1>3, <1>4

\* persist_generated_artifact
LEMMA PersistTyped ==
  ASSUME NEW s \in Store, NEW t \in Turns, NEW cmd \in Command, NEW kind
  PROVE  Persist(s, t, cmd, kind) \in Store
<1> DEFINE w == IF kind = "message"
                THEN PersistMessage(s, t) ELSE PersistSegment(s, t)
           o == BindOutput(w, t, cmd)
           e == EnsureJobs(o, t)
<1>1. w \in Store BY PersistMessageTyped, PersistSegmentTyped
<1> HIDE DEF w
<1>2. o \in Store BY <1>1, BindTyped
<1> HIDE DEF o
<1>3. e \in Store BY <1>2, EnsureJobsTyped
<1> HIDE DEF e
<1>4. UpdateStatus(e, t, "post_write_pending") \in Store
  BY <1>3, UpdateStatusTyped DEF TurnStatus
<1>5. QED BY <1>4 DEF Persist, w, o, e

\* The artifact part of accept_pending_segment
LEMMA AdoptArtifactTyped ==
  ASSUME NEW s \in Store, NEW t \in Turns
  PROVE  AdoptArtifact(s, t) \in Store
<1> DEFINE f == [u \in Turns |->
                   IF u = t
                   THEN IF s.art[t] = "message" THEN "message" ELSE "accepted"
                   ELSE IF u \in VisibleTurns(s) /\ s.art[u] = "draft"
                        THEN "superseded"
                        ELSE s.art[u]]
<1>1. \A u \in Turns : s.art[u] \in ArtifactStatus BY StoreFields
<1>2. f \in [Turns -> ArtifactStatus] BY <1>1 DEF ArtifactStatus
<1>3. AdoptArtifact(s, t) = [s EXCEPT !.art = f] BY DEF AdoptArtifact
<1> HIDE DEF f
<1>4. QED BY <1>2, <1>3, FieldUpdate

\* accept_pending_segment up to its first await
LEMMA AcceptSegmentTyped ==
  ASSUME NEW s \in Store, NEW t \in Turns
  PROVE  AcceptSegment(s, t) \in Store
<1> DEFINE a == AdoptArtifact(s, t)
           o == BindAccepted(a, t)
           d == SettleAdopted(o, t)
           c == [d EXCEPT !.phase = "segment_drafting"]
<1>1. a \in Store BY AdoptArtifactTyped
<1> HIDE DEF a
<1>2. o \in Store BY <1>1, BindTyped
<1> HIDE DEF o
<1>3. d \in Store BY <1>2, SettleAdoptedTyped
<1> HIDE DEF d
<1>4. c \in Store BY <1>3, FieldUpdate DEF Phase
<1>5. BackToDrafting(d) = [c EXCEPT !.pending = NoTurn] BY DEF BackToDrafting
<1> HIDE DEF c
<1>6. BackToDrafting(d) \in Store BY <1>3, <1>4, <1>5, TurnIds, FieldUpdate
<1>7. QED BY <1>6 DEF AcceptSegment, a, o, d

\* create_branch_from_turn
LEMMA ForkFromTyped ==
  ASSUME NEW s \in Store, NEW t \in Turns, NEW b \in Branches
  PROVE  ForkFrom(s, t, b) \in Store
<1> DEFINE s1 == [s EXCEPT !.made = @ \cup {b}]
           s2 == [s1 EXCEPT !.parent[b] = s.on[t]]
           s3 == [s2 EXCEPT !.forkOrigin[b] = t]
           s4 == [s3 EXCEPT !.forkedFrom[b] = t]
           s5 == [s4 EXCEPT !.head[b] = t]
           s6 == [s5 EXCEPT !.lastSettled[b] = t]
           s7 == [s6 EXCEPT !.active = b]
<1>1. ForkFrom(s, t, b) = s7 BY DEF ForkFrom
<1>2. s1 \in Store BY FieldUpdate, StoreFields
<1>0. s.on[t] \in Branches /\ t \in TurnRef BY StoreFields, TurnIds
<1> HIDE DEF s1
<1>3. s2 \in Store BY <1>0, <1>2, FieldUpdate, StoreFields
<1> HIDE DEF s2
<1>4. s3 \in Store BY <1>0, <1>3, FieldUpdate, StoreFields
<1> HIDE DEF s3
<1>5. s4 \in Store BY <1>0, <1>4, FieldUpdate, StoreFields
<1> HIDE DEF s4
<1>6. s5 \in Store BY <1>0, <1>5, FieldUpdate, StoreFields
<1> HIDE DEF s5
<1>7. s6 \in Store BY <1>0, <1>6, FieldUpdate, StoreFields
<1> HIDE DEF s6
<1>8. s7 \in Store BY <1>7, FieldUpdate
<1>9. QED BY <1>1, <1>8

\* switch_branch and delete_branch
LEMMA SwitchDeleteTyped ==
  ASSUME NEW s \in Store, NEW b \in Branches
  PROVE  Switch(s, b) \in Store /\ Delete(s, b) \in Store
<1>1. Switch(s, b) \in Store BY FieldUpdate DEF Switch
<1>2. s.deleted \cup {b} \in SUBSET Branches BY StoreFields
<1>3. Delete(s, b) \in Store BY <1>2, FieldUpdate DEF Delete
<1> QED BY <1>1, <1>3

\* rollback_to_turn
LEMMA RollbackToTyped ==
  ASSUME NEW s \in Store, NEW t \in Turns
  PROVE  RollbackTo(s, t) \in Store
<1> DEFINE b == s.active
           later == LaterTurns(s, b, t)
           s1 == [s EXCEPT !.hidden = @ \cup later]
           s2 == [s1 EXCEPT !.hiddenIds[b] = @ \cup later]
           s3 == [s2 EXCEPT !.head[b] = t]
           s4 == [s3 EXCEPT !.lastSettled[b] = t]
           s5 == [s4 EXCEPT !.forkedFrom[b] = IF s.on[t] = b THEN @ ELSE t]
<1>1. RollbackTo(s, t) = s5 BY DEF RollbackTo
<1>2. b \in Branches /\ t \in TurnRef BY StoreFields, TurnIds
<1>3. later \in SUBSET Turns BY TurnIds DEF LaterTurns
<1> HIDE DEF b, later
<1>4. s1 \in Store BY <1>3, FieldUpdate, StoreFields
<1> HIDE DEF s1
<1>5. s2 \in Store BY <1>2, <1>3, <1>4, FieldUpdate, StoreFields
<1> HIDE DEF s2
<1>6. s3 \in Store BY <1>2, <1>5, FieldUpdate, StoreFields
<1> HIDE DEF s3
<1>7. s4 \in Store BY <1>2, <1>6, FieldUpdate, StoreFields
<1> HIDE DEF s4
<1>8. s5 \in Store BY <1>2, <1>7, FieldUpdate, StoreFields
<1>9. QED BY <1>1, <1>8

-----------------------------------------------------------------------------
(* The store invariant.                                                    *)

\* The store of a new session is sound.
LEMMA FreshInv == StoreInv(FreshStore)
<1>1. FreshStore \in Store BY FreshTyped
<1>2. Created(FreshStore) = {} BY MaxTurnsAssumption DEF Created, FreshStore
<1>3. TurnStages(FreshStore) BY <1>2 DEF TurnStages, FreshStore
<1>4. ActiveBranchLive(FreshStore)
  BY DEF ActiveBranchLive, Switchable, FreshStore
<1>5. LineageChronological(FreshStore)
  BY <1>2, BranchAssumption DEF LineageChronological, FreshStore
<1>6. HiddenViewsAgree(FreshStore) BY <1>2 DEF HiddenViewsAgree, FreshStore
<1>7. HeadIsFrontier(FreshStore)
  BY <1>2, BranchAssumption DEF HeadIsFrontier, FreshStore
<1>8. AnchorIsLatestSettled(FreshStore)
  BY <1>2, BranchAssumption DEF AnchorIsLatestSettled, FreshStore
<1>12. FreshStore.deleted \subseteq FreshStore.made BY DEF FreshStore
<1>9. InheritedAnchor(FreshStore)
  BY BranchAssumption DEF InheritedAnchor, FreshStore
<1>10. ReviewHasPendingDraft(FreshStore)
  BY DEF ReviewHasPendingDraft, FreshStore
<1>11. QED
  BY <1>1, <1>3, <1>4, <1>5, <1>6, <1>7, <1>8, <1>9, <1>10, <1>12 DEF StoreInv

\* create_turn: the new turn is the youngest of all, so it is the frontier
\* of its branch and disturbs no anchor.
LEMMA CreateTurnInv ==
  ASSUME NEW s, StoreInv(s), NEW b \in Branches, Switchable(s, b),
         NEW cmd, s.turns < MaxTurns
  PROVE  LET n == CreateTurn(s, b, cmd)
             t == s.turns + 1
         IN  /\ StoreInv(n)
             /\ n.hidden = s.hidden
             /\ t \in Turns /\ t \in Created(n)
             /\ n.status[t] = "started" /\ t \notin n.hidden
<1> DEFINE n == CreateTurn(s, b, cmd)
           t == s.turns + 1
<1>0. s \in Store BY DEF StoreInv
<1>1. n \in Store BY <1>0, CreateTurnTyped
<1>2. /\ n.active = s.active /\ n.made = s.made /\ n.deleted = s.deleted
      /\ n.parent = s.parent /\ n.forkOrigin = s.forkOrigin
      /\ n.forkedFrom = s.forkedFrom
      /\ n.head = [s.head EXCEPT ![b] = t]
      /\ n.lastSettled = s.lastSettled /\ n.hiddenIds = s.hiddenIds
      /\ n.turns = t
      /\ n.on = [s.on EXCEPT ![t] = b]
      /\ n.status = [s.status EXCEPT ![t] = "started"]
      /\ n.hidden = s.hidden /\ n.job = s.job /\ n.art = s.art
      /\ n.bound = s.bound /\ n.pending = s.pending /\ n.phase = s.phase
  BY <1>0, SMT DEF CreateTurn, Store
<1>3. t \in Turns /\ s.turns \in Nat /\ t \notin Created(s)
  BY <1>0, TurnIds DEF Created
<1>4. Created(n) = Created(s) \cup {t} /\ \A u \in Created(s) : u < t
  BY <1>2, <1>3 DEF Created
<1>5. b \in s.made BY DEF Switchable
<1> USE StoreFields
<1> HIDE DEF n, t
<1>6. \A u \in Turns : u # t => n.on[u] = s.on[u] /\ n.status[u] = s.status[u]
  BY <1>0, <1>2
<1>7. n.on[t] = b /\ n.status[t] = "started" BY <1>0, <1>2, <1>3
<1>8. t \notin s.hidden /\ t \notin s.bound /\ s.art[t] = "none" /\ s.job[t] = "none"
  BY <1>3 DEF StoreInv, TurnStages
<1>9. Created(s) \subseteq Turns BY <1>0, TurnIds
<1>11. TurnStages(n)
  BY <1>2, <1>3, <1>4, <1>6, <1>7, <1>8
  DEF StoreInv, TurnStages, JobsTerminal
<1>12. ActiveBranchLive(n) BY <1>2 DEF StoreInv, ActiveBranchLive, Switchable
<1>13. LineageChronological(n)
  BY <1>2, <1>3, <1>4, <1>5, <1>6, <1>7, <1>9 DEF StoreInv, LineageChronological
<1>14. HiddenViewsAgree(n)
  BY <1>2, <1>4, <1>6, <1>8, <1>9, <1>3 DEF StoreInv, HiddenViewsAgree
<1>10. \A c \in s.made : c # b => n.head[c] = s.head[c]
  BY <1>0, <1>2
<1>21. n.head[b] = t /\ b \in Branches /\ s.made \subseteq Branches
  BY <1>0, <1>2
<1>15. HeadIsFrontier(n)
  <2> SUFFICES ASSUME NEW c \in n.made
               PROVE  LET h == n.head[c]
                      IN  /\ h # NoTurn
                           => /\ h \in Created(n)
                              /\ n.on[h] \in {c, n.parent[c]}
                              /\ (n.on[h] = c => h \notin n.hidden)
                          /\ \A u \in Created(n) :
                               n.on[u] = c /\ u \notin n.hidden
                                 => h # NoTurn /\ n.on[h] = c /\ u <= h
    BY DEF HeadIsFrontier
  <2>0. t # NoTurn /\ t \in Nat BY <1>3, <1>0, TurnIds DEF Turns
  <2>1. CASE c = b
    BY <2>0, <2>1, <1>2, <1>4, <1>7, <1>8, <1>9, <1>21 DEF Turns
  <2>2. CASE c # b
    BY <2>0, <2>2, <1>2, <1>3, <1>4, <1>6, <1>7, <1>9, <1>10
    DEF StoreInv, HeadIsFrontier
  <2>3. QED BY <2>1, <2>2
<1>16. AnchorIsLatestSettled(n)
  BY <1>2, <1>3, <1>4, <1>6, <1>7, <1>9 DEF StoreInv, AnchorIsLatestSettled
<1>17. InheritedAnchor(n)
  BY <1>2, <1>3, <1>4, <1>6, <1>9
  DEF StoreInv, AnchorIsLatestSettled, InheritedAnchor
<1>18. ReviewHasPendingDraft(n) BY <1>2 DEF StoreInv, ReviewHasPendingDraft
<1>19. StoreInv(n)
  BY <1>1, <1>2, <1>11, <1>12, <1>13, <1>14, <1>15, <1>16, <1>17, <1>18 DEF StoreInv
<1>20. QED BY <1>2, <1>3, <1>4, <1>7, <1>8, <1>19 DEF n, t

\* A step that finishes the output of a started turn and touches no branch.
LEMMA WriteTurnInv ==
  ASSUME NEW s, StoreInv(s), NEW t \in Turns, t \in Created(s),
         s.status[t] = "started", NEW n \in Store,
         /\ n.active = s.active /\ n.made = s.made /\ n.deleted = s.deleted
         /\ n.parent = s.parent /\ n.forkOrigin = s.forkOrigin
         /\ n.forkedFrom = s.forkedFrom /\ n.head = s.head
         /\ n.lastSettled = s.lastSettled /\ n.hiddenIds = s.hiddenIds
         /\ n.turns = s.turns /\ n.on = s.on /\ n.hidden = s.hidden,
         n.status = [s.status EXCEPT ![t] = "post_write_pending"],
         n.job = [s.job EXCEPT ![t] = "pending"],
         n.bound = s.bound \/ n.bound = s.bound \cup {t},
         \/ n.art = [s.art EXCEPT ![t] = "draft"]
         \/ n.art = [s.art EXCEPT ![t] = "message"],
         ReviewHasPendingDraft(n)
  PROVE  StoreInv(n)
<1> USE StoreFields
<1>0. s \in Store BY DEF StoreInv
<1>1. \A u \in Turns : u # t => /\ n.status[u] = s.status[u]
                                /\ n.job[u] = s.job[u]
                                /\ n.art[u] = s.art[u]
                                /\ u \in n.bound <=> u \in s.bound
  BY <1>0
<1>2. n.status[t] = "post_write_pending" /\ n.job[t] = "pending" 
      /\ n.art[t] \in {"draft", "message"}
  BY <1>0
<1>3. Created(n) = Created(s) /\ Created(s) \subseteq Turns
  BY <1>0, TurnIds DEF Created
<1>4. TurnStages(n)
  BY <1>1, <1>2, <1>3 DEF StoreInv, TurnStages, JobsTerminal
<1>5. ActiveBranchLive(n) BY DEF StoreInv, ActiveBranchLive, Switchable
<1>6. LineageChronological(n) BY <1>3 DEF StoreInv, LineageChronological
<1>7. HiddenViewsAgree(n) BY <1>3 DEF StoreInv, HiddenViewsAgree
<1>8. HeadIsFrontier(n) BY <1>3 DEF StoreInv, HeadIsFrontier
<1>9. AnchorIsLatestSettled(n)
  BY <1>1, <1>2, <1>3 DEF StoreInv, AnchorIsLatestSettled
<1>10. InheritedAnchor(n) BY DEF StoreInv, InheritedAnchor
<1>11. QED
  BY <1>4, <1>5, <1>6, <1>7, <1>8, <1>9, <1>10 DEF StoreInv

\* persist_generated_artifact
LEMMA PersistInv ==
  ASSUME NEW s, StoreInv(s), NEW t \in Turns, t \in Created(s),
         s.status[t] = "started", NEW cmd \in Command, NEW kind
  PROVE  LET n == Persist(s, t, cmd, kind)
         IN  StoreInv(n) /\ n.hidden = s.hidden
<1> DEFINE n == Persist(s, t, cmd, kind)
           p == EffectivePending(s)
           ph == EffectivePhase(s)
<1> USE StoreFields
<1>0. s \in Store BY DEF StoreInv
<1>1. n \in Store BY <1>0, PersistTyped
<1>2. s.art[t] = "none" /\ s.job[t] = "none"
  BY DEF StoreInv, TurnStages
<1>3. /\ n.active = s.active /\ n.made = s.made /\ n.deleted = s.deleted
      /\ n.parent = s.parent /\ n.forkOrigin = s.forkOrigin
      /\ n.forkedFrom = s.forkedFrom /\ n.head = s.head
      /\ n.lastSettled = s.lastSettled /\ n.hiddenIds = s.hiddenIds
      /\ n.turns = s.turns /\ n.on = s.on /\ n.hidden = s.hidden
  BY <1>0, SMT DEF Persist, UpdateStatus, EnsureJobs, BindOutput, PersistMessage,
                   PersistSegment, Store
<1>4. n.status = [s.status EXCEPT ![t] = "post_write_pending"]
  BY <1>0, SMT DEF Persist, UpdateStatus, EnsureJobs, BindOutput, PersistMessage,
                   PersistSegment, Store
<1>5. n.job = [s.job EXCEPT ![t] = "pending"]
  BY <1>0, <1>2, SMT DEF Persist, UpdateStatus, EnsureJobs, BindOutput,
                         PersistMessage, PersistSegment, Store
<1>6. n.bound = s.bound \/ n.bound = s.bound \cup {t}
  BY <1>0, SMT DEF Persist, UpdateStatus, EnsureJobs, BindOutput, PersistMessage,
                   PersistSegment, Store
<1>7. CASE kind = "message"
  <2>1. n.art = [s.art EXCEPT ![t] = "message"] /\ n.pending = p /\ n.phase = ph
    BY <1>0, <1>7, SMT DEF Persist, UpdateStatus, EnsureJobs, BindOutput,
                           PersistMessage, Store
  <2>2. ReviewHasPendingDraft(s) BY DEF StoreInv
  <2>3. ph = "segment_review" <=> p # NoTurn
    BY <2>2 DEF ReviewHasPendingDraft, EffectivePending, EffectivePhase
  <2>4. p # NoTurn => p \in Turns /\ s.art[p] = "draft" /\ p # t
    BY <1>0, <1>2, <2>2, VisibleIsCreated, TurnIds
    DEF ReviewHasPendingDraft, EffectivePending
  <2>5. ReviewHasPendingDraft(n)
    BY <1>0, <2>1, <2>3, <2>4 DEF ReviewHasPendingDraft
  <2> HIDE DEF n
  <2>6. StoreInv(n) BY <1>1, <1>3, <1>4, <1>5, <1>6, <2>1, <2>5, WriteTurnInv
  <2>7. QED BY <1>3, <2>6 DEF n
<1>8. CASE kind # "message"
  <2>1. n.art = [s.art EXCEPT ![t] = "draft"]
    BY <1>0, <1>8, SMT DEF Persist, UpdateStatus, EnsureJobs, BindOutput,
                           PersistSegment, Store
  <2>5. n.pending = t /\ n.phase = "segment_review"
    BY <1>0, <1>8, SMT DEF Persist, UpdateStatus, EnsureJobs, BindOutput,
                           PersistSegment, Store
  <2>2. ReviewHasPendingDraft(n)
    BY <1>0, <2>1, <2>5, TurnIds DEF ReviewHasPendingDraft
  <2> HIDE DEF n
  <2>3. StoreInv(n)
    BY <1>1, <1>3, <1>4, <1>5, <1>6, <2>1, <2>2, WriteTurnInv
  <2>4. QED BY <1>3, <2>3 DEF n
<1>9. QED BY <1>7, <1>8

\* On a sound store every adopted turn is settled already, so the
\* settle-on-demand of the branch controls changes nothing.
LEMMA SettleAdoptedNoop ==
  ASSUME NEW s, StoreInv(s), NEW t \in Turns
  PROVE  SettleAdopted(s, t) = s
  BY DEF StoreInv, TurnStages, SettleAdopted, Adoptable, AdoptionCandidate

\* switch_branch
LEMMA SwitchInv ==
  ASSUME NEW s, StoreInv(s), NEW b \in Branches, CanSwitch(s, b)
  PROVE  StoreInv(Switch(s, b)) /\ Switch(s, b).hidden = s.hidden
<1> DEFINE n == Switch(s, b)
<1>0. s \in Store BY DEF StoreInv
<1>1. n \in Store BY <1>0, SwitchDeleteTyped
<1>2. /\ n.active = b /\ n.made = s.made /\ n.deleted = s.deleted
      /\ n.parent = s.parent /\ n.forkOrigin = s.forkOrigin
      /\ n.forkedFrom = s.forkedFrom /\ n.head = s.head
      /\ n.lastSettled = s.lastSettled /\ n.hiddenIds = s.hiddenIds
      /\ n.turns = s.turns /\ n.on = s.on /\ n.status = s.status
      /\ n.hidden = s.hidden /\ n.job = s.job /\ n.art = s.art
      /\ n.bound = s.bound /\ n.pending = s.pending /\ n.phase = s.phase
  BY <1>0, SMT DEF Switch, Store
<1> HIDE DEF n
<1>3. ActiveBranchLive(n)
  BY <1>2 DEF StoreInv, ActiveBranchLive, CanSwitch, Switchable
<1>4. Created(n) = Created(s) BY <1>2 DEF Created
<1>5. QED
  BY <1>1, <1>2, <1>3, <1>4
  DEF StoreInv, TurnStages, JobsTerminal, LineageChronological, HiddenViewsAgree,
      HeadIsFrontier, AnchorIsLatestSettled, InheritedAnchor,
      ReviewHasPendingDraft, n

\* delete_branch
LEMMA DeleteInv ==
  ASSUME NEW s, StoreInv(s), NEW b \in Branches, CanDelete(s, b)
  PROVE  StoreInv(Delete(s, b)) /\ Delete(s, b).hidden = s.hidden
<1> DEFINE n == Delete(s, b)
<1>0. s \in Store BY DEF StoreInv
<1>1. n \in Store BY <1>0, SwitchDeleteTyped
<1>2. /\ n.active = s.active /\ n.made = s.made /\ n.deleted = s.deleted \cup {b}
      /\ n.parent = s.parent /\ n.forkOrigin = s.forkOrigin
      /\ n.forkedFrom = s.forkedFrom /\ n.head = s.head
      /\ n.lastSettled = s.lastSettled /\ n.hiddenIds = s.hiddenIds
      /\ n.turns = s.turns /\ n.on = s.on /\ n.status = s.status
      /\ n.hidden = s.hidden /\ n.job = s.job /\ n.art = s.art
      /\ n.bound = s.bound /\ n.pending = s.pending /\ n.phase = s.phase
  BY <1>0, SMT DEF Delete, Store
<1> HIDE DEF n
<1>3. ActiveBranchLive(n)
  BY <1>2 DEF StoreInv, ActiveBranchLive, CanDelete, Switchable
<1>4. Created(n) = Created(s) BY <1>2 DEF Created
<1>5. QED
  BY <1>1, <1>2, <1>3, <1>4
  DEF StoreInv, TurnStages, JobsTerminal, LineageChronological, HiddenViewsAgree,
      HeadIsFrontier, AnchorIsLatestSettled, InheritedAnchor,
      ReviewHasPendingDraft, CanDelete, n

\* create_branch_from_turn: the new branch has no turn of its own, its head,
\* anchor and fork point are the clicked turn of its parent.
LEMMA ForkInv ==
  ASSUME NEW s, StoreInv(s), NEW t \in Turns, NEW b \in Branches,
         b \notin s.made, CanFork(s, t)
  PROVE  StoreInv(Fork(s, t, b)) /\ Fork(s, t, b).hidden = s.hidden
<1> DEFINE n == ForkFrom(s, t, b)
<1>0. s \in Store /\ SettleAdopted(s, t) = s
  BY SettleAdoptedNoop DEF StoreInv
<1>1. n \in Store BY <1>0, ForkFromTyped
<1>2. /\ n.active = b /\ n.made = s.made \cup {b} /\ n.deleted = s.deleted
      /\ n.parent = [s.parent EXCEPT ![b] = s.on[t]]
      /\ n.forkOrigin = [s.forkOrigin EXCEPT ![b] = t]
      /\ n.forkedFrom = [s.forkedFrom EXCEPT ![b] = t]
      /\ n.head = [s.head EXCEPT ![b] = t]
      /\ n.lastSettled = [s.lastSettled EXCEPT ![b] = t]
      /\ n.hiddenIds = s.hiddenIds
      /\ n.turns = s.turns /\ n.on = s.on /\ n.status = s.status
      /\ n.hidden = s.hidden /\ n.job = s.job /\ n.art = s.art
      /\ n.bound = s.bound /\ n.pending = s.pending /\ n.phase = s.phase
  BY <1>0, SMT DEF ForkFrom, Store
<1> HIDE DEF n
<1> USE StoreFields
<1>3. /\ t \in Created(s) /\ t \notin s.hidden /\ s.status[t] = "settled"
      /\ Created(n) = Created(s) /\ t # NoTurn /\ t \in Nat
  BY <1>0, <1>2, TurnIds DEF CanFork, HiddenByRollback, Created, Turns
<1>4. \A c \in Branches : c # b =>
        /\ n.parent[c] = s.parent[c] /\ n.forkOrigin[c] = s.forkOrigin[c]
        /\ n.forkedFrom[c] = s.forkedFrom[c] /\ n.head[c] = s.head[c]
        /\ n.lastSettled[c] = s.lastSettled[c]
  BY <1>0, <1>2
<1>5. /\ n.parent[b] = s.on[t] /\ n.forkOrigin[b] = t /\ n.forkedFrom[b] = t
      /\ n.head[b] = t /\ n.lastSettled[b] = t
  BY <1>0, <1>2
<1>6. s.on[t] \in s.made /\ s.on[t] # None /\ s.on[t] # b
      /\ \A u \in Created(s) : s.on[u] # b
  BY <1>0, <1>3, BranchAssumption DEF StoreInv, LineageChronological
<1>7. \A c \in n.made : c \in Branches /\ (c # b => c \in s.made)
  BY <1>0, <1>1, <1>2
<1>8. TurnStages(n) BY <1>2, <1>3 DEF StoreInv, TurnStages, JobsTerminal
<1>9. b \notin s.deleted /\ n.deleted \subseteq n.made BY <1>2 DEF StoreInv
<1>10. ActiveBranchLive(n)
  BY <1>2, <1>9 DEF StoreInv, ActiveBranchLive, Switchable
<1>11. LineageChronological(n)
  BY <1>2, <1>3, <1>4, <1>5, <1>6, <1>7 DEF StoreInv, LineageChronological
<1>12. HiddenViewsAgree(n) BY <1>2, <1>3 DEF StoreInv, HiddenViewsAgree
<1>13. HeadIsFrontier(n)
  BY <1>2, <1>3, <1>4, <1>5, <1>6, <1>7 DEF StoreInv, HeadIsFrontier
<1>14. AnchorIsLatestSettled(n)
  BY <1>2, <1>3, <1>4, <1>5, <1>6, <1>7 DEF StoreInv, AnchorIsLatestSettled
<1>15. InheritedAnchor(n)
  BY <1>2, <1>4, <1>5, <1>7 DEF StoreInv, InheritedAnchor
<1>16. ReviewHasPendingDraft(n) BY <1>2 DEF StoreInv, ReviewHasPendingDraft
<1>17. StoreInv(n)
  BY <1>1, <1>8, <1>9, <1>10, <1>11, <1>12, <1>13, <1>14, <1>15, <1>16 DEF StoreInv
<1>18. QED BY <1>0, <1>2, <1>17 DEF Fork, n

\* rollback_to_turn: the target becomes head and anchor, every later turn of
\* the branch is hidden, and the fork point follows a target on the parent.
LEMMA RollbackInv ==
  ASSUME NEW s, StoreInv(s), NEW t \in Turns, CanRollback(s, t)
  PROVE  StoreInv(Rollback(s, t)) /\ s.hidden \subseteq Rollback(s, t).hidden
<1> DEFINE b == s.active
           later == LaterTurns(s, b, t)
           n == RollbackTo(s, t)
<1>0. s \in Store /\ SettleAdopted(s, t) = s
  BY SettleAdoptedNoop DEF StoreInv
<1>1. n \in Store BY <1>0, RollbackToTyped
<1>2. /\ n.active = s.active /\ n.made = s.made /\ n.deleted = s.deleted
      /\ n.parent = s.parent /\ n.forkOrigin = s.forkOrigin
      /\ n.forkedFrom = [s.forkedFrom EXCEPT ![b] = IF s.on[t] = b THEN @ ELSE t]
      /\ n.head = [s.head EXCEPT ![b] = t]
      /\ n.lastSettled = [s.lastSettled EXCEPT ![b] = t]
      /\ n.hiddenIds = [s.hiddenIds EXCEPT ![b] = @ \cup later]
      /\ n.turns = s.turns /\ n.on = s.on /\ n.status = s.status
      /\ n.hidden = s.hidden \cup later /\ n.job = s.job /\ n.art = s.art
      /\ n.bound = s.bound /\ n.pending = s.pending /\ n.phase = s.phase
  BY <1>0, SMT DEF RollbackTo, Store
<1>3. /\ t \in Created(s) /\ t \notin s.hidden /\ s.status[t] = "settled"
      /\ s.on[t] = b \/ OnParentLineage(s, b, t)
      /\ t # NoTurn /\ t \in Nat /\ b \in s.made /\ b \in Branches
  BY <1>0, TurnIds, StoreFields
  DEF CanRollback, HiddenByRollback, Switchable, Turns
<1>4. /\ later \subseteq Created(s)
      /\ \A u \in later : s.on[u] = b /\ (s.on[t] = b => u > t)
      /\ \A u \in Created(s) \ later : s.on[u] = b => s.on[t] = b /\ u <= t
      /\ t \notin later
  BY <1>0, <1>3, TurnIds DEF LaterTurns, Turns
<1>5. Created(n) = Created(s) /\ Created(s) \subseteq Turns
  BY <1>0, <1>2, TurnIds DEF Created
<1> HIDE DEF n, later, b
<1> USE StoreFields
<1>6. \A c \in Branches : c # b =>
        /\ n.forkedFrom[c] = s.forkedFrom[c] /\ n.head[c] = s.head[c]
        /\ n.lastSettled[c] = s.lastSettled[c]
        /\ n.hiddenIds[c] = s.hiddenIds[c]
  BY <1>0, <1>2
<1>7. /\ n.head[b] = t /\ n.lastSettled[b] = t
      /\ n.hiddenIds[b] = s.hiddenIds[b] \cup later
      /\ n.forkedFrom[b] = IF s.on[t] = b THEN s.forkedFrom[b] ELSE t
  BY <1>0, <1>2, <1>3
<1>8. s.made \subseteq Branches BY <1>0
<1>9. s.on[t] # b => /\ s.parent[b] # None /\ s.on[t] = s.parent[b]
                     /\ t <= s.forkOrigin[b]
  <2>1. ASSUME s.on[t] # b
        PROVE  /\ s.parent[b] # None /\ s.on[t] = s.parent[b]
               /\ t = s.forkOrigin[b] \/ t <= s.forkedFrom[b]
    BY <2>1, <1>3 DEF OnParentLineage
  <2>2. s.parent[b] # None
          => /\ s.forkedFrom[b] <= s.forkOrigin[b]
             /\ s.forkOrigin[b] \in Created(s) /\ s.forkedFrom[b] \in Created(s)
    BY <1>3 DEF StoreInv, LineageChronological
  <2>3. QED BY <2>1, <2>2, <1>3, <1>5 DEF Turns
<1>10. TurnStages(n)
  BY <1>2, <1>4, <1>5 DEF StoreInv, TurnStages, JobsTerminal
<1>11. ActiveBranchLive(n) BY <1>2 DEF StoreInv, ActiveBranchLive, Switchable
<1>12. LineageChronological(n)
  BY <1>2, <1>3, <1>5, <1>6, <1>7, <1>8, <1>9 DEF StoreInv, LineageChronological
<1>13. HiddenViewsAgree(n)
  BY <1>2, <1>4, <1>5, <1>6, <1>7 DEF StoreInv, HiddenViewsAgree
<1>14. HeadIsFrontier(n)
  <2>1. ASSUME NEW c \in n.made
        PROVE  LET h == n.head[c]
               IN  /\ h # NoTurn
                       => /\ h \in Created(n)
                          /\ n.on[h] \in {c, n.parent[c]}
                          /\ (n.on[h] = c => h \notin n.hidden)
                   /\ \A u \in Created(n) :
                        n.on[u] = c /\ u \notin n.hidden
                          => h # NoTurn /\ n.on[h] = c /\ u <= h
    <3>1. CASE c = b BY <3>1, <1>2, <1>3, <1>4, <1>5, <1>7, <1>9
    <3>2. CASE c # b
      BY <3>2, <1>2, <1>4, <1>5, <1>6, <1>8 DEF StoreInv, HeadIsFrontier
    <3>3. QED BY <3>1, <3>2
  <2>2. QED BY <2>1 DEF HeadIsFrontier
<1>15. AnchorIsLatestSettled(n)
  <2>1. ASSUME NEW c \in n.made
        PROVE  LET a == n.lastSettled[c]
               IN  /\ a # NoTurn
                       => /\ a \in Created(n)
                          /\ n.on[a] \in {c, n.parent[c]}
                          /\ n.status[a] = "settled"
                          /\ (n.on[a] = c => a \notin n.hidden)
                   /\ \A u \in Created(n) :
                        n.on[u] = c /\ u \notin n.hidden /\ n.status[u] = "settled"
                          => a # NoTurn /\ n.on[a] = c /\ u <= a
    <3>1. CASE c = b BY <3>1, <1>2, <1>3, <1>4, <1>5, <1>7, <1>9
    <3>2. CASE c # b
      BY <3>2, <1>2, <1>4, <1>5, <1>6, <1>8 DEF StoreInv, AnchorIsLatestSettled
    <3>3. QED BY <3>1, <3>2
  <2>2. QED BY <2>1 DEF AnchorIsLatestSettled
<1>16. InheritedAnchor(n)
  BY <1>2, <1>6, <1>7, <1>8 DEF StoreInv, InheritedAnchor
<1>17. ReviewHasPendingDraft(n) BY <1>2 DEF StoreInv, ReviewHasPendingDraft
<1>18. StoreInv(n)
  BY <1>1, <1>2, <1>10, <1>11, <1>12, <1>13, <1>14, <1>15, <1>16, <1>17
  DEF StoreInv
<1>19. QED BY <1>0, <1>2, <1>18 DEF Rollback, n

\* Settling an adopted turn never moves the head of its branch: the turn is
\* visible, so the head is at or beyond it and visible as well.
LEMMA HeadStays ==
  ASSUME NEW s, StoreInv(s), NEW t \in Turns, t \in Created(s), t \notin s.hidden,
         NEW k, k.head = s.head, k.hidden = s.hidden, k.on = s.on,
         k.hiddenIds = s.hiddenIds, AdvancesHead(k, t)
  PROVE  s.head[s.on[t]] = t
<1> DEFINE b == s.on[t]
           u == s.head[b]
<1>0. s \in Store BY DEF StoreInv
<1>1. b \in s.made BY DEF StoreInv, LineageChronological
<1>2. /\ u # NoTurn /\ u \in Created(s) /\ s.on[u] = b /\ t <= u
      /\ u \notin s.hidden
  BY <1>1 DEF StoreInv, HeadIsFrontier
<1>3. ~ HiddenByRollback(k, k.on[u], u)
  BY <1>0, <1>2, StoreFields DEF HiddenByRollback, StoreInv, HiddenViewsAgree
<1>4. u <= t BY <1>2, <1>3 DEF AdvancesHead
<1>5. u \in Nat /\ t \in Nat BY <1>0, <1>2, TurnIds DEF Turns
<1>6. QED BY <1>2, <1>4, <1>5

\* An anchor younger than a turn of its branch is on that branch.
LEMMA YoungAnchorIsOwn ==
  ASSUME NEW s, StoreInv(s), NEW t \in Turns, t \in Created(s),
         s.lastSettled[s.on[t]] # NoTurn, ~ (s.lastSettled[s.on[t]] <= t)
  PROVE  s.on[s.lastSettled[s.on[t]]] = s.on[t]
<1> DEFINE b == s.on[t]
           a == s.lastSettled[b]
<1> SUFFICES ASSUME s.on[a] # b PROVE FALSE OBVIOUS
<1>0. s \in Store BY DEF StoreInv
<1>1. b \in s.made /\ b \in Branches
  BY <1>0, StoreFields DEF StoreInv, LineageChronological
<1>2. a \in Created(s) /\ s.on[a] = s.parent[b] /\ s.on[a] # None
  BY <1>0, <1>1, TurnIds, StoreFields, BranchAssumption
  DEF StoreInv, AnchorIsLatestSettled
<1>3. a = s.forkedFrom[b] BY <1>1 DEF StoreInv, InheritedAnchor
<1>4. a <= s.forkOrigin[b] /\ s.forkOrigin[b] \in Created(s) /\ t > s.forkOrigin[b]
  BY <1>1, <1>2, <1>3 DEF StoreInv, LineageChronological
<1>5. a \in Nat /\ t \in Nat /\ s.forkOrigin[b] \in Nat
  BY <1>0, <1>2, <1>4, TurnIds DEF Turns
<1>6. QED BY <1>4, <1>5

\* The fields of the store after accept_pending_segment, when the target is
\* a draft or a superseded candidate: its turn settles in place.
LEMMA AcceptDraft ==
  ASSUME NEW s, StoreInv(s), NEW t \in AcceptTargets(s),
         s.art[t] \in {"draft", "superseded"}
  PROVE  LET n == AcceptSegment(s, t)
         IN  /\ n.active = s.active /\ n.made = s.made /\ n.deleted = s.deleted
             /\ n.parent = s.parent /\ n.forkOrigin = s.forkOrigin
             /\ n.forkedFrom = s.forkedFrom /\ n.head = s.head
             /\ n.hiddenIds = s.hiddenIds
             /\ n.turns = s.turns /\ n.on = s.on /\ n.hidden = s.hidden /\ n.telling = s.telling
             /\ n.status[t] = "settled" /\ n.job[t] = "deferred"
             /\ \A v \in Turns \ {t} : /\ n.status[v] = s.status[v]
                                      /\ n.job[v] = s.job[v]
             /\ n.bound = s.bound \cup {t}
             /\ n.art = AdoptArtifact(s, t).art
             /\ n.phase = "segment_drafting" /\ n.pending = NoTurn
             /\ n.lastSettled[s.on[t]] = IF ReplacesLastSettled(s, t)
                                         THEN t ELSE s.lastSettled[s.on[t]]
             /\ \A c \in Branches \ {s.on[t]} :
                  n.lastSettled[c] = s.lastSettled[c]
<1> DEFINE a == AdoptArtifact(s, t)
           o == BindAccepted(a, t)
           k == CloseJobs(o, t, "deferred")
           d == SettleInPlace(k, t)
<1> USE StoreFields
<1>0. s \in Store BY DEF StoreInv
<1>1. t \in Created(s) /\ t \in Turns /\ t \notin s.hidden
  BY <1>0, VisibleIsCreated, TurnIds DEF AcceptTargets
<1>2. s.status[t] = "post_write_pending" /\ s.job[t] = "pending"
  BY <1>1 DEF StoreInv, TurnStages
<1>3. a = [s EXCEPT !.art = a.art] /\ a.art[t] = "accepted"
  BY <1>0, <1>1, SMT DEF AdoptArtifact, Store
<1>4. a \in Store BY <1>0, <1>1, AdoptArtifactTyped
<1>5. ~ HiddenByRollback(s, s.on[t], t)
  BY <1>0, <1>1 DEF HiddenByRollback, StoreInv, HiddenViewsAgree
<1> DEFINE f == a.art
<1> HIDE DEF a, f
<1>6. ~ HiddenByRollback(a, a.on[t], t)
  BY <1>0, <1>3, <1>5, SMT DEF HiddenByRollback, Store
<1>7. o = [a EXCEPT !.bound = a.bound \cup {t}] BY <1>6 DEF BindAccepted
<1>8. o \in Store BY <1>1, <1>4, BindTyped
<1>9. /\ o.active = s.active /\ o.made = s.made /\ o.deleted = s.deleted
      /\ o.parent = s.parent /\ o.forkOrigin = s.forkOrigin
      /\ o.forkedFrom = s.forkedFrom /\ o.head = s.head
      /\ o.lastSettled = s.lastSettled /\ o.hiddenIds = s.hiddenIds
      /\ o.turns = s.turns /\ o.on = s.on /\ o.status = s.status
      /\ o.hidden = s.hidden /\ o.telling = s.telling /\ o.job = s.job
      /\ o.bound = s.bound \cup {t} /\ o.art = a.art
  BY <1>0, <1>3, <1>4, <1>7, SMT DEF Store
<1> HIDE DEF o
<1>10. Adoptable(o, t)
  <2>1. ~ HiddenByRollback(o, o.on[t], t)
    BY <1>5, <1>9 DEF HiddenByRollback
  <2>2. QED BY <1>2, <1>3, <1>9, <2>1 DEF Adoptable, AdoptionCandidate
<1>11. SettleAdopted(o, t) = d BY <1>10 DEF SettleAdopted
<1>12. /\ k.active = o.active /\ k.made = o.made /\ k.deleted = o.deleted
       /\ k.parent = o.parent /\ k.forkOrigin = o.forkOrigin
       /\ k.forkedFrom = o.forkedFrom /\ k.head = o.head
       /\ k.lastSettled = o.lastSettled /\ k.hiddenIds = o.hiddenIds
       /\ k.turns = o.turns /\ k.on = o.on /\ k.status = o.status
       /\ k.hidden = o.hidden /\ k.telling = o.telling /\ k.bound = o.bound /\ k.art = o.art
       /\ k.job = [o.job EXCEPT ![t] = IF @ = "pending" THEN "deferred" ELSE @]
  BY <1>8, SMT DEF CloseJobs, Store
<1>13. k \in Store BY <1>1, <1>8, CloseJobsTyped DEF JobStatus
<1>14. /\ k.active = s.active /\ k.made = s.made /\ k.deleted = s.deleted
       /\ k.parent = s.parent /\ k.forkOrigin = s.forkOrigin
       /\ k.forkedFrom = s.forkedFrom /\ k.head = s.head
       /\ k.lastSettled = s.lastSettled /\ k.hiddenIds = s.hiddenIds
       /\ k.turns = s.turns /\ k.on = s.on /\ k.status = s.status
       /\ k.hidden = s.hidden /\ k.telling = s.telling /\ k.job = [s.job EXCEPT ![t] = "deferred"]
       /\ k.bound = s.bound \cup {t} /\ k.art = a.art
  BY <1>2, <1>9, <1>12
<1> HIDE DEF k
<1>15. ReplacesLastSettled(k, t) <=> ReplacesLastSettled(s, t)
  BY <1>14 DEF ReplacesLastSettled
<1>16. AdvancesHead(k, t) => s.head[s.on[t]] = t
  BY <1>1, <1>14, HeadStays
<1>17. d \in Store BY <1>1, <1>13, SettleInPlaceTyped
<1>18. /\ d.active = k.active /\ d.made = k.made /\ d.deleted = k.deleted
       /\ d.parent = k.parent /\ d.forkOrigin = k.forkOrigin
       /\ d.forkedFrom = k.forkedFrom
       /\ d.hiddenIds = k.hiddenIds /\ d.turns = k.turns /\ d.on = k.on
       /\ d.status = [k.status EXCEPT ![t] = "settled"]
       /\ d.hidden = k.hidden \ {t} /\ d.telling = k.telling /\ d.job = k.job
       /\ d.bound = k.bound /\ d.art = k.art
       /\ d.head = [k.head EXCEPT ![k.on[t]] = IF AdvancesHead(k, t) THEN t ELSE @]
       /\ d.lastSettled = [k.lastSettled EXCEPT ![k.on[t]] =
                             IF ReplacesLastSettled(k, t) THEN t ELSE @]
  BY <1>13, SMT DEF SettleInPlace, Store
<1> HIDE DEF d
<1>19. d.head = s.head BY <1>0, <1>14, <1>16, <1>18
<1>20. d.hidden = s.hidden /\ d.telling = s.telling BY <1>1, <1>14, <1>18
<1>21. AcceptSegment(s, t) = [d EXCEPT !.phase = "segment_drafting", !.pending = NoTurn]
  BY <1>11 DEF AcceptSegment, BackToDrafting, a, o
<1>22. d.status = [s.status EXCEPT ![t] = "settled"] BY <1>14, <1>18
<1>24. /\ ReplacesLastSettled(s, t)
            => d.lastSettled = [s.lastSettled EXCEPT ![s.on[t]] = t]
       /\ ~ ReplacesLastSettled(s, t) => d.lastSettled = s.lastSettled
  BY <1>0, <1>14, <1>15, <1>18
<1> DEFINE n == AcceptSegment(s, t)
<1>25. /\ n.active = d.active /\ n.made = d.made /\ n.deleted = d.deleted
       /\ n.parent = d.parent /\ n.forkOrigin = d.forkOrigin
       /\ n.forkedFrom = d.forkedFrom /\ n.head = d.head
       /\ n.lastSettled = d.lastSettled /\ n.hiddenIds = d.hiddenIds
       /\ n.turns = d.turns /\ n.on = d.on /\ n.status = d.status
       /\ n.hidden = d.hidden /\ n.telling = d.telling /\ n.job = d.job /\ n.bound = d.bound
       /\ n.art = d.art /\ n.phase = "segment_drafting" /\ n.pending = NoTurn
  BY <1>17, <1>21, SMT DEF Store
<1> HIDE DEF n
<1>26. n.status[t] = "settled" /\ n.job[t] = "deferred"
  BY <1>0, <1>1, <1>14, <1>18, <1>22, <1>25
<1>27. \A v \in Turns \ {t} : n.status[v] = s.status[v] /\ n.job[v] = s.job[v]
  BY <1>0, <1>1, <1>14, <1>18, <1>22, <1>25
<1>28. s.on[t] \in Branches BY <1>0, <1>1
<1>29. /\ n.lastSettled[s.on[t]] = IF ReplacesLastSettled(s, t)
                                   THEN t ELSE s.lastSettled[s.on[t]]
       /\ \A c \in Branches \ {s.on[t]} : n.lastSettled[c] = s.lastSettled[c]
  BY <1>0, <1>24, <1>25, <1>28
<1>23. QED
  BY <1>14, <1>18, <1>19, <1>20, <1>25, <1>26, <1>27, <1>29 DEF n, a

\* ... when the target is a message or is accepted already: no turn settles.
LEMMA AcceptOther ==
  ASSUME NEW s, StoreInv(s), NEW t \in AcceptTargets(s),
         s.art[t] \in {"message", "accepted"}
  PROVE  LET n == AcceptSegment(s, t)
         IN  /\ n.active = s.active /\ n.made = s.made /\ n.deleted = s.deleted
             /\ n.parent = s.parent /\ n.forkOrigin = s.forkOrigin
             /\ n.forkedFrom = s.forkedFrom /\ n.head = s.head
             /\ n.lastSettled = s.lastSettled /\ n.hiddenIds = s.hiddenIds
             /\ n.turns = s.turns /\ n.on = s.on /\ n.hidden = s.hidden /\ n.telling = s.telling
             /\ n.status = s.status /\ n.job = s.job
             /\ n.bound = s.bound \cup {t}
             /\ n.art = AdoptArtifact(s, t).art
             /\ n.phase = "segment_drafting" /\ n.pending = NoTurn
<1> DEFINE a == AdoptArtifact(s, t)
           o == BindAccepted(a, t)
<1> USE StoreFields
<1>0. s \in Store BY DEF StoreInv
<1>1. t \in Created(s) /\ t \in Turns /\ t \notin s.hidden
  BY <1>0, VisibleIsCreated, TurnIds DEF AcceptTargets
<1>2. s.art[t] = "accepted" => s.status[t] = "settled"
  BY <1>1 DEF StoreInv, TurnStages
<1>3. a = [s EXCEPT !.art = a.art]
  BY <1>0, <1>1, SMT DEF AdoptArtifact, Store
<1>13. s.art[t] = "message" => a.art[t] = "message"
  BY <1>0, <1>1, SMT DEF AdoptArtifact, Store
<1>4. a \in Store BY <1>0, <1>1, AdoptArtifactTyped
<1>5. ~ HiddenByRollback(s, s.on[t], t)
  BY <1>0, <1>1 DEF HiddenByRollback, StoreInv, HiddenViewsAgree
<1> HIDE DEF a
<1>6. ~ HiddenByRollback(a, a.on[t], t)
  BY <1>0, <1>3, <1>5, SMT DEF HiddenByRollback, Store
<1>7. o = [a EXCEPT !.bound = a.bound \cup {t}] BY <1>6 DEF BindAccepted
<1>8. o \in Store BY <1>1, <1>4, BindTyped
<1>9. /\ o.active = s.active /\ o.made = s.made /\ o.deleted = s.deleted
      /\ o.parent = s.parent /\ o.forkOrigin = s.forkOrigin
      /\ o.forkedFrom = s.forkedFrom /\ o.head = s.head
      /\ o.lastSettled = s.lastSettled /\ o.hiddenIds = s.hiddenIds
      /\ o.turns = s.turns /\ o.on = s.on /\ o.status = s.status
      /\ o.hidden = s.hidden /\ o.telling = s.telling /\ o.job = s.job
      /\ o.bound = s.bound \cup {t} /\ o.art = a.art
  BY <1>0, <1>3, <1>4, <1>7, SMT DEF Store
<1> HIDE DEF o
<1>10. ~ Adoptable(o, t)
  BY <1>2, <1>9, <1>13 DEF Adoptable, AdoptionCandidate
<1>11. AcceptSegment(s, t) = [o EXCEPT !.phase = "segment_drafting", !.pending = NoTurn]
  BY <1>10 DEF AcceptSegment, SettleAdopted, BackToDrafting, a, o
<1>12. QED BY <1>8, <1>9, <1>11, SMT DEF Store, a

\* accept_pending_segment up to its first await
LEMMA AcceptInv ==
  ASSUME NEW s, StoreInv(s), NEW t \in AcceptTargets(s)
  PROVE  LET n == AcceptSegment(s, t)
         IN  StoreInv(n) /\ n.hidden = s.hidden
<1> DEFINE n == AcceptSegment(s, t)
           f == AdoptArtifact(s, t).art
           b == s.on[t]
<1> USE StoreFields
<1>0. s \in Store BY DEF StoreInv
<1>1. t \in Created(s) /\ t \in Turns /\ t \notin s.hidden /\ s.art[t] # "none"
  BY <1>0, VisibleIsCreated, TurnIds DEF AcceptTargets
<1>2. n \in Store BY <1>0, <1>1, AcceptSegmentTyped
<1>3. /\ f = [u \in Turns |->
                IF u = t
                THEN IF s.art[t] = "message" THEN "message" ELSE "accepted"
                ELSE IF u \in VisibleTurns(s) /\ s.art[u] = "draft"
                     THEN "superseded" ELSE s.art[u]]
  BY <1>0, SMT DEF AdoptArtifact, Store
<1>4. /\ s.art[t] = "message" => f[t] = "message"
      /\ s.art[t] # "message" => f[t] = "accepted"
      /\ \A u \in Turns : u # t
           => f[u] = s.art[u] \/ (s.art[u] = "draft" /\ f[u] = "superseded")
  BY <1>1, <1>3
<1>5. b \in s.made /\ b \in Branches /\ s.made \subseteq Branches
  BY <1>0, <1>1 DEF StoreInv, LineageChronological
<1>6. Created(s) \subseteq Turns /\ \A u \in Turns : u # NoTurn /\ u \in Nat
  BY <1>0, TurnIds DEF Turns
<1> HIDE DEF n, f
<1>7. CASE s.art[t] \in {"draft", "superseded"}
  <2>1. /\ n.active = s.active /\ n.made = s.made /\ n.deleted = s.deleted
        /\ n.parent = s.parent /\ n.forkOrigin = s.forkOrigin
        /\ n.forkedFrom = s.forkedFrom /\ n.head = s.head
        /\ n.hiddenIds = s.hiddenIds
        /\ n.turns = s.turns /\ n.on = s.on /\ n.hidden = s.hidden
        /\ n.bound = s.bound \cup {t} /\ n.art = f
        /\ n.phase = "segment_drafting" /\ n.pending = NoTurn
    BY <1>7, AcceptDraft DEF n, f
  <2>16. /\ n.status[t] = "settled" /\ n.job[t] = "deferred"
         /\ \A v \in Turns \ {t} : /\ n.status[v] = s.status[v]
                                  /\ n.job[v] = s.job[v]
    BY <1>7, AcceptDraft DEF n
  <2>17. /\ n.lastSettled[b] = IF ReplacesLastSettled(s, t)
                               THEN t ELSE s.lastSettled[b]
         /\ \A c \in Branches \ {b} : n.lastSettled[c] = s.lastSettled[c]
    BY <1>7, AcceptDraft DEF n
  <2>2. Created(n) = Created(s) BY <2>1 DEF Created
  <2>3. /\ n.status[t] = "settled" /\ n.job[t] = "deferred" /\ t \in n.bound
        /\ n.art[t] = "accepted"
        /\ \A u \in Turns : u # t => /\ n.status[u] = s.status[u]
                                     /\ n.job[u] = s.job[u]
                                     /\ u \in n.bound <=> u \in s.bound
    BY <1>0, <1>1, <1>4, <1>7, <2>1, <2>16
  <2>4. \A c \in Branches : c # b => n.lastSettled[c] = s.lastSettled[c]
    BY <2>17
  <2>5. TurnStages(n)
    BY <1>1, <1>4, <2>1, <2>2, <2>3 DEF StoreInv, TurnStages, JobsTerminal
  <2>6. ActiveBranchLive(n) BY <2>1 DEF StoreInv, ActiveBranchLive, Switchable
  <2>7. LineageChronological(n)
    BY <2>1, <2>2 DEF StoreInv, LineageChronological
  <2>8. HiddenViewsAgree(n) BY <2>1, <2>2 DEF StoreInv, HiddenViewsAgree
  <2>9. HeadIsFrontier(n) BY <2>1, <2>2 DEF StoreInv, HeadIsFrontier
  <2>10. \/ n.lastSettled[b] = t /\ (s.lastSettled[b] = NoTurn
                                     \/ s.lastSettled[b] <= t)
         \/ /\ n.lastSettled[b] = s.lastSettled[b]
            /\ s.lastSettled[b] # NoTurn
            /\ ~ (s.lastSettled[b] <= t)
            /\ s.on[s.lastSettled[b]] = b
    <3>1. s.lastSettled[b] # NoTurn => s.status[s.lastSettled[b]] = "settled"
      BY <1>5 DEF StoreInv, AnchorIsLatestSettled
    <3>2. CASE ReplacesLastSettled(s, t)
      BY <3>1, <3>2, <1>0, <1>5, <2>17 DEF ReplacesLastSettled
    <3>3. CASE ~ ReplacesLastSettled(s, t)
      BY <3>3, <1>0, <1>1, <1>5, <2>17, YoungAnchorIsOwn DEF ReplacesLastSettled
    <3>4. QED BY <3>2, <3>3
  <2>11. AnchorIsLatestSettled(n)
    <3>1. ASSUME NEW c \in n.made
          PROVE  LET a == n.lastSettled[c]
                 IN  /\ a # NoTurn
                         => /\ a \in Created(n)
                            /\ n.on[a] \in {c, n.parent[c]}
                            /\ n.status[a] = "settled"
                            /\ (n.on[a] = c => a \notin n.hidden)
                     /\ \A u \in Created(n) :
                          n.on[u] = c /\ u \notin n.hidden /\ n.status[u] = "settled"
                            => a # NoTurn /\ n.on[a] = c /\ u <= a
      <4>1. CASE c = b /\ n.lastSettled[b] = t
        BY <4>1, <1>1, <1>5, <1>6, <2>1, <2>2, <2>3, <2>10
        DEF StoreInv, AnchorIsLatestSettled
      <4>2. CASE c = b /\ n.lastSettled[b] # t
        BY <4>2, <1>1, <1>5, <1>6, <2>1, <2>2, <2>3, <2>10, SMTT(30)
        DEF StoreInv, AnchorIsLatestSettled
      <4>3. CASE c # b
        BY <4>3, <1>1, <1>5, <1>6, <2>1, <2>2, <2>3, <2>4
        DEF StoreInv, AnchorIsLatestSettled
      <4>4. QED BY <4>1, <4>2, <4>3
    <3>2. QED BY <3>1 DEF AnchorIsLatestSettled
  <2>12. InheritedAnchor(n)
    BY <1>5, <2>1, <2>4, <2>10 DEF StoreInv, InheritedAnchor
  <2>13. ReviewHasPendingDraft(n) BY <2>1 DEF ReviewHasPendingDraft
  <2>14. StoreInv(n)
    BY <1>2, <2>1, <2>5, <2>6, <2>7, <2>8, <2>9, <2>11, <2>12, <2>13 DEF StoreInv
  <2>15. QED BY <2>1, <2>14 DEF n
<1>8. CASE s.art[t] \in {"message", "accepted"}
  <2>1. /\ n.active = s.active /\ n.made = s.made /\ n.deleted = s.deleted
        /\ n.parent = s.parent /\ n.forkOrigin = s.forkOrigin
        /\ n.forkedFrom = s.forkedFrom /\ n.head = s.head
        /\ n.lastSettled = s.lastSettled /\ n.hiddenIds = s.hiddenIds
        /\ n.turns = s.turns /\ n.on = s.on /\ n.hidden = s.hidden
        /\ n.status = s.status /\ n.job = s.job
        /\ n.bound = s.bound \cup {t}
        /\ n.art = f
        /\ n.phase = "segment_drafting" /\ n.pending = NoTurn
    BY <1>8, AcceptOther DEF n, f
  <2>2. Created(n) = Created(s) BY <2>1 DEF Created
  <2>3. f[t] = s.art[t] BY <1>4, <1>8
  <2>4. TurnStages(n)
    BY <1>1, <1>4, <1>8, <2>1, <2>2, <2>3 DEF StoreInv, TurnStages, JobsTerminal
  <2>5. ReviewHasPendingDraft(n) BY <2>1 DEF ReviewHasPendingDraft
  <2>6. StoreInv(n)
    BY <1>2, <2>1, <2>2, <2>4, <2>5
    DEF StoreInv, ActiveBranchLive, Switchable, LineageChronological,
        HiddenViewsAgree, HeadIsFrontier, AnchorIsLatestSettled, InheritedAnchor
  <2>7. QED BY <2>1, <2>6 DEF n
<1>9. s.art[t] \in ArtifactStatus BY <1>0, <1>1
<1>10. QED BY <1>1, <1>7, <1>8, <1>9 DEF ArtifactStatus

-----------------------------------------------------------------------------
(* Going up from a branch.                                                 *)

\* A set of natural numbers that is not empty has a least element.
LEMMA LeastExists ==
  ASSUME NEW T \in SUBSET Nat, T # {}
  PROVE  \E x \in T : \A y \in T : x <= y
<1>1. PICK x \in T : \A y \in T : ~ (<<y, x>> \in OpToRel(<, Nat))
  BY NatLessThanWellFounded, WFMin
<1>2. \A y \in T : ~ (y < x)
  BY <1>1 DEF OpToRel
<1> QED BY <1>2

LEMMA HowMany == Cardinality(Branches) \in Nat
  BY FiniteBranchesAssumption, FS_CardinalityType

\* The function the recursion of Ancestry defines is there.
Climbs(s, b, up, k) ==
    up = [n \in 0..k |->
            IF n = 0 THEN b
            ELSE IF up[n - 1] = None THEN None ELSE s.parent[up[n - 1]]]

LEMMA CanClimb ==
  ASSUME NEW s, NEW b
  PROVE  \A k \in Nat : \E up : Climbs(s, b, up, k)
<1> DEFINE Bad == {k \in Nat : ~ \E up : Climbs(s, b, up, k)}
<1>1. SUFFICES ASSUME Bad # {} PROVE FALSE OBVIOUS
<1>2. PICK k \in Bad : \A j \in Bad : k <= j
  <2>1. Bad \in SUBSET Nat OBVIOUS
  <2> HIDE DEF Bad
  <2> QED BY <1>1, <2>1, LeastExists
<1>3. k \in Nat OBVIOUS
<1>4. CASE k = 0
  <2> DEFINE up == [n \in 0..0 |-> b]
  <2>1. up = [n \in 0..0 |->
            IF n = 0 THEN b
            ELSE IF up[n - 1] = None THEN None ELSE s.parent[up[n - 1]]]
    OBVIOUS
  <2>2. Climbs(s, b, up, k) BY <1>4, <2>1 DEF Climbs
  <2> QED BY <2>2
<1>5. CASE k # 0
  <2>1. k - 1 \in Nat /\ ~ (k <= k - 1) BY <1>3, <1>5
  <2>2. k - 1 \notin Bad BY <1>2, <2>1
  <2>3. PICK g : Climbs(s, b, g, k - 1) BY <2>1, <2>2
  <2> DEFINE up == [n \in 0..k |->
                      IF n = k THEN IF g[k - 1] = None THEN None ELSE s.parent[g[k - 1]]
                      ELSE g[n]]
  <2>4. \A n \in 0..k-1 : g[n] = IF n = 0 THEN b
            ELSE IF g[n - 1] = None THEN None ELSE s.parent[g[n - 1]]
    BY <2>3 DEF Climbs
  <2>5. \A n \in 0..k-1 : up[n] = g[n] BY <1>3
  <2>6. ASSUME NEW n \in 0..k
        PROVE  up[n] = IF n = 0 THEN b
                       ELSE IF up[n - 1] = None THEN None ELSE s.parent[up[n - 1]]
    <3>1. CASE n = 0
      BY <3>1, <1>3, <1>5, <2>1, <2>4, <2>5
    <3>2. CASE n # 0
      <4>1. n - 1 \in 0..k-1 BY <3>2, <1>3
      <4>2. up[n - 1] = g[n - 1] BY <4>1, <2>5
      <4>3. CASE n = k BY <4>2, <4>3, <3>2
      <4>4. CASE n # k
        <5>1. n \in 0..k-1 BY <4>4, <1>3
        <5>2. up[n] = g[n] BY <5>1, <2>5
        <5> HIDE DEF up
        <5> QED BY <5>1, <5>2, <4>2, <3>2, <2>4
      <4> QED BY <4>3, <4>4
    <3> QED BY <3>1, <3>2
  <2>7. up = [n \in 0..k |-> up[n]] OBVIOUS
  <2> HIDE DEF up
  <2>8. Climbs(s, b, up, k) BY <2>6, <2>7 DEF Climbs
  <2> QED BY <2>8
<1> QED BY <1>4, <1>5

\* Ancestry starts at the branch and goes from parent to parent.
LEMMA AncestrySteps ==
  ASSUME NEW s, NEW b
  PROVE  /\ Ancestry(s, b)[0] = b
         /\ \A n \in 1..Cardinality(Branches) :
              Ancestry(s, b)[n] = IF Ancestry(s, b)[n - 1] = None THEN None
                                  ELSE s.parent[Ancestry(s, b)[n - 1]]
<1> DEFINE k == Cardinality(Branches)
           A == CHOOSE up : Climbs(s, b, up, k)
<1>1. k \in Nat BY HowMany
<1>2. Ancestry(s, b) = A BY DEF Ancestry, Climbs
<1>3. Climbs(s, b, A, k) BY <1>1, CanClimb
<1> HIDE DEF A, k
<1>4. \A n \in 0..k : A[n] = IF n = 0 THEN b
            ELSE IF A[n - 1] = None THEN None ELSE s.parent[A[n - 1]]
  BY <1>3 DEF Climbs
<1>5. A[0] = b BY <1>1, <1>4
<1>6. \A n \in 1..k : n \in 0..k /\ n # 0 BY <1>1
<1>7. \A n \in 1..k : A[n] = IF A[n - 1] = None THEN None ELSE s.parent[A[n - 1]]
  BY <1>4, <1>6
<1> QED BY <1>2, <1>5, <1>7 DEF k

\* A set with b and the parents of its members.
Closed(s, b, bs) ==
    /\ b \in bs
    /\ \A x \in bs : s.parent[x] # None => s.parent[x] \in bs

\* What the code finds going up lies in every such set.
LEMMA AncestryInClosed ==
  ASSUME NEW s, NEW b, NEW bs, Closed(s, b, bs)
  PROVE  \A n \in 0..Cardinality(Branches) : Ancestry(s, b)[n] \in bs \cup {None}
<1> DEFINE up == Ancestry(s, b)
           k == Cardinality(Branches)
           Bad == {n \in 0..k : up[n] \notin bs \cup {None}}
<1>1. k \in Nat BY HowMany
<1>2. /\ up[0] = b
      /\ \A n \in 1..k : up[n] = IF up[n - 1] = None THEN None
                                 ELSE s.parent[up[n - 1]]
  BY AncestrySteps
<1> HIDE DEF up, k
<1>3. SUFFICES ASSUME Bad # {} PROVE FALSE BY DEF up, k
<1>4. PICK n \in Bad : \A j \in Bad : n <= j
  <2>1. Bad \in SUBSET Nat BY <1>1
  <2> HIDE DEF Bad
  <2> QED BY <1>3, <2>1, LeastExists
<1>5. n \in 0..k /\ up[n] \notin bs \cup {None} OBVIOUS
<1>6. n # 0 BY <1>2, <1>5 DEF Closed
<1>7. n - 1 \in 0..k /\ ~ (n <= n - 1) /\ n \in 1..k BY <1>1, <1>5, <1>6
<1>8. up[n - 1] \in bs \cup {None} BY <1>4, <1>7
<1> QED BY <1>2, <1>5, <1>7, <1>8 DEF Closed

LEMMA BranchesClosed ==
  ASSUME NEW s \in Store, NEW b \in Branches
  PROVE  Closed(s, b, Branches)
  BY StoreFields DEF Closed

\* Every branch found but the first is the parent of one found before.
LEMMA LineageHasChild ==
  ASSUME NEW s, NEW b, NEW x \in Lineage(s, b), x # b
  PROVE  \E d \in Lineage(s, b) : s.parent[d] = x
<1> DEFINE up == Ancestry(s, b)
           k == Cardinality(Branches)
<1>1. k \in Nat BY HowMany
<1>2. /\ up[0] = b
      /\ \A n \in 1..k : up[n] = IF up[n - 1] = None THEN None
                                 ELSE s.parent[up[n - 1]]
  BY AncestrySteps
<1>3. Lineage(s, b) = {up[n] : n \in 0..k} \ {None} BY DEF Lineage
<1> HIDE DEF up, k
<1>4. PICK n \in 0..k : x = up[n] BY <1>3
<1>5. x # None BY <1>3
<1>6. n # 0 BY <1>2, <1>4
<1>7. n - 1 \in 0..k /\ n \in 1..k BY <1>1, <1>6
<1>8. up[n - 1] # None /\ s.parent[up[n - 1]] = x BY <1>2, <1>4, <1>5, <1>7
<1> QED BY <1>3, <1>7, <1>8

\* The branch tree and its turns, apart from what turns have written.
Tree(s) == s \in Store /\ LineageChronological(s) /\ HiddenViewsAgree(s)

LEMMA TreeMeans ==
  ASSUME NEW s, Tree(s)
  PROVE  /\ \A t \in Created(s) : t \in Turns /\ t \in Nat /\ s.on[t] \in s.made
         /\ \A b \in s.made : b \in Branches /\
              (s.parent[b] # None =>
                 /\ s.parent[b] \in s.made /\ s.parent[b] \in Branches
                 /\ s.forkOrigin[b] \in Created(s) /\ s.forkedFrom[b] \in Created(s)
                 /\ s.forkOrigin[b] \in Nat /\ s.forkedFrom[b] \in Nat
                 /\ s.on[s.forkOrigin[b]] = s.parent[b]
                 /\ s.on[s.forkedFrom[b]] = s.parent[b]
                 /\ s.forkedFrom[b] <= s.forkOrigin[b])
         /\ \A b \in s.made, t \in Created(s) :
              s.on[t] = b /\ s.parent[b] # None => t > s.forkOrigin[b]
         /\ \A t \in Created(s) :
              HiddenByRollback(s, s.on[t], t) <=> t \in s.hidden
<1>1. Created(s) \subseteq Turns BY TurnIds DEF Tree
<1>2. \A t \in Turns : t \in Nat BY MaxTurnsAssumption DEF Turns
<1>3. s.made \subseteq Branches BY StoreFields DEF Tree
<1>4. \A t \in Created(s) : t \in Turns /\ t \in Nat /\ s.on[t] \in s.made
  BY <1>1, <1>2 DEF Tree, LineageChronological
<1>5. ASSUME NEW b \in s.made, s.parent[b] # None
      PROVE  /\ s.parent[b] \in s.made /\ s.parent[b] \in Branches
             /\ s.forkOrigin[b] \in Created(s) /\ s.forkedFrom[b] \in Created(s)
             /\ s.forkOrigin[b] \in Nat /\ s.forkedFrom[b] \in Nat
             /\ s.on[s.forkOrigin[b]] = s.parent[b]
             /\ s.on[s.forkedFrom[b]] = s.parent[b]
             /\ s.forkedFrom[b] <= s.forkOrigin[b]
             /\ \A t \in Created(s) : s.on[t] = b => t > s.forkOrigin[b]
  BY <1>3, <1>4, <1>5 DEF Tree, LineageChronological
<1>6. ASSUME NEW t \in Created(s)
      PROVE  HiddenByRollback(s, s.on[t], t) <=> t \in s.hidden
  BY <1>3, <1>4, <1>6 DEF Tree, HiddenViewsAgree, HiddenByRollback
<1> QED BY <1>3, <1>4, <1>5, <1>6

\* How far a branch is from the root: a branch was forked at a turn of its
\* parent, and its parent before its own turns.
Rank(s, x) == IF s.parent[x] = None THEN 0 ELSE s.forkOrigin[x]

LEMMA RankStep ==
  ASSUME NEW s, Tree(s), NEW x \in s.made
  PROVE  /\ Rank(s, x) \in Nat
         /\ s.parent[x] # None
              => /\ s.parent[x] \in s.made /\ Rank(s, s.parent[x]) \in Nat
                 /\ Rank(s, s.parent[x]) < Rank(s, x)
<1>1. \A y \in s.made : Rank(s, y) \in Nat BY TreeMeans DEF Rank
<1>2. ASSUME s.parent[x] # None
      PROVE  s.parent[x] \in s.made /\ Rank(s, s.parent[x]) < Rank(s, x)
  <2>1. /\ s.parent[x] \in s.made /\ s.forkOrigin[x] \in Created(s)
        /\ s.forkOrigin[x] \in Nat /\ s.on[s.forkOrigin[x]] = s.parent[x]
    BY <1>2, TreeMeans
  <2>2. CASE s.parent[s.parent[x]] = None
    <3>1. 0 < s.forkOrigin[x] BY <2>1 DEF Created
    <3> QED BY <1>2, <2>1, <2>2, <3>1 DEF Rank
  <2>3. CASE s.parent[s.parent[x]] # None
    <3>1. s.forkOrigin[s.parent[x]] \in Nat
          /\ s.forkOrigin[x] > s.forkOrigin[s.parent[x]]
      BY <2>1, <2>3, TreeMeans
    <3> QED BY <1>2, <2>1, <2>3, <3>1 DEF Rank
  <2> QED BY <2>2, <2>3
<1> QED BY <1>1, <1>2

\* So a branch found later is of a lower rank, and none is found twice.
LEMMA RankFalls ==
  ASSUME NEW s, Tree(s), NEW b \in s.made
  PROVE  \A n \in 0..Cardinality(Branches), m \in 0..Cardinality(Branches) :
           n < m /\ Ancestry(s, b)[m] # None
             => /\ Ancestry(s, b)[n] # None
                /\ Rank(s, Ancestry(s, b)[m]) < Rank(s, Ancestry(s, b)[n])
<1> DEFINE up == Ancestry(s, b)
           k == Cardinality(Branches)
<1>1. k \in Nat BY HowMany
<1>2. \A n \in 1..k : up[n] = IF up[n - 1] = None THEN None ELSE s.parent[up[n - 1]]
  BY AncestrySteps
<1>3. Closed(s, b, s.made) BY TreeMeans DEF Closed
<1>4. \A n \in 0..k : up[n] \in s.made \cup {None} BY <1>3, AncestryInClosed
<1> HIDE DEF up, k
<1>5. SUFFICES ASSUME NEW n \in 0..k
               PROVE  \A m \in 0..k : n < m /\ up[m] # None
                        => up[n] # None /\ Rank(s, up[m]) < Rank(s, up[n])
  BY DEF up, k
<1> DEFINE Bad == {m \in 0..k : /\ n < m /\ up[m] # None
                                /\ ~ (up[n] # None /\ Rank(s, up[m]) < Rank(s, up[n]))}
<1>6. SUFFICES ASSUME Bad # {} PROVE FALSE OBVIOUS
<1>7. PICK m \in Bad : \A j \in Bad : m <= j
  <2>1. Bad \in SUBSET Nat BY <1>1
  <2> HIDE DEF Bad
  <2> QED BY <1>6, <2>1, LeastExists
<1>8. /\ m \in 0..k /\ n < m /\ up[m] # None
      /\ ~ (up[n] # None /\ Rank(s, up[m]) < Rank(s, up[n]))
  OBVIOUS
<1>9. m \in 1..k /\ m - 1 \in 0..k /\ ~ (m <= m - 1) /\ (m - 1 = n \/ n < m - 1)
  BY <1>1, <1>8
<1>10. up[m - 1] # None /\ up[m] = s.parent[up[m - 1]] BY <1>2, <1>8, <1>9
<1>11. up[m - 1] \in s.made BY <1>4, <1>9, <1>10
<1>12. /\ Rank(s, up[m]) < Rank(s, up[m - 1])
       /\ Rank(s, up[m]) \in Nat /\ Rank(s, up[m - 1]) \in Nat
  BY <1>8, <1>10, <1>11, RankStep
<1>13. CASE m - 1 = n BY <1>8, <1>10, <1>12, <1>13
<1>14. CASE n < m - 1
  <2>1. m - 1 \notin Bad BY <1>7, <1>9
  <2>2. up[n] # None /\ Rank(s, up[m - 1]) < Rank(s, up[n])
    BY <1>9, <1>10, <1>14, <2>1
  <2>3. up[n] \in s.made BY <1>4, <2>2
  <2>4. Rank(s, up[n]) \in Nat BY <2>3, RankStep
  <2> QED BY <1>8, <1>12, <2>2, <2>4
<1> QED BY <1>9, <1>13, <1>14

\* The lineage of a branch that was made: itself, its parent, and branches
\* of lower rank than that.
LEMMA LineageRank ==
  ASSUME NEW s, Tree(s), NEW b \in s.made, NEW c \in Lineage(s, b), c # b
  PROVE  /\ c \in s.made /\ s.parent[b] # None
         /\ c = s.parent[b] \/ Rank(s, c) < Rank(s, s.parent[b])
<1> DEFINE up == Ancestry(s, b)
           k == Cardinality(Branches)
<1>1. k \in Nat BY HowMany
<1>2. /\ up[0] = b
      /\ \A n \in 1..k : up[n] = IF up[n - 1] = None THEN None ELSE s.parent[up[n - 1]]
  BY AncestrySteps
<1>3. Closed(s, b, s.made) BY TreeMeans DEF Closed
<1>4. \A n \in 0..k : up[n] \in s.made \cup {None} BY <1>3, AncestryInClosed
<1>5. \A n \in 0..k, m \in 0..k :
        n < m /\ up[m] # None => up[n] # None /\ Rank(s, up[m]) < Rank(s, up[n])
  BY RankFalls
<1>6. c \in {up[n] : n \in 0..k} \ {None} BY DEF Lineage
<1>7. b # None BY BranchAssumption, TreeMeans
<1> HIDE DEF up, k
<1>8. PICK n \in 0..k : c = up[n] BY <1>6
<1>9. c # None /\ c \in s.made BY <1>4, <1>6
<1>10. n # 0 BY <1>2, <1>8
<1>11. 1 \in 0..k /\ 1 \in 1..k /\ (n = 1 \/ 1 < n) BY <1>1, <1>10
<1>12. up[1] = s.parent[b] BY <1>2, <1>7, <1>11
<1>13. up[1] # None BY <1>5, <1>8, <1>9, <1>11
<1>14. 1 < n => Rank(s, c) < Rank(s, up[1]) BY <1>5, <1>8, <1>9, <1>11
<1> QED BY <1>8, <1>9, <1>11, <1>12, <1>13, <1>14

\* A branch is the parent of at most one branch of a lineage, so the CHOOSE
\* of Cutoff has no choice.
LEMMA OneChild ==
  ASSUME NEW s, Tree(s), NEW b \in s.made,
         NEW c \in Lineage(s, b), NEW d \in Lineage(s, b),
         s.parent[c] = s.parent[d], s.parent[c] # None
  PROVE  c = d
<1> DEFINE up == Ancestry(s, b)
           k == Cardinality(Branches)
<1>1. k \in Nat BY HowMany
<1>2. \A n \in 1..k : up[n] = IF up[n - 1] = None THEN None ELSE s.parent[up[n - 1]]
  BY AncestrySteps
<1>3. Closed(s, b, s.made) BY TreeMeans DEF Closed
<1>4. \A n \in 0..k : up[n] \in s.made \cup {None} BY <1>3, AncestryInClosed
<1>5. \A n \in 0..k, m \in 0..k :
        n < m /\ up[m] # None => up[n] # None /\ Rank(s, up[m]) < Rank(s, up[n])
  BY RankFalls
<1>6. Lineage(s, b) = {up[n] : n \in 0..k} \ {None} BY DEF Lineage
<1> HIDE DEF up, k
<1>7. ASSUME NEW i \in 0..k, NEW j \in 0..k, i < j, up[i] # None, up[j] # None,
             s.parent[up[i]] = s.parent[up[j]], s.parent[up[i]] # None
      PROVE  FALSE
  <2>1. i + 1 \in 0..k /\ i + 1 \in 1..k /\ i + 1 - 1 = i /\ (i + 1 = j \/ i + 1 < j)
    BY <1>1, <1>7
  <2>2. up[i + 1] = s.parent[up[j]] BY <1>2, <1>7, <2>1
  <2>3. up[j] \in s.made BY <1>4, <1>7
  <2>4. /\ Rank(s, up[i + 1]) < Rank(s, up[j])
        /\ Rank(s, up[i + 1]) \in Nat /\ Rank(s, up[j]) \in Nat
    BY <1>7, <2>2, <2>3, RankStep
  <2>5. i + 1 < j => Rank(s, up[j]) < Rank(s, up[i + 1]) BY <1>5, <1>7, <2>1
  <2> QED BY <2>1, <2>4, <2>5
<1>8. PICK i \in 0..k : c = up[i] BY <1>6
<1>9. PICK j \in 0..k : d = up[j] BY <1>6
<1>10. c # None /\ d # None BY <1>6
<1>11. i = j \/ i < j \/ j < i BY <1>1
<1> QED BY <1>7, <1>8, <1>9, <1>10, <1>11

-----------------------------------------------------------------------------
(* The story a reader is told.                                             *)

\* A branch that keeps its ancestors keeps its lineage.
LEMMA LineageKept ==
  ASSUME NEW s, NEW n, NEW b, NEW bs, Closed(s, b, bs),
         \A x \in bs : n.parent[x] = s.parent[x]
  PROVE  Lineage(n, b) = Lineage(s, b)
<1> DEFINE up == Ancestry(s, b)
           new == Ancestry(n, b)
           k == Cardinality(Branches)
<1>1. k \in Nat BY HowMany
<1>2. /\ up[0] = b
      /\ \A i \in 1..k : up[i] = IF up[i - 1] = None THEN None ELSE s.parent[up[i - 1]]
  BY AncestrySteps
<1>3. /\ new[0] = b
      /\ \A i \in 1..k : new[i] = IF new[i - 1] = None THEN None ELSE n.parent[new[i - 1]]
  BY AncestrySteps
<1>4. \A i \in 0..k : up[i] \in bs \cup {None} BY AncestryInClosed
<1>5. /\ Lineage(s, b) = {up[i] : i \in 0..k} \ {None}
      /\ Lineage(n, b) = {new[i] : i \in 0..k} \ {None}
  BY DEF Lineage
<1> HIDE DEF up, new, k
<1> DEFINE Bad == {i \in 0..k : new[i] # up[i]}
<1>6. ASSUME Bad # {} PROVE FALSE
  <2>1. PICK i \in Bad : \A j \in Bad : i <= j
    <3>1. Bad \in SUBSET Nat BY <1>1
    <3> HIDE DEF Bad
    <3> QED BY <1>6, <3>1, LeastExists
  <2>2. i \in 0..k /\ new[i] # up[i] OBVIOUS
  <2>3. i # 0 BY <1>2, <1>3, <2>2
  <2>4. i \in 1..k /\ i - 1 \in 0..k /\ ~ (i <= i - 1) BY <1>1, <2>2, <2>3
  <2>5. new[i - 1] = up[i - 1] BY <2>1, <2>4
  <2> QED BY <1>2, <1>3, <1>4, <2>2, <2>4, <2>5
<1>7. \A i \in 0..k : new[i] = up[i] BY <1>6
<1> QED BY <1>5, <1>7

\* A branch of the lineage is read up to the fork point of the one branch
\* that was forked from it.
LEMMA CutoffIs ==
  ASSUME NEW s, Tree(s), NEW b \in s.made, NEW p \in Lineage(s, b), p # b
  PROVE  \E c \in Lineage(s, b) :
           /\ c \in s.made /\ s.parent[c] = p /\ p # None
           /\ Cutoff(s, b, p) = s.forkedFrom[c]
           /\ \A d \in Lineage(s, b) : s.parent[d] = p => d = c
<1> DEFINE c == CHOOSE x \in Lineage(s, b) : s.parent[x] = p
<1>1. c \in Lineage(s, b) /\ s.parent[c] = p BY LineageHasChild
<1>2. Cutoff(s, b, p) = s.forkedFrom[c] BY DEF Cutoff
<1> HIDE DEF c
<1>3. p # None BY DEF Lineage
<1>4. c \in s.made BY <1>1, LineageRank
<1>5. \A d \in Lineage(s, b) : s.parent[d] = p => d = c BY <1>1, <1>3, OneChild
<1> QED BY <1>1, <1>2, <1>3, <1>4, <1>5

\* What makes a turn part of the story, wherever it is read.
Told(s, t) ==
    /\ t \in Created(s) /\ t \notin s.hidden
    /\ t \in s.telling
    /\ s.status[t] = "settled" /\ s.art[t] = "accepted" /\ t \in s.bound

LEMMA AcceptedMeans ==
  ASSUME NEW s, NEW b, NEW t
  PROVE  t \in AcceptedOn(s, b) <=>
           /\ Told(s, t) /\ s.on[t] \in Lineage(s, b)
           /\ ThroughCutoff(s, t, Cutoff(s, b, s.on[t]))
  BY DEF AcceptedOn, VisibleOn, Told

\* Nothing a reader of a branch of s is told is missing in n.
Grows(s, n) ==
    /\ s.made \subseteq n.made
    /\ \A b \in s.made : AcceptedOn(s, b) \subseteq AcceptedOn(n, b)

LEMMA GrowsTransitive ==
  ASSUME NEW s, NEW n, NEW m, Grows(s, n), Grows(n, m)
  PROVE  Grows(s, m)
  BY DEF Grows

\* What a step has to leave alone for that.
Onward(s, n) ==
    /\ s.made \subseteq n.made
    /\ \A b \in s.made : n.parent[b] = s.parent[b] /\ n.forkedFrom[b] = s.forkedFrom[b]
    /\ \A t \in Created(s) :
         /\ n.on[t] = s.on[t]
         /\ Told(s, t) => Told(n, t)
         /\ Told(s, t) /\ ThroughCutoff(s, t, s.head[s.on[t]])
              => ThroughCutoff(n, t, n.head[s.on[t]])

LEMMA OnwardGrows ==
  ASSUME NEW s, Tree(s), NEW n, Tree(n), Onward(s, n)
  PROVE  Grows(s, n)
<1>1. SUFFICES ASSUME NEW b \in s.made, NEW t \in AcceptedOn(s, b)
               PROVE  t \in AcceptedOn(n, b)
  BY DEF Grows, Onward
<1> DEFINE p == s.on[t]
<1>2. Told(s, t) /\ p \in Lineage(s, b) /\ ThroughCutoff(s, t, Cutoff(s, b, p))
  BY AcceptedMeans
<1>3. t \in Created(s) /\ n.on[t] = p /\ Told(n, t) /\ b \in n.made
  BY <1>2 DEF Told, Onward
<1>4. Lineage(n, b) = Lineage(s, b)
  <2>1. Closed(s, b, s.made) BY TreeMeans DEF Closed
  <2>2. \A x \in s.made : n.parent[x] = s.parent[x] BY DEF Onward
  <2> QED BY <2>1, <2>2, LineageKept
<1> HIDE DEF p
<1>5. ThroughCutoff(n, t, Cutoff(n, b, p))
  <2>1. CASE p = b
    <3>1. Cutoff(s, b, p) = s.head[p] /\ Cutoff(n, b, p) = n.head[p] BY <2>1 DEF Cutoff
    <3> QED BY <1>2, <1>3, <3>1 DEF Onward, p
  <2>2. CASE p # b
    <3>1. PICK c \in Lineage(s, b) :
                 /\ c \in s.made /\ s.parent[c] = p /\ p # None
                 /\ Cutoff(s, b, p) = s.forkedFrom[c]
      BY <1>2, <2>2, CutoffIs
    <3>2. PICK d \in Lineage(n, b) :
                 /\ Cutoff(n, b, p) = n.forkedFrom[d]
                 /\ \A e \in Lineage(n, b) : n.parent[e] = p => e = d
      BY <1>2, <1>3, <1>4, <2>2, CutoffIs
    <3>3. n.parent[c] = p /\ n.forkedFrom[c] = s.forkedFrom[c] BY <3>1 DEF Onward
    <3>4. c = d BY <1>4, <3>1, <3>2, <3>3
    <3>5. Cutoff(n, b, p) = s.forkedFrom[c] BY <3>2, <3>3, <3>4
    <3>6. s.forkedFrom[c] \in Created(s) BY <3>1, TreeMeans
    <3>7. n.on[s.forkedFrom[c]] = s.on[s.forkedFrom[c]] BY <3>6 DEF Onward
    <3>8. n.on[t] = s.on[t] BY <1>3 DEF p
    <3> QED BY <1>2, <3>1, <3>5, <3>7, <3>8 DEF ThroughCutoff
  <2> QED BY <2>1, <2>2
<1> QED BY <1>2, <1>3, <1>4, <1>5, AcceptedMeans

LEMMA SoundTree == ASSUME NEW s, StoreInv(s) PROVE Tree(s) BY DEF StoreInv, Tree

\* Steps that leave the branches and their heads alone.
LEMMA WritingGrows ==
  ASSUME NEW s, StoreInv(s), NEW n, StoreInv(n),
         /\ n.made = s.made /\ n.parent = s.parent /\ n.forkedFrom = s.forkedFrom
         /\ n.head = s.head /\ n.turns = s.turns /\ n.on = s.on,
         \A t \in Created(s) : Told(s, t) => Told(n, t)
  PROVE  Grows(s, n)
<1>1. Onward(s, n) BY DEF Onward, ThroughCutoff
<1> QED BY <1>1, SoundTree, OnwardGrows

\* create_turn: the new turn is the head of its branch, beyond all others.
LEMMA CreateTurnGrows ==
  ASSUME NEW s, StoreInv(s), NEW b \in Branches, Switchable(s, b), NEW cmd,
         s.turns < MaxTurns
  PROVE  Grows(s, CreateTurn(s, b, cmd))
<1> DEFINE n == CreateTurn(s, b, cmd)
           t == s.turns + 1
<1>0. s \in Store BY DEF StoreInv
<1>1. StoreInv(n) BY CreateTurnInv
<1>2. /\ n.made = s.made /\ n.parent = s.parent /\ n.forkedFrom = s.forkedFrom
      /\ n.head = [s.head EXCEPT ![b] = t]
      /\ n.turns = t /\ n.on = [s.on EXCEPT ![t] = b]
      /\ n.status = [s.status EXCEPT ![t] = "started"]
      /\ n.hidden = s.hidden /\ s.telling \subseteq n.telling /\ n.art = s.art /\ n.bound = s.bound
  BY <1>0, SMT DEF CreateTurn, Store
<1>3. t \in Turns /\ s.turns \in Nat /\ t # NoTurn BY <1>0, TurnIds DEF Turns, NoTurn
<1>4. Created(s) \subseteq Created(n) /\ \A u \in Created(s) : u < t /\ u \in Turns
  BY <1>0, <1>2, <1>3, TurnIds DEF Created
<1> HIDE DEF n, t
<1>5. \A u \in Turns : u # t => n.on[u] = s.on[u] /\ n.status[u] = s.status[u]
  BY <1>0, <1>2, StoreFields
<1>6. \A u \in Created(s) : u # t BY <1>3, <1>4 DEF Turns
<1>7. n.on[t] = b BY <1>0, <1>2, <1>3, StoreFields
<1>8. ASSUME NEW u \in Created(s)
      PROVE  /\ n.on[u] = s.on[u]
             /\ Told(s, u) => Told(n, u)
             /\ ThroughCutoff(s, u, s.head[s.on[u]])
                  => ThroughCutoff(n, u, n.head[s.on[u]])
  <2>1. n.on[u] = s.on[u] /\ n.status[u] = s.status[u] BY <1>4, <1>5, <1>6
  <2>2. Told(s, u) => Told(n, u) BY <1>2, <1>4, <2>1 DEF Told
  <2>3. CASE s.on[u] = b
    <3>1. n.head[s.on[u]] = t BY <1>0, <1>2, <2>3, StoreFields
    <3>2. u <= t BY <1>3, <1>4 DEF Turns
    <3> QED BY <1>3, <2>1, <2>2, <3>1, <3>2 DEF ThroughCutoff
  <2>4. CASE s.on[u] # b
    <3> DEFINE h == s.head[s.on[u]]
    <3>1. s.on[u] \in s.made BY DEF StoreInv, LineageChronological
    <3>2. n.head[s.on[u]] = h BY <1>0, <1>2, <2>4, <3>1, StoreFields
    <3>3. h # NoTurn => h \in Created(s) BY <3>1 DEF StoreInv, HeadIsFrontier
    <3>4. h # NoTurn => n.on[h] = s.on[h] BY <1>4, <1>5, <1>6, <3>3
    <3> QED BY <2>1, <2>2, <3>2, <3>4 DEF ThroughCutoff
  <2> QED BY <2>3, <2>4
<1>9. Onward(s, n) BY <1>2, <1>8 DEF Onward
<1> QED BY <1>1, <1>9, SoundTree, OnwardGrows DEF n

\* persist_generated_artifact: the turn was not part of the story yet.
LEMMA PersistGrows ==
  ASSUME NEW s, StoreInv(s), NEW t \in Turns, t \in Created(s),
         s.status[t] = "started", NEW cmd \in Command, NEW kind
  PROVE  Grows(s, Persist(s, t, cmd, kind))
<1> DEFINE n == Persist(s, t, cmd, kind)
<1>0. s \in Store /\ Created(s) \subseteq Turns BY TurnIds DEF StoreInv
<1>1. StoreInv(n) BY PersistInv
<1>2. /\ n.made = s.made /\ n.parent = s.parent /\ n.forkedFrom = s.forkedFrom
      /\ n.head = s.head /\ n.turns = s.turns /\ n.on = s.on
      /\ n.hidden = s.hidden /\ n.telling = s.telling
  BY <1>0, SMT DEF Persist, UpdateStatus, EnsureJobs, BindOutput, PersistMessage,
                   PersistSegment, Store
<1>3. n.status = [s.status EXCEPT ![t] = "post_write_pending"] /\ s.bound \subseteq n.bound
  BY <1>0, SMT DEF Persist, UpdateStatus, EnsureJobs, BindOutput, PersistMessage,
                   PersistSegment, Store
<1>4. \/ n.art = [s.art EXCEPT ![t] = "message"]
      \/ n.art = [s.art EXCEPT ![t] = "draft"]
  BY <1>0, SMT DEF Persist, UpdateStatus, EnsureJobs, BindOutput, PersistMessage,
                   PersistSegment, Store
<1> HIDE DEF n
<1>5. \A u \in Created(s) : u # t => n.status[u] = s.status[u] /\ n.art[u] = s.art[u]
  BY <1>0, <1>3, <1>4, StoreFields
<1>6. \A u \in Created(s) : Told(s, u) => Told(n, u)
  BY <1>2, <1>3, <1>5 DEF Told, Created
<1> QED BY <1>1, <1>2, <1>6, WritingGrows DEF n

\* accept_pending_segment: what is accepted stays accepted, whatever else
\* is superseded.
LEMMA AcceptGrows ==
  ASSUME NEW s, StoreInv(s), NEW t \in AcceptTargets(s)
  PROVE  Grows(s, AcceptSegment(s, t))
<1> DEFINE n == AcceptSegment(s, t)
           f == AdoptArtifact(s, t).art
<1>0. s \in Store /\ Created(s) \subseteq Turns BY TurnIds DEF StoreInv
<1>1. StoreInv(n) BY AcceptInv
<1>2. t \in Turns /\ s.art[t] # "none"
  BY <1>0, VisibleIsCreated, TurnIds DEF AcceptTargets
<1>3. f = [u \in Turns |->
             IF u = t
             THEN IF s.art[t] = "message" THEN "message" ELSE "accepted"
             ELSE IF u \in VisibleTurns(s) /\ s.art[u] = "draft"
                  THEN "superseded" ELSE s.art[u]]
  BY <1>0, SMT DEF AdoptArtifact, Store
<1>4. \A u \in Turns : s.art[u] = "accepted" => f[u] = "accepted" BY <1>3
<1> HIDE DEF n, f
<1>5. CASE s.art[t] \in {"draft", "superseded"}
  <2>1. /\ n.active = s.active /\ n.made = s.made /\ n.deleted = s.deleted
        /\ n.parent = s.parent /\ n.forkOrigin = s.forkOrigin
        /\ n.forkedFrom = s.forkedFrom /\ n.head = s.head
        /\ n.hiddenIds = s.hiddenIds
        /\ n.turns = s.turns /\ n.on = s.on /\ n.hidden = s.hidden /\ n.telling = s.telling
        /\ n.bound = s.bound \cup {t} /\ n.art = f
    BY <1>5, AcceptDraft DEF n, f
  <2>2. /\ n.status[t] = "settled"
        /\ \A v \in Turns \ {t} : n.status[v] = s.status[v]
    BY <1>5, AcceptDraft DEF n
  <2>3. \A u \in Created(s) : Told(s, u) => Told(n, u)
    BY <1>0, <1>4, <2>1, <2>2 DEF Told, Created
  <2> QED BY <1>1, <2>1, <2>3, WritingGrows DEF n
<1>6. CASE s.art[t] \in {"message", "accepted"}
  <2>1. /\ n.made = s.made /\ n.parent = s.parent
        /\ n.forkedFrom = s.forkedFrom /\ n.head = s.head
        /\ n.turns = s.turns /\ n.on = s.on /\ n.hidden = s.hidden /\ n.telling = s.telling
        /\ n.status = s.status
        /\ n.bound = s.bound \cup {t} /\ n.art = f
    BY <1>6, AcceptOther DEF n, f
  <2>2. \A u \in Created(s) : Told(s, u) => Told(n, u)
    BY <1>0, <1>4, <2>1 DEF Told, Created
  <2> QED BY <1>1, <2>1, <2>2, WritingGrows DEF n
<1>7. s.art[t] \in {"message", "draft", "accepted", "superseded"}
  BY <1>0, <1>2, StoreFields DEF ArtifactStatus
<1> QED BY <1>5, <1>6, <1>7

\* switch_branch and delete_branch touch no turn and no branch of the tree.
LEMMA SwitchGrows ==
  ASSUME NEW s, StoreInv(s), NEW b \in Branches, CanSwitch(s, b)
  PROVE  Grows(s, Switch(s, b))
<1> DEFINE n == Switch(s, b)
<1>0. s \in Store BY DEF StoreInv
<1>1. StoreInv(n) BY SwitchInv
<1>2. /\ n.made = s.made /\ n.parent = s.parent /\ n.forkedFrom = s.forkedFrom
      /\ n.head = s.head /\ n.turns = s.turns /\ n.on = s.on
      /\ n.hidden = s.hidden /\ n.telling = s.telling /\ n.status = s.status /\ n.art = s.art
      /\ n.bound = s.bound
  BY <1>0, SMT DEF Switch, Store
<1> HIDE DEF n
<1>3. \A u \in Created(s) : Told(s, u) => Told(n, u) BY <1>2 DEF Told, Created
<1> QED BY <1>1, <1>2, <1>3, WritingGrows DEF n

LEMMA DeleteGrows ==
  ASSUME NEW s, StoreInv(s), NEW b \in Branches, CanDelete(s, b)
  PROVE  Grows(s, Delete(s, b))
<1> DEFINE n == Delete(s, b)
<1>0. s \in Store BY DEF StoreInv
<1>1. StoreInv(n) BY DeleteInv
<1>2. /\ n.made = s.made /\ n.parent = s.parent /\ n.forkedFrom = s.forkedFrom
      /\ n.head = s.head /\ n.turns = s.turns /\ n.on = s.on
      /\ n.hidden = s.hidden /\ n.telling = s.telling /\ n.status = s.status /\ n.art = s.art
      /\ n.bound = s.bound
  BY <1>0, SMT DEF Delete, Store
<1> HIDE DEF n
<1>3. \A u \in Created(s) : Told(s, u) => Told(n, u) BY <1>2 DEF Told, Created
<1> QED BY <1>1, <1>2, <1>3, WritingGrows DEF n

\* create_branch_from_turn: the new branch is in nobody's lineage.
LEMMA ForkGrows ==
  ASSUME NEW s, StoreInv(s), NEW t \in Turns, NEW b \in Branches,
         b \notin s.made, CanFork(s, t)
  PROVE  Grows(s, Fork(s, t, b))
<1> DEFINE n == ForkFrom(s, t, b)
<1>0. s \in Store /\ SettleAdopted(s, t) = s BY SettleAdoptedNoop DEF StoreInv
<1>1. Fork(s, t, b) = n BY <1>0 DEF Fork
<1>2. StoreInv(n) BY <1>1, ForkInv
<1>3. /\ n.made = s.made \cup {b}
      /\ n.parent = [s.parent EXCEPT ![b] = s.on[t]]
      /\ n.forkedFrom = [s.forkedFrom EXCEPT ![b] = t]
      /\ n.head = [s.head EXCEPT ![b] = t]
      /\ n.turns = s.turns /\ n.on = s.on /\ n.status = s.status
      /\ n.hidden = s.hidden /\ n.telling = s.telling /\ n.art = s.art /\ n.bound = s.bound
  BY <1>0, SMT DEF ForkFrom, Store
<1> HIDE DEF n
<1>4. \A c \in s.made : /\ n.parent[c] = s.parent[c]
                        /\ n.forkedFrom[c] = s.forkedFrom[c] /\ n.head[c] = s.head[c]
  BY <1>0, <1>3, StoreFields
<1>5. \A u \in Created(s) : s.on[u] \in s.made BY DEF StoreInv, LineageChronological
<1>6. Onward(s, n) BY <1>3, <1>4, <1>5 DEF Onward, Told, Created, ThroughCutoff
<1> QED BY <1>1, <1>2, <1>6, SoundTree, OnwardGrows

\* rollback_to_turn keeps the story up to its target and nothing beyond it.
\* Up to the target: a target on the branch itself leaves every fork point
\* where it is, a target on the parent becomes the fork point.  Beyond it:
\* the branch's own turns are hidden, and the turns read on an ancestor end
\* at a fork point that is older than the target.
LEMMA RollbackCuts ==
  ASSUME NEW s, StoreInv(s), NEW t \in Turns, CanRollback(s, t)
  PROVE  /\ Rollback(s, t).active = s.active
         /\ \A u \in AcceptedOn(s, s.active) :
              u <= t => u \in AcceptedOn(Rollback(s, t), s.active)
         /\ \A u \in AcceptedOn(Rollback(s, t), s.active) : u <= t
<1> DEFINE b == s.active
           later == LaterTurns(s, b, t)
           n == RollbackTo(s, t)
<1>0. s \in Store /\ SettleAdopted(s, t) = s BY SettleAdoptedNoop DEF StoreInv
<1>1. Rollback(s, t) = n BY <1>0 DEF Rollback
<1>2. StoreInv(n) BY <1>1, RollbackInv
<1>3. /\ n.active = s.active /\ n.made = s.made /\ n.parent = s.parent
      /\ n.forkOrigin = s.forkOrigin
      /\ n.forkedFrom = [s.forkedFrom EXCEPT ![b] = IF s.on[t] = b THEN @ ELSE t]
      /\ n.head = [s.head EXCEPT ![b] = t]
      /\ n.turns = s.turns /\ n.on = s.on /\ n.status = s.status
      /\ n.hidden = s.hidden \cup later /\ n.art = s.art /\ n.bound = s.bound
      /\ n.telling = s.telling
  BY <1>0, SMT DEF RollbackTo, Store
<1>4. /\ t \in Created(s) /\ t # NoTurn /\ b \in s.made /\ b \in Branches
      /\ s.on[t] = b \/ OnParentLineage(s, b, t)
  BY <1>0, TurnIds, StoreFields DEF CanRollback, Switchable
<1>5. /\ Tree(s) /\ Tree(n) BY <1>2, SoundTree
<1>6. Created(n) = Created(s) /\ \A u \in Created(s) : u \in Nat
  BY <1>3, <1>5, TreeMeans DEF Created
<1>7. \A u \in Created(s) : u \in later <=> s.on[u] = b /\ (s.on[t] = b => u > t)
  BY DEF LaterTurns
<1> HIDE DEF n, later, b
<1>8. /\ n.head[b] = t
      /\ \A c \in s.made : n.forkedFrom[c] = IF c = b /\ s.on[t] # b THEN t
                                             ELSE s.forkedFrom[c]
  BY <1>0, <1>3, <1>4, StoreFields
<1>9. Lineage(n, b) = Lineage(s, b)
  <2>1. Closed(s, b, s.made) BY <1>4, <1>5, TreeMeans DEF Closed
  <2> QED BY <1>3, <2>1, LineageKept
<1>10. b \in n.made /\ n.made = s.made /\ n.parent = s.parent BY <1>3, <1>4
<1>11. s.on[t] # b =>
         /\ s.parent[b] # None /\ s.on[t] = s.parent[b] /\ t <= s.forkOrigin[b]
  <2>1. SUFFICES ASSUME s.on[t] # b
                 PROVE  /\ s.parent[b] # None /\ s.on[t] = s.parent[b]
                        /\ t <= s.forkOrigin[b]
    OBVIOUS
  <2>2. /\ s.parent[b] # None /\ s.on[t] = s.parent[b]
        /\ t = s.forkOrigin[b] \/ t <= s.forkedFrom[b]
    BY <1>4, <2>1 DEF OnParentLineage
  <2>3. /\ s.forkOrigin[b] \in Nat /\ s.forkedFrom[b] \in Nat
        /\ s.forkedFrom[b] <= s.forkOrigin[b]
    BY <1>4, <1>5, <2>2, TreeMeans
  <2> QED BY <1>4, <1>6, <2>2, <2>3
<1>12. ASSUME NEW u \in AcceptedOn(s, b), u <= t
       PROVE  u \in AcceptedOn(n, b)
  <2> DEFINE p == s.on[u]
  <2>1. /\ Told(s, u) /\ p \in Lineage(s, b) /\ u \in Created(s)
        /\ ThroughCutoff(s, u, Cutoff(s, b, p))
    BY <1>12, AcceptedMeans DEF Told
  <2>2. u \in Nat /\ t \in Nat BY <1>4, <1>6, <2>1
  <2>3. p = b => s.on[t] = b
    <3>1. SUFFICES ASSUME p = b, s.on[t] # b PROVE FALSE OBVIOUS
    <3>2. s.parent[b] # None /\ t <= s.forkOrigin[b] BY <1>11, <3>1
    <3>3. u > s.forkOrigin[b] /\ s.forkOrigin[b] \in Nat
      BY <1>4, <1>5, <2>1, <3>1, <3>2, TreeMeans
    <3> QED BY <1>12, <2>2, <3>2, <3>3
  <2>4. u \notin later BY <1>7, <1>12, <2>1, <2>2, <2>3
  <2>5. Told(n, u) /\ n.on[u] = p BY <1>3, <1>6, <2>1, <2>4 DEF Told
  <2>6. ThroughCutoff(n, u, Cutoff(n, b, p))
    <3>1. CASE p = b
      <4>1. Cutoff(n, b, p) = t BY <1>8, <3>1 DEF Cutoff
      <4> QED BY <1>4, <1>12, <4>1 DEF ThroughCutoff
    <3>2. CASE p # b
      <4>1. PICK c \in Lineage(s, b) :
                   /\ c \in s.made /\ s.parent[c] = p /\ p # None
                   /\ Cutoff(s, b, p) = s.forkedFrom[c]
        BY <1>4, <1>5, <2>1, <3>2, CutoffIs
      <4>2. PICK d \in Lineage(n, b) :
                   /\ Cutoff(n, b, p) = n.forkedFrom[d]
                   /\ \A e \in Lineage(n, b) : n.parent[e] = p => e = d
        <5>1. p \in Lineage(n, b) BY <1>9, <2>1
        <5> QED BY <1>5, <1>10, <3>2, <5>1, CutoffIs
      <4>3. Cutoff(n, b, p) = n.forkedFrom[c] BY <1>9, <1>10, <4>1, <4>2
      <4>4. CASE c = b /\ s.on[t] # b
        <5>1. n.forkedFrom[c] = t BY <1>8, <4>1, <4>4
        <5> QED BY <1>4, <1>12, <4>3, <5>1 DEF ThroughCutoff
      <4>5. CASE ~ (c = b /\ s.on[t] # b)
        <5>1. n.forkedFrom[c] = s.forkedFrom[c] BY <1>8, <4>1, <4>5
        <5> QED BY <1>3, <2>1, <4>1, <4>3, <5>1 DEF ThroughCutoff
      <4> QED BY <4>4, <4>5
    <3> QED BY <3>1, <3>2
  <2> QED BY <1>9, <2>1, <2>5, <2>6, AcceptedMeans
<1>13. ASSUME NEW u \in AcceptedOn(n, b)
       PROVE  u <= t
  <2> DEFINE p == n.on[u]
  <2>1. /\ u \in Created(s) /\ u \notin n.hidden /\ p \in Lineage(s, b)
        /\ ThroughCutoff(n, u, Cutoff(n, b, p))
    BY <1>6, <1>9, <1>13, AcceptedMeans DEF Told
  <2>2. u \in Nat /\ t \in Nat /\ u \notin later BY <1>3, <1>4, <1>6, <2>1
  <2>3. CASE p = b
    <3>1. s.on[t] = b /\ ~ (u > t) BY <1>3, <1>7, <2>1, <2>2, <2>3
    <3> QED BY <2>2, <3>1
  <2>4. CASE p # b
    <3>1. PICK c \in Lineage(s, b) :
                 /\ c \in s.made /\ s.parent[c] = p /\ p # None
                 /\ Cutoff(n, b, p) = n.forkedFrom[c]
      <4>1. p \in Lineage(n, b) BY <1>9, <2>1
      <4>2. PICK c \in Lineage(n, b) :
                   /\ c \in n.made /\ n.parent[c] = p /\ p # None
                   /\ Cutoff(n, b, p) = n.forkedFrom[c]
        BY <1>5, <1>10, <2>4, <4>1, CutoffIs
      <4> QED BY <1>9, <1>10, <4>2
    <3>2. /\ n.forkedFrom[c] \in Nat /\ n.forkedFrom[c] <= s.forkOrigin[c]
          /\ n.on[n.forkedFrom[c]] = p /\ s.forkOrigin[c] \in Nat
      BY <1>3, <1>5, <3>1, TreeMeans
    <3>3. u <= n.forkedFrom[c] BY <2>1, <3>1, <3>2 DEF ThroughCutoff
    <3>4. Rank(s, c) = s.forkOrigin[c] BY <3>1 DEF Rank
    <3>5. u <= Rank(s, c) /\ Rank(s, c) \in Nat BY <2>2, <3>2, <3>3, <3>4
    <3>6. CASE s.on[t] = b
      <4>1. Rank(s, c) <= Rank(s, b)
        <5>1. CASE c = b BY <3>5, <5>1
        <5>2. CASE c # b
          <6>1. s.parent[b] # None /\ (c = s.parent[b] \/ Rank(s, c) < Rank(s, s.parent[b]))
            BY <1>4, <1>5, <5>2, LineageRank
          <6>2. /\ Rank(s, s.parent[b]) < Rank(s, b)
                /\ Rank(s, s.parent[b]) \in Nat /\ Rank(s, b) \in Nat
            BY <1>4, <1>5, <6>1, RankStep
          <6> QED BY <3>5, <6>1, <6>2
        <5> QED BY <5>1, <5>2
      <4>2. s.parent[b] # None
        BY <1>4, <1>5, <3>1, LineageRank
      <4>3. Rank(s, b) \in Nat /\ Rank(s, b) < t
        BY <1>4, <1>5, <3>6, <4>2, TreeMeans DEF Rank
      <4> QED BY <2>2, <3>5, <4>1, <4>3
    <3>7. CASE s.on[t] # b /\ c = b
      <4>1. n.forkedFrom[c] = t BY <1>8, <3>1, <3>7
      <4> QED BY <3>3, <4>1
    <3>8. CASE s.on[t] # b /\ c # b
      <4> DEFINE q == s.parent[b]
      <4>1. s.on[t] = q /\ q # None BY <1>11, <3>8
      <4>2. c = q \/ Rank(s, c) < Rank(s, q) BY <1>4, <1>5, <3>8, LineageRank
      <4>3. q \in s.made /\ Rank(s, q) \in Nat BY <1>4, <1>5, <4>1, RankStep
      <4>4. s.parent[q] # None
        <5>1. CASE c = q BY <3>1, <5>1
        <5>2. CASE Rank(s, c) < Rank(s, q) BY <3>5, <4>3, <5>2 DEF Rank
        <5> QED BY <4>2, <5>1, <5>2
      <4>5. Rank(s, q) < t BY <1>4, <1>5, <4>1, <4>3, <4>4, TreeMeans DEF Rank
      <4> HIDE DEF q
      <4> QED BY <2>2, <3>5, <4>2, <4>3, <4>5
    <3> QED BY <3>6, <3>7, <3>8
  <2> QED BY <2>3, <2>4
<1> QED BY <1>1, <1>3, <1>12, <1>13 DEF b
=============================================================================
