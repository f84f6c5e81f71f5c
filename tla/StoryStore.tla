----------------------------- MODULE StoryStore -----------------------------
(***************************************************************************)
(* The story database of one roleplay session, as the runtime services see *)
(* it: branches, turns, their post-write obligations, the artifacts turns  *)
(* produce and the chapter's review state.  A store is a record; every     *)
(* service operation is an operator from stores to stores, so that         *)
(* StoryTurns can apply it to the durable database and to the uncommitted  *)
(* work of one request alike.                                              *)
(*                                                                         *)
(* Turn ids are allocated in creation order, so 1 .. s.turns is also the   *)
(* order _turn_order_key sorts by.  A turn produces at most one artifact,  *)
(* which is named by its turn.                                             *)
(***************************************************************************)
EXTENDS Naturals, FiniteSets

CONSTANTS
    Branches,   \* every branch head the session can ever have
    Default,    \* the session's default branch
    None,       \* "no parent branch"
    MaxTurns    \* how many turns can be created

ASSUME BranchAssumption == Default \in Branches /\ None \notin Branches
ASSUME FiniteBranchesAssumption == IsFiniteSet(Branches)
ASSUME MaxTurnsAssumption == MaxTurns \in Nat

Turns   == 1..MaxTurns
NoTurn  == 0
TurnRef == 0..MaxTurns

TurnStatus == {"absent", "started", "post_write_pending", "post_write_running",
               "post_write_deferred", "settled", "completed", "failed"}

\* The two creation-time obligations of a turn always move together.
JobStatus == {"none", "pending", "deferred", "completed"}

\* "message" stands for an artifact that is not a story segment.
ArtifactStatus == {"none", "message", "draft", "accepted", "superseded"}

Phase == {"segment_drafting", "segment_review"}

Command == {"write_next_segment", "rewrite_pending_segment",
            "discuss_outline", "accept_pending_segment"}

\* _STORY_SEGMENT_TURN_COMMAND_KINDS: the commands whose turns tell the story
TellingCommands == {"write_next_segment", "rewrite_pending_segment"}

Store ==
    [ active      : Branches,
      made        : SUBSET Branches,
      deleted     : SUBSET Branches,
      parent      : [Branches -> Branches \cup {None}],
      forkOrigin  : [Branches -> TurnRef],
      forkedFrom  : [Branches -> TurnRef],
      head        : [Branches -> TurnRef],
      lastSettled : [Branches -> TurnRef],
      hiddenIds   : [Branches -> SUBSET Turns],
      turns       : TurnRef,
      on          : [Turns -> Branches],
      status      : [Turns -> TurnStatus],
      telling     : SUBSET Turns,
      hidden      : SUBSET Turns,
      job         : [Turns -> JobStatus],
      art         : [Turns -> ArtifactStatus],
      bound       : SUBSET Turns,
      pending     : TurnRef,
      phase       : Phase ]

(***************************************************************************)
(* A freshly activated session whose chapter outline has been accepted:    *)
(* only the default branch exists and it is the active one.                *)
(***************************************************************************)
FreshStore ==
    [ active      |-> Default,
      made        |-> {Default},
      deleted     |-> {},
      parent      |-> [b \in Branches |-> None],
      forkOrigin  |-> [b \in Branches |-> NoTurn],
      forkedFrom  |-> [b \in Branches |-> NoTurn],
      head        |-> [b \in Branches |-> NoTurn],
      lastSettled |-> [b \in Branches |-> NoTurn],
      hiddenIds   |-> [b \in Branches |-> {}],
      turns       |-> 0,
      on          |-> [t \in Turns |-> Default],
      status      |-> [t \in Turns |-> "absent"],
      telling     |-> {},
      hidden      |-> {},
      job         |-> [t \in Turns |-> "none"],
      art         |-> [t \in Turns |-> "none"],
      bound       |-> {},
      pending     |-> NoTurn,
      phase       |-> "segment_drafting" ]

Created(s) == 1..s.turns

-----------------------------------------------------------------------------
(* Branch and turn visibility.                                             *)

\* _require_branch_switchable
Switchable(s, b) == b \in s.made /\ b \notin s.deleted

\* _turn_hidden_by_rollback: either record may say so.
HiddenByRollback(s, b, t) == t \in s.hidden \/ t \in s.hiddenIds[b]

\* The branches met going up from b, b first, and None above the root.
Ancestry(s, b) ==
    LET up[n \in 0..Cardinality(Branches)] ==
          IF n = 0 THEN b
          ELSE IF up[n - 1] = None THEN None ELSE s.parent[up[n - 1]]
    IN  up

\* The branch b and its ancestors.
Lineage(s, b) ==
    LET up == Ancestry(s, b)
    IN  {up[n] : n \in 0..Cardinality(Branches)} \ {None}

\* The turn up to which branch p is read when branch b is active.
Cutoff(s, b, p) ==
    IF p = b
    THEN s.head[b]
    ELSE s.forkedFrom[CHOOSE c \in Lineage(s, b) : s.parent[c] = p]

\* _visible_turns_through_cutoff: a cutoff that is no turn of the branch
\* never stops the scan.
ThroughCutoff(s, t, cutoff) ==
    /\ cutoff # NoTurn
    /\ s.on[cutoff] = s.on[t] => t <= cutoff

VisibleOn(s, b) ==
    {t \in Created(s) : /\ s.on[t] \in Lineage(s, b)
                        /\ t \notin s.hidden
                        /\ ThroughCutoff(s, t, Cutoff(s, b, s.on[t]))}

\* _active_branch_visible_turn_records
VisibleTurns(s) == VisibleOn(s, s.active)

\* active_branch_accepted_story_segments, for any branch: a segment that a
\* discussion wrote is not part of the story, adopted or not.
AcceptedOn(s, b) ==
    {t \in s.telling \cap s.bound : /\ s.status[t] = "settled"
                                    /\ s.art[t] = "accepted"
                                    /\ t \in VisibleOn(s, b)}

\* The chapter record is shared by all branches; a reader of the active
\* branch sees a pending segment only if that segment is visible to it.
EffectivePending(s) ==
    IF s.pending \in VisibleTurns(s) THEN s.pending ELSE NoTurn

EffectivePhase(s) ==
    IF s.pending # NoTurn /\ EffectivePending(s) = NoTurn
    THEN "segment_drafting"
    ELSE s.phase

\* validate_story_command
CommandAllowed(s, cmd) ==
    \/ cmd = "discuss_outline"
    \/ cmd = "write_next_segment" /\ EffectivePhase(s) = "segment_drafting"
    \/ /\ cmd \in {"rewrite_pending_segment", "accept_pending_segment"}
       /\ EffectivePhase(s) = "segment_review"

-----------------------------------------------------------------------------
(* Turns.                                                                  *)

\* create_turn
CreateTurn(s, b, cmd) ==
    LET t == s.turns + 1
    IN  [s EXCEPT !.turns = t, !.on[t] = b, !.status[t] = "started",
                  !.telling = IF cmd \in TellingCommands THEN @ \cup {t} ELSE @,
                  !.head[b] = t]

\* update_turn_status for every status but SETTLED
UpdateStatus(s, t, st) == [s EXCEPT !.status[t] = st]

\* update_turn_status(SETTLED): also un-hides the turn and takes the branch
\* head and the settled anchor, whatever they were.
Settle(s, t) ==
    [s EXCEPT !.status[t] = "settled",
              !.hidden = @ \ {t},
              !.head[s.on[t]] = t,
              !.lastSettled[s.on[t]] = t]

\* Mutants (every operator named ...Mutant is a plausible bug in the
\* operator after it; PROJECT.json says which property refutes it).
ReplacesLastSettledMutant(s, t) == TRUE

\* _should_replace_last_settled_turn
ReplacesLastSettled(s, t) ==
    LET u == s.lastSettled[s.on[t]]
    IN  \/ u = NoTurn
        \/ s.status[u] # "settled"
        \/ u <= t

AdvancesHeadMutant(s, t) == TRUE

\* _should_advance_branch_head
AdvancesHead(s, t) ==
    LET u == s.head[s.on[t]]
    IN  \/ u = NoTurn
        \/ HiddenByRollback(s, s.on[u], u)
        \/ u <= t

\* _mark_turn_settled_preserving_branch_progress
SettleInPlace(s, t) ==
    [s EXCEPT !.status[t] = "settled",
              !.hidden = @ \ {t},
              !.lastSettled[s.on[t]] = IF ReplacesLastSettled(s, t) THEN t ELSE @,
              !.head[s.on[t]] = IF AdvancesHead(s, t) THEN t ELSE @]

EnsureJobsMutant(s, t) ==
    [s EXCEPT !.job[t] = IF @ = "none" THEN "queued" ELSE @]

\* ensure_creation_time_obligations
EnsureJobs(s, t) == [s EXCEPT !.job[t] = IF @ = "none" THEN "pending" ELSE @]

\* mark_required_jobs_deferred / mark_required_jobs_completed
CloseJobs(s, t, st) == [s EXCEPT !.job[t] = IF @ = "pending" THEN st ELSE @]

\* all_required_jobs_terminal; with the acceptance_state every turn keeps,
\* also evaluate_turn_settlement
JobsTerminal(s, t) == s.job[t] \in {"deferred", "completed"}

\* _settle_turn_if_ready
SettleIfReady(s, t) == IF JobsTerminal(s, t) THEN Settle(s, t) ELSE s

\* The statuses _settle_adopted_output_turn_if_visible promotes.
AdoptionCandidate == {"post_write_pending", "post_write_deferred", "completed"}

\* _settle_adopted_output_turn_if_visible: only a visible turn whose own
\* bound output is an accepted segment; its open obligations are deferred.
Adoptable(s, t) ==
    /\ s.status[t] \in AdoptionCandidate
    /\ ~ HiddenByRollback(s, s.on[t], t)
    /\ s.art[t] = "accepted"
    /\ t \in s.bound

SettleAdopted(s, t) ==
    IF Adoptable(s, t)
    THEN SettleInPlace(CloseJobs(s, t, "deferred"), t)
    ELSE s

-----------------------------------------------------------------------------
(* Artifacts and the chapter.                                              *)

\* _persist_generated_artifact_impl for the segment commands: the draft
\* becomes the chapter's pending segment.
PersistSegment(s, t) ==
    [s EXCEPT !.art[t] = "draft", !.pending = t, !.phase = "segment_review"]

\* ... and for discussion output: the chapter record is rewritten with the
\* view the active branch has of it.
PersistMessage(s, t) ==
    [s EXCEPT !.art[t] = "message",
              !.pending = EffectivePending(s),
              !.phase = EffectivePhase(s)]

\* A rewrite is only a candidate until it is adopted.
BindOutput(s, t, cmd) ==
    [s EXCEPT !.bound = IF cmd = "rewrite_pending_segment" THEN @ ELSE @ \cup {t}]

\* persist_generated_artifact, _ensure_writer_completion_obligations included.
\* What a command writes is for the planner to say, whose model may make a
\* segment of a discussion, or a reply of a request to write.
Persist(s, t, cmd, kind) ==
    LET written == IF kind = "message"
                   THEN PersistMessage(s, t)
                   ELSE PersistSegment(s, t)
    IN  UpdateStatus(EnsureJobs(BindOutput(written, t, cmd), t), t,
                     "post_write_pending")

AdoptArtifactMutant(s, t) ==
    [s EXCEPT !.art = [u \in Turns |->
        IF u = t THEN "accepted"
        ELSE IF u \in VisibleTurns(s) /\ s.art[u] \in {"draft", "accepted"}
             THEN "superseded"
             ELSE s.art[u]]]

\* What accept_pending_segment does to artifacts: the target is accepted,
\* the other drafts the active branch can see are superseded.
AdoptArtifact(s, t) ==
    [s EXCEPT !.art = [u \in Turns |->
        IF u = t
        THEN IF s.art[t] = "message" THEN "message" ELSE "accepted"
        ELSE IF u \in VisibleTurns(s) /\ s.art[u] = "draft"
             THEN "superseded"
             ELSE s.art[u]]]

BindAcceptedMutant(s, t) == s

\* bind_turn_output_refs_if_visible
BindAccepted(s, t) ==
    [s EXCEPT !.bound = IF HiddenByRollback(s, s.on[t], t) THEN @ ELSE @ \cup {t}]

BackToDraftingMutant(s) == [s EXCEPT !.phase = "segment_drafting"]

BackToDrafting(s) == [s EXCEPT !.phase = "segment_drafting", !.pending = NoTurn]

\* resolve_pending_artifact: an explicit target of the request or the
\* pending segment, when the active branch can see it
AcceptTargets(s) == {t \in VisibleTurns(s) : s.art[t] # "none"}

\* accept_pending_segment up to its first await
AcceptSegment(s, t) ==
    BackToDrafting(SettleAdopted(BindAccepted(AdoptArtifact(s, t), t), t))

-----------------------------------------------------------------------------
(* Branch control.                                                         *)

CanFork(s, t) ==
    /\ t \in Created(s)
    /\ ~ HiddenByRollback(s, s.on[t], t)
    /\ SettleAdopted(s, t).status[t] = "settled"

\* create_branch_from_turn
ForkFrom(s, t, b) ==
    [s EXCEPT !.made = @ \cup {b},
              !.parent[b] = s.on[t],
              !.forkOrigin[b] = t,
              !.forkedFrom[b] = t,
              !.head[b] = t,
              !.lastSettled[b] = t,
              !.active = b]

Fork(s, t, b) == ForkFrom(SettleAdopted(s, t), t, b)

\* switch_branch
CanSwitch(s, b) == Switchable(s, b)

Switch(s, b) == [s EXCEPT !.active = b]

CanDeleteMutant(s, b) == b \in s.made /\ b # Default

\* delete_branch refuses the default and the current branch only.
CanDelete(s, b) == b \in s.made /\ b # Default /\ b # s.active

Delete(s, b) == [s EXCEPT !.deleted = @ \cup {b}]

OnParentLineageMutant(s, b, t) == s.parent[b] # None /\ s.on[t] = s.parent[b]

\* _turn_is_immediate_parent_lineage_target
OnParentLineage(s, b, t) ==
    /\ s.parent[b] # None
    /\ s.on[t] = s.parent[b]
    /\ t = s.forkOrigin[b] \/ t <= s.forkedFrom[b]

CanRollback(s, t) ==
    LET b == s.active
    IN  /\ Switchable(s, b)
        /\ t \in Created(s)
        /\ s.on[t] = b \/ OnParentLineage(s, b, t)
        /\ ~ HiddenByRollback(s, s.on[t], t)
        /\ ~ HiddenByRollback(s, b, t)
        /\ SettleAdopted(s, t).status[t] = "settled"

LaterTurnsMutant(s, b, t) ==
    {u \in Created(s) : s.on[u] = b /\ (s.on[t] = b => u >= t)}

LaterTurnsAnyBranchMutant(s, b, t) == {u \in Created(s) : u > t}

\* _later_turns_for_rollback
LaterTurns(s, b, t) ==
    {u \in Created(s) : s.on[u] = b /\ (s.on[t] = b => u > t)}

RollbackToMutant(s, t) ==
    LET b == s.active
    IN  [s EXCEPT !.hidden = @ \cup LaterTurns(s, b, t),
                  !.head[b] = t,
                  !.lastSettled[b] = t,
                  !.forkedFrom[b] = IF s.on[t] = b THEN @ ELSE t]

RollbackKeepsForkPointMutant(s, t) ==
    LET b == s.active
        later == LaterTurns(s, b, t)
    IN  [s EXCEPT !.hidden = @ \cup later,
                  !.hiddenIds[b] = @ \cup later,
                  !.head[b] = t,
                  !.lastSettled[b] = t]

\* rollback_to_turn after its checks
RollbackTo(s, t) ==
    LET b == s.active
        later == LaterTurns(s, b, t)
    IN  [s EXCEPT !.hidden = @ \cup later,
                  !.hiddenIds[b] = @ \cup later,
                  !.head[b] = t,
                  !.lastSettled[b] = t,
                  !.forkedFrom[b] = IF s.on[t] = b THEN @ ELSE t]

Rollback(s, t) == RollbackTo(SettleAdopted(s, t), t)

-----------------------------------------------------------------------------
(* What the services rely on in a store.                                   *)

\* The active branch can be worked on, and so can the default branch, which
\* every fallback returns to (switch_branch, delete_branch, create_turn).
ActiveBranchLive(s) == Switchable(s, s.active) /\ Switchable(s, Default)

\* The branch tree is grown in turn order: a fork hangs on turns of its
\* parent, its own turns are younger than the turn it was forked from, and
\* moving the fork point by a rollback never passes that turn
\* (_turn_is_immediate_parent_lineage_target compares creation order).
LineageChronological(s) ==
    /\ \A t \in Created(s) : s.on[t] \in s.made
    /\ \A b \in s.made :
         IF s.parent[b] = None
         THEN s.forkOrigin[b] = NoTurn /\ s.forkedFrom[b] = NoTurn
         ELSE /\ s.parent[b] \in s.made
              /\ s.forkOrigin[b] \in Created(s)
              /\ s.forkedFrom[b] \in Created(s)
              /\ s.on[s.forkOrigin[b]] = s.parent[b]
              /\ s.on[s.forkedFrom[b]] = s.parent[b]
              /\ s.forkedFrom[b] <= s.forkOrigin[b]
              /\ \A t \in Created(s) : s.on[t] = b => t > s.forkOrigin[b]

\* The two records of a rollback agree: the turn's visibility_state, which
\* the readers of story_session_service use, and the branch's
\* rollback_hidden_turn_ids, which the identity service adds.
HiddenViewsAgree(s) ==
    \A b \in Branches :
        s.hiddenIds[b] = {t \in Created(s) : s.on[t] = b /\ t \in s.hidden}

\* The head of a branch is where reading it stops
\* (_visible_turns_through_cutoff), so it is a turn of the branch or of its
\* parent, no visible turn of the branch lies beyond it, and an own head is
\* not hidden.
HeadIsFrontier(s) ==
    \A b \in s.made :
        LET h == s.head[b]
        IN  /\ h # NoTurn
                 => /\ h \in Created(s)
                    /\ s.on[h] \in {b, s.parent[b]}
                    /\ (s.on[h] = b => h \notin s.hidden)
            /\ \A t \in Created(s) :
                 s.on[t] = b /\ t \notin s.hidden
                   => h # NoTurn /\ s.on[h] = b /\ t <= h

\* The settled anchor of a branch is a settled turn of the branch or of its
\* parent, and no settled visible turn of the branch is younger.
AnchorIsLatestSettled(s) ==
    \A b \in s.made :
        LET a == s.lastSettled[b]
        IN  /\ a # NoTurn
                 => /\ a \in Created(s)
                    /\ s.on[a] \in {b, s.parent[b]}
                    /\ s.status[a] = "settled"
                    /\ (s.on[a] = b => a \notin s.hidden)
            /\ \A t \in Created(s) :
                 s.on[t] = b /\ t \notin s.hidden /\ s.status[t] = "settled"
                   => a # NoTurn /\ s.on[a] = b /\ t <= a

\* Adopting a segment settles the turn that wrote it: an accepted segment is
\* the bound output of a settled turn with closed obligations, as
\* active_branch_accepted_story_segments requires of every turn it tells.
AdoptedIsSettled(s) ==
    \A t \in Turns :
        s.art[t] = "accepted"
          => s.status[t] = "settled" /\ JobsTerminal(s, t) /\ t \in s.bound

\* The chapter is under review exactly while it has a pending segment, and
\* that segment is still a draft.
ReviewHasPendingDraft(s) ==
    /\ s.phase = "segment_review" <=> s.pending # NoTurn
    /\ s.pending # NoTurn => s.art[s.pending] = "draft"

-----------------------------------------------------------------------------
(* The strengthening that makes them inductive.                            *)

\* What a turn, its obligations and its output have in common at each stage
\* of the turn's life.  Post-write never shows: it is not committed.
TurnStages(s) ==
    \A t \in Turns :
      \/ /\ t \notin Created(s)
         /\ s.status[t] = "absent" /\ s.art[t] = "none" /\ s.job[t] = "none"
         /\ t \notin s.hidden /\ t \notin s.bound
      \/ /\ t \in Created(s)
         /\ s.status[t] = "started" /\ s.art[t] = "none" /\ s.job[t] = "none"
         /\ t \notin s.bound
      \/ /\ t \in Created(s)
         /\ s.status[t] = "post_write_pending" /\ s.job[t] = "pending"
         /\ s.art[t] \in {"message", "draft", "superseded"}
      \/ /\ t \in Created(s)
         /\ s.status[t] = "settled" /\ s.art[t] = "accepted"
         /\ JobsTerminal(s, t) /\ t \in s.bound

\* An anchor inherited from the parent is the fork point.
InheritedAnchor(s) ==
    \A b \in s.made :
        LET a == s.lastSettled[b]
        IN  a # NoTurn /\ s.on[a] # b => a = s.forkedFrom[b]

StoreInv(s) ==
    /\ s \in Store
    /\ TurnStages(s)
    /\ s.deleted \subseteq s.made
    /\ ActiveBranchLive(s)
    /\ LineageChronological(s)
    /\ HiddenViewsAgree(s)
    /\ HeadIsFrontier(s)
    /\ AnchorIsLatestSettled(s)
    /\ InheritedAnchor(s)
    /\ ReviewHasPendingDraft(s)
=============================================================================
