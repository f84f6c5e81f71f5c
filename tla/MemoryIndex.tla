---------------------------- MODULE MemoryIndex ----------------------------
(***************************************************************************)
(* What a story remembers outside its core state: the versions of a source *)
(* imported at setup (archival_evolution_service.py), the transcripts of   *)
(* its scenes (recall_scene_transcript_ingestion_service.py), what a       *)
(* reader's review makes of them (recall_lifecycle_service.py), the chunks *)
(* they are searched by (retrieval_ingestion_service.py, indexer.py), and  *)
(* what of it a turn finds: BranchVisibilityResolver decides by the        *)
(* metadata of the chunks, as they were when they were indexed, and falls  *)
(* back to those of the asset.                                             *)
(*                                                                         *)
(* One source and one scene.  A request is one transaction; a request that *)
(* raises leaves nothing.                                                  *)
(***************************************************************************)
EXTENDS Naturals, SequencesExt, FiniteSetsExt

CONSTANTS
    Branches, Trunk, Nobody,
    MaxTurns,    \* turns of the session
    MaxAssets    \* versions of the source and transcripts of the scene

ASSUME MemoryBounds ==
    /\ Trunk \in Branches /\ Nobody \notin Branches
    /\ MaxTurns \in Nat /\ MaxAssets \in Nat \ {0}

VARIABLES
    made, parent, forkedFrom,  \* the branches, and where each forks
    turnBranch, \* per turn: its branch, in the order they were created
    hidden,     \* turns rolled back
    closed,     \* the scene is closed
    assets,     \* SourceAssetRecord
    index       \* per asset: the metadata of its active chunks

branchVars == <<made, parent, forkedFrom, turnBranch, hidden>>
memoryVars == <<branchVars, closed, assets, index>>

NoTurn == 0

\* What visibility is decided by.  A scope of the code that lists branches
\* (selected_branches, all_existing_branches) is "listed".
Tags == [scope : {"story_global", "current_branch", "listed"},
         owner : Branches \cup {Nobody}, turn : 0..MaxTurns,
         branches : SUBSET Branches,
         state : {"active", "superseded", "invalidated"}]

Untagged == [scope |-> "story_global", owner |-> Nobody, turn |-> NoTurn,
             branches |-> {}, state |-> "active"]

\* The active chunks of an asset: with tags, without them, or none at all.
Tagged(g) == [chunks |-> "tagged", tags |-> g]
Bare == [chunks |-> "bare", tags |-> Untagged]
NoChunks == [chunks |-> "none", tags |-> Untagged]

\* materialized: the metadata say which layer it is of.
Asset == [kind : {"source", "scene"}, key : Branches \cup {Nobody},
          version : 1..MaxAssets, tags : Tags, materialized : BOOLEAN,
          indexed : BOOLEAN]

MemoryTypeOK ==
    /\ made \subseteq Branches /\ Trunk \in made
    /\ parent \in [Branches -> made \cup {Nobody}]
    /\ forkedFrom \in [Branches -> 0..Len(turnBranch)]
    /\ turnBranch \in Seq(made) /\ Len(turnBranch) <= MaxTurns
    /\ hidden \subseteq DOMAIN turnBranch
    /\ closed \in BOOLEAN
    /\ assets \in Seq(Asset) /\ Len(assets) <= MaxAssets
    /\ Len(index) = Len(assets)
    /\ \A a \in DOMAIN index :
         index[a] \in [chunks : {"tagged", "bare", "none"}, tags : Tags]

\* A session is activated with its sources imported and indexed.
MemoryInit ==
    /\ made = {Trunk} /\ parent = [b \in Branches |-> Nobody]
    /\ forkedFrom = [b \in Branches |-> NoTurn]
    /\ turnBranch = <<>> /\ hidden = {} /\ closed = FALSE
    /\ assets = <<[kind |-> "source", key |-> Nobody, version |-> 1,
                   tags |-> Untagged, materialized |-> TRUE,
                   indexed |-> TRUE]>>
    /\ index = <<Tagged(Untagged)>>

-----------------------------------------------------------------------------
(* What a turn reads.                                                      *)

\* build_runtime_scope: a branch, its parent, and so on.
Lineage[b \in Branches] ==
    {b} \cup (IF parent[b] = Nobody THEN {} ELSE Lineage[parent[b]])

\* turn_cutoff_by_branch: how far a turn reads a branch of its lineage.
Cutoff(t, o) ==
    IF o = turnBranch[t] THEN t
    ELSE forkedFrom[CHOOSE c \in Lineage[turnBranch[t]] : parent[c] = o]

\* is_visible: whether a turn sees what has these tags.
Visible(g, t) ==
    /\ g.state = "active"
    /\ g.owner \in Lineage[turnBranch[t]] => g.turn \notin hidden
    /\ \/ g.scope = "story_global"
       \/ g.scope = "listed" /\ turnBranch[t] \in g.branches
       \/ /\ g.scope = "current_branch"
          /\ g.owner \in Lineage[turnBranch[t]]
          /\ g.turn <= Cutoff(t, g.owner)

\* build_chunk_hit with filter_hits_by_branch_visibility.
HitTags(a) == IF index[a] = Bare THEN assets[a].tags ELSE index[a].tags

\* A search at turn t finds asset a.
Found(a, t) == index[a] # NoChunks /\ Visible(HitTags(a), t)

\* _asset_visible: what the inspection shows, by the asset's own metadata.
AssetVisible(a, t) == Visible(assets[a].tags, t)

\* _require_visible_material_refs: what may be reviewed or replaced.
Inspected(a, t) == assets[a].materialized /\ AssetVisible(a, t)

\* parse, chunk: the sections an asset was materialized with hand their tags
\* on to the chunks; without sections an excerpt of the text is indexed.
Chunks(x) == IF x.materialized THEN Tagged(x.tags) ELSE Bare

\* process_job, _process_asset: the chunks of an asset are replaced whole, or,
\* the job having failed, left as they were.
Reindexed(ix, a, as, ok) ==
    IF ok THEN [ix EXCEPT ![a] = Chunks(as[a])] ELSE ix

-----------------------------------------------------------------------------
(* The story goes on: turns, forks and rollbacks, each of them settled.    *)

BeginTurn(b) ==
    /\ Len(turnBranch) < MaxTurns /\ b \in made
    /\ turnBranch' = Append(turnBranch, b)
    /\ UNCHANGED <<made, parent, forkedFrom, hidden, closed, assets, index>>

\* create_branch_from_turn.
ForkAt(t, c) ==
    /\ c \notin made /\ t \notin hidden
    /\ made' = made \cup {c}
    /\ parent' = [parent EXCEPT ![c] = turnBranch[t]]
    /\ forkedFrom' = [forkedFrom EXCEPT ![c] = t]
    /\ UNCHANGED <<turnBranch, hidden, closed, assets, index>>

\* rollback_to_turn, to a turn of the branch or of its parent.
RollbackTurn(b, t) ==
    /\ b \in made /\ t \notin hidden
    /\ turnBranch[t] = b \/ (turnBranch[t] = parent[b] /\ t <= forkedFrom[b])
    /\ hidden' = hidden \cup {u \in DOMAIN turnBranch :
                                turnBranch[u] = b /\ (turnBranch[t] = b => u > t)}
    /\ forkedFrom' = [forkedFrom EXCEPT ![b] = IF turnBranch[t] = b THEN @ ELSE t]
    /\ UNCHANGED <<made, parent, turnBranch, closed, assets, index>>

-----------------------------------------------------------------------------
(* Versions of the source.                                                 *)

\* _build_new_source_metadata: the tags of a version made at turn t.
EvolvedTags(t, scope, bs) ==
    [scope |-> scope, owner |-> turnBranch[t], turn |-> t, branches |-> bs,
     state |-> "active"]

\* _supersede_source_asset.
Supersede(a, as) == [as EXCEPT ![a].tags.state = "superseded"]

\* _deactivate_superseded_chunks.
Withdraw(a, ix) == [ix EXCEPT ![a] = NoChunks]

\* evolve_source: a version that could not be indexed stands beside the old
\* one, without chunks, and a warning says so.
EvolveSource(a, t, scope, bs, ok) ==
    /\ Len(assets) < MaxAssets
    /\ assets[a].kind = "source" /\ Inspected(a, t)
    /\ assets' =
         Append(IF ok THEN Supersede(a, assets) ELSE assets,
                [kind |-> "source", key |-> Nobody,
                 version |-> assets[a].version + 1,
                 tags |-> EvolvedTags(t, scope, bs), materialized |-> TRUE,
                 indexed |-> ok])
    /\ LET ix == Append(IF ok THEN Withdraw(a, index) ELSE index, NoChunks)
       IN  index' = Reindexed(ix, Len(assets'), assets', ok)
    /\ UNCHANGED <<branchVars, closed>>

\* _selected_branch_ids: the current branch, some, those there are now, all.
Evolve(t) ==
    \E a \in DOMAIN assets, ok \in BOOLEAN :
      \/ EvolveSource(a, t, "story_global", {}, ok)
      \/ EvolveSource(a, t, "current_branch", {turnBranch[t]}, ok)
      \/ \E bs \in (SUBSET made) \ {{}} : EvolveSource(a, t, "listed", bs, ok)

-----------------------------------------------------------------------------
(* Transcripts of the scene.                                               *)

\* ingest_scene_transcript: one asset for each branch it is ingested for, and
\* one for a scene closed without a runtime identity.  What is ingested again
\* is built anew, and its chunks with it; a failed job fails the request.
Transcript(k, g) ==
    LET new == [kind |-> "scene", key |-> k, version |-> 1, tags |-> g,
                materialized |-> TRUE, indexed |-> TRUE]
        here == {a \in DOMAIN assets :
                   assets[a].kind = "scene" /\ assets[a].key = k}
        a == IF here = {} THEN Len(assets) + 1 ELSE CHOOSE x \in here : TRUE
        ix == IF here = {} THEN Append(index, NoChunks) ELSE index
    IN  /\ a <= MaxAssets
        /\ assets' = IF here = {} THEN Append(assets, new)
                     ELSE [assets EXCEPT ![a] = new]
        /\ index' = Reindexed(ix, a, assets', TRUE)

\* _materialize_closed_scene_transcript_if_needed, for a turn that is new.
TranscriptOfTurn(b) ==
    /\ Len(turnBranch) < MaxTurns /\ turnBranch' = Append(turnBranch, b)
    /\ Transcript(b, [scope |-> "current_branch", owner |-> b,
                      turn |-> Len(turnBranch) + 1, branches |-> {},
                      state |-> "active"])
    /\ UNCHANGED <<made, parent, forkedFrom, hidden>>

\* close_current_scene of the controller: no identity is passed on.
CloseScene ==
    /\ ~closed /\ closed' = TRUE
    /\ Transcript(Nobody, Untagged) /\ UNCHANGED branchVars

\* complete_chapter closes the scene it is in.
CompleteInScene(b) == ~closed /\ closed' = TRUE /\ TranscriptOfTurn(b)

\* accept_pending_segment, of a segment of the closed scene.
AcceptInScene(b) == closed /\ UNCHANGED closed /\ TranscriptOfTurn(b)

-----------------------------------------------------------------------------
(* Review.                                                                 *)

\* Wrong: what is marked is not indexed anew.
MarkedMutant(a) == index' = index
\* _mark_assets: the asset and its sections are marked and indexed anew.
Marked(a) == index' = Reindexed(index, a, assets', TRUE)

\* invalidate_material, supersede_material.
MarkMaterial(a, t, state) ==
    /\ assets[a].kind = "scene" /\ Inspected(a, t)
    /\ assets' = [assets EXCEPT ![a].tags.state = state]
    /\ Marked(a)
    /\ UNCHANGED <<branchVars, closed>>

\* recompute_material: the metadata of the review take the place of all there
\* were, the sections and the layer among them.
RecomputeMaterial(a, t) ==
    /\ assets[a].kind = "scene" /\ Inspected(a, t)
    /\ assets' = [assets EXCEPT ![a].tags = Untagged,
                                ![a].materialized = FALSE]
    /\ index' = Reindexed(index, a, assets', TRUE)
    /\ UNCHANGED <<branchVars, closed>>

ReviewRecall(t) ==
    \E a \in DOMAIN assets :
      \/ \E s \in {"superseded", "invalidated"} : MarkMaterial(a, t, s)
      \/ RecomputeMaterial(a, t)

MemoryNext ==
    \/ \E b \in made : BeginTurn(b)
    \/ \E t \in DOMAIN turnBranch, c \in Branches : ForkAt(t, c)
    \/ \E b \in made, t \in DOMAIN turnBranch : RollbackTurn(b, t)
    \/ \E t \in DOMAIN turnBranch : Evolve(t) \/ ReviewRecall(t)
    \/ CloseScene
    \/ \E b \in made : CompleteInScene(b) \/ AcceptInScene(b)

MemorySpec == MemoryInit /\ [][MemoryNext]_memoryVars

-----------------------------------------------------------------------------
(* Properties.                                                             *)

\* What was superseded or invalidated is found at no turn any more: the chunks
\* follow the state of the asset (_mark_assets, _deactivate_superseded_chunks).
OutdatedIsNotFound ==
    \A a \in DOMAIN assets, t \in DOMAIN turnBranch :
        assets[a].tags.state # "active" => ~Found(a, t)

Versions == {a \in DOMAIN assets : assets[a].kind = "source"}

\* A source has chunks in one version, and in one more for every version that
\* could not be indexed when it was made and was replaced in its turn: the
\* version it should have replaced is never taken out (evolve_source).
VersionsAddUp ==
    Cardinality({a \in Versions : index[a] # NoChunks}) =
      1 + Cardinality({a \in Versions :
                         /\ ~assets[a].indexed
                         /\ assets[a].tags.state = "superseded"})

\* A version that could not be indexed takes nothing away: a source that was
\* found at a turn is found there, unless a version that is indexed was made
\* or turns were rolled back.
FailedVersionCostsNothing ==
    \A t \in DOMAIN turnBranch :
      (\E a \in Versions : Found(a, t)) =>
        \/ \E a \in Versions' : Found(a, t)'
        \/ hidden' # hidden \/ forkedFrom' # forkedFrom
        \/ Len(assets') > Len(assets) /\ Last(assets').indexed

\* No turn, fork or rollback lets an older turn find what it did not find, but
\* a rollback of its branch to a later turn of the parent
\* (build_runtime_scope).
FoundByIndexingOnly ==
    index' = index /\ forkedFrom' = forkedFrom =>
      \A t \in DOMAIN turnBranch, a \in DOMAIN assets :
        Found(a, t)' => Found(a, t)

\* What was superseded or invalidated is found no more, a source has one version
\* to be found in, and one more for each that could not be indexed and was
\* replaced, a version that could not be indexed takes nothing away, and only
\* indexing lets a turn find what it did not (archival_evolution_service.py,
\* recall_lifecycle_service.py, BranchVisibilityResolver).
MemoryIsSound ==
    /\ [](OutdatedIsNotFound /\ VersionsAddUp)
    /\ [][FailedVersionCostsNothing /\ FoundByIndexingOnly]_memoryVars

\* As test_archival_evolution_service.py says of an imported source, it "is
\* visible to every branch": while nothing is rolled back and no version is
\* listed for some branches only, the last turn of every branch finds it in
\* some version.
SourceOnEveryBranch ==
    (hidden = {} /\ \A a \in Versions : assets[a].tags.scope # "listed")
    => \A b \in made :
         LET ts == {t \in DOMAIN turnBranch : turnBranch[t] = b}
         IN  ts # {} => \E a \in Versions : Found(a, Max(ts))
=============================================================================
