--------------------------- MODULE SetupWorkspace ---------------------------
(***************************************************************************)
(* One setup workspace (setup_workspace_service.py) from its first draft   *)
(* to the story session it is activated into: drafts, commit proposals,    *)
(* accepted commits, the background ingestion of what a commit accepted    *)
(* (setup_runtime_controller.py, minimal_retrieval_ingestion_service.py),  *)
(* and the activation graph (activation_graph_nodes.py).                   *)
(*                                                                         *)
(* The handlers run to completion on the event loop, so they exclude each  *)
(* other and the activation; the ingestion runs in a worker thread with    *)
(* its own database session and runs between any two steps.                *)
(***************************************************************************)
EXTENDS Naturals, Sequences, FiniteSetsExt, Functions

CONSTANTS
    Steps,          \* the legacy setup steps, all of which must be frozen
    Stages,         \* the stage plan of the mode, in order
    LegacyStep,     \* the legacy step of each stage
    NeedsDraft,     \* the steps whose draft activation reads
    NeedsCommit,    \* the steps of which activation wants a commit
    EntrySteps,     \* the steps whose draft is a list of entries to ingest
    BlueprintStep,
    AssetSteps,     \* the steps assets are registered for
    MaxRevision, MaxCommits

StageSet == Range(Stages)
ASSUME SetupBounds ==
    /\ Stages \in Seq(StageSet) /\ Len(Stages) > 0 /\ IsInjective(Stages)
    /\ AssetSteps \subseteq Steps
    /\ MaxRevision \in Nat /\ MaxCommits \in Nat
Units == Steps \cup StageSet

VARIABLES
    unit,        \* per step and stage: state, last commit, draft revision
    proposed,    \* the steps and stages a commit was ever proposed for
    commit,      \* accepted commits in the order they were accepted
    job,         \* per commit: its ingestion jobs and their states
    setup,       \* the workspace record
    rows,        \* story sessions in the database made from the workspace
    ingesting,   \* commits whose background ingestion has not run yet
    activation,  \* where the activation request is
    thread       \* an error kept in the checkpoints of the activation graph

setupVars ==
    <<unit, proposed, commit, job, setup, rows, ingesting, activation,
      thread>>

StepState == {"discussing", "review_pending", "frozen"}
Readiness == {"not_ready", "ready_for_commit", "ready_for_review", "frozen"}
JobKind == {"entry", "blueprint", "asset"}
JobState == {"queued", "completed", "failed"}

\* Revision 0 is a draft block that does not exist.  parsed: an asset with
\* a parse result is registered for the step.
UnitRecord == [state : StepState, last : 0..MaxCommits, draft : 0..MaxRevision,
         parsed : BOOLEAN]

SetupTypeOK ==
    /\ unit \in [Units -> UnitRecord]
    /\ proposed \subseteq Units
    /\ commit \in Seq([unit : Units, snapshot : 0..MaxRevision])
    /\ DOMAIN job = 1..Len(commit)
    /\ \A c \in DOMAIN job :
         DOMAIN job[c] \subseteq JobKind /\ Range(job[c]) \subseteq JobState
    /\ setup.state \in {"drafting", "ready_to_activate", "activated"}
    /\ setup.stage \in StageSet /\ setup.session \in BOOLEAN
    /\ setup.readiness \in [Units -> Readiness]
    /\ rows \in Nat /\ ingesting \subseteq 1..MaxCommits
    /\ activation \in {"idle", "checking", "seeding", "marking", "refused"}
    /\ thread \in BOOLEAN

\* Every patch stores a draft block, taken to have content: one without any, of
\* an empty patch, would not be ready for a commit.
ReadinessOf(u) ==
    CASE u.state = "frozen" -> "frozen"
      [] u.state = "review_pending" -> "ready_for_review"
      [] u.state = "discussing" /\ u.draft > 0 -> "ready_for_commit"
      [] OTHER -> "not_ready"

RefreshedReadiness(us) == [x \in Units |-> ReadinessOf(us[x])]

SetupInit ==
    /\ unit = [x \in Units |-> [state |-> "discussing", last |-> 0,
                                draft |-> 0, parsed |-> FALSE]]
    /\ proposed = {} /\ commit = <<>> /\ job = <<>>
    /\ setup = [state |-> "drafting", stage |-> Stages[1],
                    session |-> FALSE,
                    readiness |-> [x \in Units |-> "not_ready"]]
    /\ rows = 0 /\ ingesting = {} /\ activation = "idle"
    /\ thread = FALSE

-----------------------------------------------------------------------------
\* The requests: each one ends in its commit.

\* Wrong: an edit leaves a frozen step frozen.
PatchDraftMutant(x) ==
    /\ activation = "idle" /\ unit[x].draft < MaxRevision
    /\ unit' = [unit EXCEPT ![x].draft = @ + 1]
    /\ setup' = [setup EXCEPT !.readiness = RefreshedReadiness(unit')]
    /\ UNCHANGED <<proposed, commit, job, rows, ingesting, activation,
                   thread>>

\* patch_story_config .. patch_stage_draft: a new draft reopens the step or
\* stage, whatever its state.
PatchDraft(x) ==
    /\ activation = "idle" /\ unit[x].draft < MaxRevision
    /\ unit' = [unit EXCEPT ![x].state = "discussing", ![x].draft = @ + 1]
    /\ setup' = [setup EXCEPT !.readiness = RefreshedReadiness(unit')]
    /\ UNCHANGED <<proposed, commit, job, rows, ingesting, activation,
                   thread>>

RegisterAsset(s) ==
    /\ activation = "idle" /\ ~unit[s].parsed
    /\ unit' = [unit EXCEPT ![s].parsed = TRUE]
    /\ UNCHANGED <<proposed, commit, job, setup, rows, ingesting,
                   activation, thread>>

ProposeCommit(x) ==
    /\ activation = "idle"
    /\ proposed' = proposed \cup {x}
    /\ unit' = [unit EXCEPT ![x].state = "review_pending"]
    /\ setup' = [setup EXCEPT !.readiness = RefreshedReadiness(unit')]
    /\ UNCHANGED <<commit, job, rows, ingesting, activation,
                   thread>>

LegacyOf(x) == IF x \in StageSet THEN LegacyStep[x] ELSE x

\* _create_ingestion_job_records for a commit of x.  The blueprint job
\* depends on the step alone, the entry jobs on what the snapshot holds.
JobKindsOf(x) ==
    (IF (x \in StageSet \cup EntrySteps) /\ unit[x].draft > 0
       THEN {"entry"} ELSE {})
    \cup (IF LegacyOf(x) = BlueprintStep THEN {"blueprint"} ELSE {})
    \cup (IF unit[LegacyOf(x)].parsed THEN {"asset"} ELSE {})

\* Wrong: a stage under review counts as passed.
CurrentStageMutant(us, x) ==
    LET open == {i \in DOMAIN Stages : us[Stages[i]].state = "discussing"}
    IN  IF open = {} THEN x ELSE Stages[Min(open)]

\* _advance_current_stage: the first stage that is not frozen, else x.
CurrentStage(us, x) ==
    LET open == {i \in DOMAIN Stages : us[Stages[i]].state # "frozen"}
    IN  IF open = {} THEN x ELSE Stages[Min(open)]

\* Wrong: a commit with nothing to ingest gets no entry for its jobs.
AcceptCommitMutant(x) ==
    LET c == Len(commit) + 1
    IN  /\ activation = "idle" /\ x \in proposed /\ c <= MaxCommits
        /\ commit' = Append(commit, [unit |-> x, snapshot |-> unit[x].draft])
        /\ job' = IF JobKindsOf(x) = {} THEN job
                  ELSE Append(job, [k \in JobKindsOf(x) |-> "queued"])
        /\ unit' = [unit EXCEPT ![x].state = "frozen", ![x].last = c]
        /\ setup' =
             [setup EXCEPT
                !.readiness = RefreshedReadiness(unit'),
                !.stage = IF x \in StageSet THEN CurrentStage(unit', x) ELSE @]
        /\ ingesting' = ingesting \cup {c}
        /\ UNCHANGED <<proposed, rows, activation, thread>>

\* accept_commit and reject_commit look at no status: a proposal can be
\* accepted again, or after it was rejected, and rejected after it was
\* accepted, so that one proposal of x stands for all of them.  What is
\* committed is the draft of that moment.
AcceptCommit(x) ==
    LET c == Len(commit) + 1
    IN  /\ activation = "idle" /\ x \in proposed /\ c <= MaxCommits
        /\ commit' = Append(commit, [unit |-> x, snapshot |-> unit[x].draft])
        /\ job' = Append(job, [k \in JobKindsOf(x) |-> "queued"])
        /\ unit' = [unit EXCEPT ![x].state = "frozen", ![x].last = c]
        /\ setup' =
             [setup EXCEPT
                !.readiness = RefreshedReadiness(unit'),
                !.stage = IF x \in StageSet THEN CurrentStage(unit', x) ELSE @]
        /\ ingesting' = ingesting \cup {c}
        /\ UNCHANGED <<proposed, rows, activation, thread>>

\* Wrong: the readiness is not refreshed.
RejectCommitMutant(x) ==
    /\ activation = "idle" /\ x \in proposed
    /\ unit' = [unit EXCEPT ![x].state = "discussing"]
    /\ UNCHANGED <<proposed, commit, job, setup, rows, ingesting, activation,
                   thread>>

RejectCommit(x) ==
    /\ activation = "idle" /\ x \in proposed
    /\ unit' = [unit EXCEPT ![x].state = "discussing"]
    /\ setup' = [setup EXCEPT !.readiness = RefreshedReadiness(unit')]
    /\ UNCHANGED <<proposed, commit, job, rows, ingesting, activation,
                   thread>>

-----------------------------------------------------------------------------
\* ingest_commit in the worker thread: every job of the commit is run and the
\* results are committed together.
IngestCommit(c) ==
    /\ c \in ingesting
    /\ \E result \in [DOMAIN job[c] -> {"completed", "failed"}] :
         job' = [job EXCEPT ![c] = result]
    /\ ingesting' = ingesting \ {c}
    /\ UNCHANGED <<unit, proposed, commit, setup, rows, activation, thread>>

\* An exception escapes it after some of the jobs; the readiness refresh in
\* the finally clause commits what was flushed up to there.
IngestAbort(c) ==
    /\ c \in ingesting
    /\ \E done \in (SUBSET DOMAIN job[c]) \ {DOMAIN job[c]} :
         job' = [job EXCEPT ![c] =
                   [k \in DOMAIN @ |-> IF k \in done THEN "completed"
                                                     ELSE @[k]]]
    /\ ingesting' = ingesting \ {c}
    /\ UNCHANGED <<unit, proposed, commit, setup, rows, activation, thread>>

-----------------------------------------------------------------------------
\* Wrong: only failed jobs block.
ActivationReadyMutant ==
    /\ \A s \in Steps : unit[s].state = "frozen"
    /\ \A s \in NeedsDraft : unit[s].draft > 0
    /\ \A s \in NeedsCommit : \E c \in DOMAIN commit : commit[c].unit = s
    /\ \A c \in DOMAIN job : \A k \in DOMAIN job[c] : job[c][k] # "failed"

\* run_activation_check: what it requires of the workspace.
ActivationReady ==
    /\ \A s \in Steps : unit[s].state = "frozen"
    /\ \A s \in NeedsDraft : unit[s].draft > 0
    /\ \A s \in NeedsCommit : \E c \in DOMAIN commit : commit[c].unit = s
    /\ \A c \in DOMAIN job : \A k \in DOMAIN job[c] : job[c][k] = "completed"

\* Its verdict is stored, also over the state of an activated workspace.
StoreVerdict(ready) ==
    setup' = [setup EXCEPT
                    !.state = IF ready THEN "ready_to_activate" ELSE "drafting"]

\* The check alone, as the endpoint activation-check runs it.
ActivationCheck ==
    /\ activation = "idle"
    /\ StoreVerdict(ActivationReady)
    /\ UNCHANGED <<unit, proposed, commit, job, rows, ingesting, activation,
                   thread>>

\* The endpoint activate runs the check for its trace first, then the graph.
Activate ==
    /\ activation = "idle"
    /\ StoreVerdict(ActivationReady)
    /\ activation' = "checking"
    /\ UNCHANGED <<unit, proposed, commit, job, rows, ingesting, thread>>

\* The state of the graph survives in its checkpoint thread, one thread per
\* workspace, and the initial state of a new invocation does not clear the
\* error a former one left: every node returns at once.
ThreadRefuses ==
    /\ activation = "checking" /\ thread
    /\ activation' = "refused"
    /\ UNCHANGED <<unit, proposed, commit, job, setup, rows, ingesting, thread>>

\* load_workspace returns the session of an activated workspace.
LoadActivated ==
    /\ activation = "checking" /\ ~thread /\ setup.session
    /\ activation' = "idle"
    /\ UNCHANGED <<unit, proposed, commit, job, setup, rows, ingesting, thread>>

\* Wrong: an activated workspace is checked again.
GraphCheckMutant ==
    /\ activation = "checking" /\ ~thread
    /\ StoreVerdict(ActivationReady)
    /\ activation' = IF ActivationReady THEN "seeding" ELSE "refused"
    /\ thread' = ~ActivationReady
    /\ UNCHANGED <<unit, proposed, commit, job, rows, ingesting>>

\* The check of the graph decides; a refusal ends the request.
GraphCheck ==
    /\ activation = "checking" /\ ~thread /\ ~setup.session
    /\ StoreVerdict(ActivationReady)
    /\ activation' = IF ActivationReady THEN "seeding" ELSE "refused"
    /\ thread' = ~ActivationReady
    /\ UNCHANGED <<unit, proposed, commit, job, rows, ingesting>>

\* The request ends in the error of the graph.
AnswerRefusal ==
    /\ activation = "refused"
    /\ activation' = "idle"
    /\ UNCHANGED <<unit, proposed, commit, job, setup, rows, ingesting, thread>>

\* create_session and create_chapter_workspace flush and do not commit.
SeedSession ==
    /\ activation = "seeding"
    /\ activation' = "marking"
    /\ UNCHANGED <<unit, proposed, commit, job, setup, rows, ingesting, thread>>

\* mark_activated_story_session commits its mark with the seeded rows.
MarkActivated ==
    /\ activation = "marking"
    /\ setup' = [setup EXCEPT !.state = "activated", !.session = TRUE]
    /\ rows' = rows + 1
    /\ activation' = "idle"
    /\ UNCHANGED <<unit, proposed, commit, job, ingesting, thread>>

\* The process dies and restarts: the background tasks and an unfinished
\* activation are gone, what was committed stays.
SetupCrash ==
    /\ ingesting # {} \/ activation # "idle"
    /\ ingesting' = {} /\ activation' = "idle"
    /\ UNCHANGED <<unit, proposed, commit, job, setup, rows, thread>>

SetupNext ==
    \/ \E x \in Units :
         PatchDraft(x) \/ ProposeCommit(x) \/ AcceptCommit(x) \/ RejectCommit(x)
    \/ \E s \in AssetSteps : RegisterAsset(s)
    \/ \E c \in 1..MaxCommits : IngestCommit(c) \/ IngestAbort(c)
    \/ ActivationCheck \/ Activate \/ ThreadRefuses \/ LoadActivated
    \/ GraphCheck \/ AnswerRefusal \/ SeedSession \/ MarkActivated \/ SetupCrash

SetupSpec == SetupInit /\ [][SetupNext]_setupVars

-----------------------------------------------------------------------------
\* What the setup agent of a stage is handed from the stages before it.

\* Wrong: a stage hands on its first commit.
LatestCommitMutant(x) ==
    LET made == {c \in DOMAIN commit : commit[c].unit = x}
    IN  IF made = {} THEN 0 ELSE Min(made)

\* _latest_commit_by_lifecycle.
LatestCommit(x) ==
    LET made == {c \in DOMAIN commit : commit[c].unit = x}
    IN  IF made = {} THEN 0 ELSE Max(made)

\* The commit that stands for a stage: its own, else that of its legacy step.
CommitOf(stage) ==
    IF LatestCommit(stage) > 0 THEN LatestCommit(stage)
                               ELSE LatestCommit(LegacyStep[stage])

\* _collect_prior_canonical_stage_handoffs, each commit once.
Handoffs(stage) ==
    {CommitOf(Stages[i]) : i \in {j \in DOMAIN Stages :
        \E k \in DOMAIN Stages : j < k /\ Stages[k] = stage}} \ {0}

-----------------------------------------------------------------------------
\* A frozen step or stage shows the draft of its last commit: no edit slips
\* under a commit without reopening what was committed.
FrozenIsCommitted ==
    \A x \in Units :
      unit[x].state = "frozen" =>
        /\ unit[x].last \in DOMAIN commit
        /\ commit[unit[x].last] = [unit |-> x, snapshot |-> unit[x].draft]

\* The stored readiness is that of the stored steps, stages and drafts.
ReadinessIsFresh == setup.readiness = RefreshedReadiness(unit)

\* However often activation is requested and wherever it dies, the workspace
\* has the one story session it is marked with, or none.
OneStorySession == rows = IF setup.session THEN 1 ELSE 0

\* The stage plan is walked in order: every stage before the current one has
\* been committed.
PassedStagesCommitted ==
    \A i \in DOMAIN Stages :
      (\E j \in DOMAIN Stages : i < j /\ Stages[j] = setup.stage) =>
        unit[Stages[i]].last > 0

\* The agent of a stage is handed, of every stage before it that is frozen,
\* what that stage shows now.
HandoffsAreCurrent ==
    \A i, j \in DOMAIN Stages :
      (i < j /\ unit[Stages[i]].state = "frozen") =>
        \E c \in Handoffs(Stages[j]) :
          commit[c] = [unit |-> Stages[i], snapshot |-> unit[Stages[i]].draft]

\* A workspace is activated with all steps frozen as committed and all that
\* its commits accepted ingested.
ActivatedWhole ==
    ~setup.session /\ setup'.session =>
      /\ \A s \in Steps : unit[s].state = "frozen"
      /\ \A c \in DOMAIN commit : \A k \in DOMAIN job[c] :
           job[c][k] = "completed"

\* What a setup workspace says of itself is so: a frozen step or stage shows
\* the draft of its last commit, the stored readiness is that of its drafts,
\* the stages behind the current one are committed, a frozen one hands on what
\* it shows, it has the one story session it is marked with, wherever an
\* activation died, and it is activated with all its steps frozen and
\* everything its commits accepted ingested (SetupWorkspaceService,
\* SetupContextBuilder, run_activation_check, mark_activated_story_session).
WorkspaceIsSound ==
    /\ [](/\ FrozenIsCommitted /\ ReadinessIsFresh /\ PassedStagesCommitted
          /\ HandoffsAreCurrent /\ OneStorySession)
    /\ [][ActivatedWhole]_setupVars

=============================================================================
