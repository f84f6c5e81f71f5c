# Verification of the story runtime, its memory and the chat backend

TLA+ modules, TLC configurations and machine-checked proofs for the parts of
this repository that are hard to test: the runtime that writes a story turn by
turn, on branches that can be forked, switched, rolled back and deleted, while
every request works in a database session of its own; the core state the story is
written from, which only reviewed proposals change, revision by revision, and which
every turn reads as of its own place on its branch; what the models of a turn are
told, from packets, prompts, searches and a memory graph; how a story is set up; and
the chat backend, with its MCP connections, message trees and model streams.

## 1. The system

The repository is a Flutter client (`lib/`), a FastAPI backend (`backend/`) for
chat and roleplay stories, platform shells and vendored packages.  The program's
own core logic is in `backend/rp`.

| component | where (`backend/...`) | state | operations | modelled by |
|---|---|---|---|---|
| Story branches and turn identity | `rp/services/story_runtime_identity_service.py` | branch heads, turns, receipts | create turn, update status, settle, settle on adoption; create, switch, delete, roll back a branch | `StoryStore`, `StoryTurns` |
| Story turn execution | `rp/services/story_turn_domain_service.py`, `rp/graphs/story_graph_*.py`, `api/rp_story.py` | artifacts, the graph's position | bind thread, pin, write, persist, post-write, accept, finalize | `StoryTurns`; outlines and chapters in `ChapterRuntime`, `WriterPacket` |
| Post-write obligations | `rp/services/runtime_workflow_job_service.py` | workflow jobs of a turn | ensure, defer, complete, evaluate settlement | `StoryStore` |
| Sessions, chapters, visibility | `rp/services/story_session_service.py`, `story_command_policy.py` | chapter phase and pending segment | active-branch views, command policy | `StoryStore`, `ChapterRuntime` |
| Branch control facade, database | `rp/services/story_runtime_controller.py`, `services/database.py` | sessions and the write lock | commit, close | `StoryTurns` |
| Chapter runtime | `longform_chapter_runtime_service.py`, `longform_regression_service.py` | outline progress, chapter bridge, recall of accepted prose | outline, write, rewrite, accept, complete a chapter, roll back | `ChapterRuntime` |
| Proposal workflow, governance | `proposal_*.py`, `story_block_mutation_service.py`, ... | proposals, apply receipts | submit, route, review, apply | `CoreMutations` |
| Core state store | `core_state_*.py`, `runtime_read_manifest_service.py`, `authoritative_compatibility_mirror_service.py` | rows, revisions, manifests, bindings of turns, the legacy mirror | seed, write, record a mutation, read as of a turn | `CoreState` |
| Projections and prompts | `projection_*_service.py`, `story_block_*_service.py`, `rp_block_read_service.py` | summaries of a chapter, consumers, kept prompts | append, refresh, seed, backfill, compile, mark synced | `ProjectionBlocks` |
| Writer packets | `context_orchestration_service.py`, `writing_packet_builder.py` | the packet of a turn | generate, accept, complete; fork, switch, roll back | `WriterPacket` |
| Retrieval | `rp/retrieval/`, `retrieval_broker.py`, `retrieval_service.py` | settings, the registry of models, indexes, a query | index, configure, ask, retrieve, rerank, answer | `RetrievalSearch` |
| The writer's retrieval loop | `writing_worker_retrieval_loop_service.py`, `runtime_retrieval_*.py` | cards, chunks, misses, usage records | search, expand, record usage, answer | `WriterRetrieval` |
| Recall and archival memory | `archival_evolution_service.py`, `recall_*.py`, `retrieval_ingestion_service.py` | versions of sources, transcripts, chunks | evolve, ingest, reindex, review | `MemoryIndex` |
| Memory graph | `memory_graph_*.py`, `rp/retrieval/graph_expansion.py` | jobs, nodes, edges, evidence | queue, process, retry, rebuild, expand | `MemoryGraph` |
| Workspace materials | `runtime_workspace_material_service.py` | per-turn materials | those of cards, brainstorms and overlays | `WriterRetrieval`, `Brainstorm`, `DraftReview` |
| Runtime profile snapshots | `runtime_profile_snapshot_service.py`, `runtime_config_control_service.py` | snapshots, control records | compile, publish, pin, patch | `RuntimeProfiles` |
| Draft review | `revision_overlay_service.py`, `rewrite_*.py`, `draft_*.py` | overlays, requests, candidates, selections | comment, request, rewrite, select, adopt | `DraftReview` |
| Brainstorm sessions | `story_brainstorm_service.py` | windows, batches, items | discuss, summarize, edit, submit, close | `Brainstorm` |
| Setup workspace and activation | `setup_workspace_service.py`, `setup_runtime_controller.py`, `rp/graphs/activation_graph_*.py` | drafts, commits, jobs, readiness | patch, propose, accept, reject, ingest, activate | `SetupWorkspace` |
| Setup agent | `rp/agent_runtime/`, `setup_agent_execution_service.py` | a run, its stream, its snapshot | call model, inspect, execute tools, repair, reflect, finish | `SetupAgent` |
| Context compaction | `rp/context_engineering/`, `setup_context_*_service.py` | the stored summary of a step | select, compact, ask the model, persist | `SetupContext` |
| Conversation trees | `services/conversation_source.py` | message tree, checkpoints, record | append (new messages, or some sent again), edit, delete, select, clear | `ConversationTree` |
| MCP manager | `services/mcp_manager.py`, `api/mcp.py`, `main.py` | configurations, sessions, exit stacks, tool lists, errors, connection locks | upsert, delete, connect, disconnect; startup and shutdown hooks | `McpManager` |
| Model gateway | `services/runtime_routing_service.py`, `litellm_service.py`, `llm_proxy.py`, `tool_runtime_service.py`, `api/chat.py` | a stream, its tool rounds, its guard | stream, take over, call tools, forward, time out, close | `ModelGateway` |
| Workers and post-write scheduling | `worker_*.py`, `post_write_scheduler_service.py` | - | - | no: section 6 |
| Evaluation, observability | `rp/eval`, `rp/observability` | - | - | no: offline tooling and reporting |
| Flutter client | `lib/` | widgets, streams, a circuit breaker | - | no: user interface |

**How they interact.**  An HTTP request opens a database session (`get_session`),
runs a story graph whose nodes call the turn service, which calls the identity,
session and job services on that same session.  Branch controls are requests
of their own.  Story requests share nothing in memory: they meet in the database,
and in the checkpointer of the graph, which is only read for debugging.  Proposals
come from the editor of memory blocks, the review list, the regression of an accepted
segment and the memory tools; each goes through one workflow service into one apply
service, which writes mirror, receipt, row, revision and manifest in the session of
its caller.  A turn reads the core state through the manifest it is bound to, and is
told the chapter's summaries, its branch's segments and bridge, the recent discussion
and what it searches for.  Setup drafts become commits, commits sources and a story
session.  The MCP manager is one object in memory for all requests, the startup task
and the shutdown hook; chat and story requests take tools and sessions from it.

**What is hard.**  A request awaits model calls between reading the active branch
and creating its turn, between flushing and committing, and between committing
and its post-write work; other requests and branch controls run in between.  A
session that has flushed holds the write lock of the (SQLite) database.  Turn
visibility, branch heads, settled anchors, fork points, obligations and the
chapter's review state are separate records that must agree after every commit.
Applying a proposal is six writes inside a savepoint, most callers commit whether it
succeeded or not, and the number of the new revision, the base it is checked against
and the value it adds to come from three different places.  What belongs to a chapter
is shared by its branches; what belongs to a turn is found along a lineage with a
cut-off at every fork point.  Summaries, prompts, snapshots and indexes are copies that
have to notice what they were made from.  Streams end by themselves, by an error, by a
timeout or with their client, and must end once.

## 2. Modules

| module | what it is |
|---|---|
| `StoryStore` | the database of one session as a record, every service operation as an operator from stores to stores, what the services rely on as predicates of a store |
| `StoryTurns` | requests, branch controls and restarts as actions on the durable store and on the uncommitted working copy of the lock holder; the specification, its properties and the inductive invariant |
| `StoryLedger`, `StoryRefinement` | the abstract specification, what the runtime promises a reader of the story as a ledger of turns, and the refinement mapping from `StoryTurns` |
| `CoreState` | the core state of a session as a record, every operation of the store, the manifests and the apply service as operators on it, over the turns and branches of `StoryStore` |
| `CoreMutations` | proposals from submission to application, among turns and branch controls; properties and inductive invariants |
| `ProjectionBlocks`, `WriterPacket`, `RetrievalSearch` | what the models of a turn are told |
| `ChapterRuntime`, `DraftReview`, `Brainstorm`, `RuntimeProfiles` | chapters and their progress; the review of a draft; brainstorms; profile snapshots |
| `WriterRetrieval`, `MemoryIndex`, `MemoryGraph` | the writer's searches and their usage records; archival and recall memory on branches; the memory graph |
| `SetupWorkspace`, `SetupAgent`, `SetupContext` | the workspace from draft to activation; the agent's loop; the summary of its discussion |
| `McpManager`, `ConversationTree`, `ModelGateway` | the chat backend |
| `MCStoryTurns`, `MCCoreMutations` | symmetry sets for the TLC runs |
| `MCCoreStory`, `MCDrafting`, `MCChat`, `MCMcpManager` | compose components for TLC: a behaviour is one of any one part, the variables of the others stay as they are |
| `StoryStoreProofs`, `StoryTurnsProofs`, `CoreStateProofs`, `CoreMutationsProofs`, `CorePastProofs`, `McpManagerProofs`, `ChatProofs`, `DraftingProofs` | lemmas and theorems |

Each component that keeps state of its own and is not read inside another's
transaction is a module with its own variables.  The composing modules do not add
interleavings between such components, because the code has none that matter to their
properties: each operation is one database transaction over its own records.  Where a
component does work inside the transaction of another (settlement in a turn, manifests in
a proposal) they are one specification.

### 2.1 The store (`StoryStore`)

| field | code |
|---|---|
| `active` | `StorySession.active_branch_head_id` |
| `made`, `deleted`, `parent` | `BranchHeadRecord` rows, their `visibility_state`, `parent_branch_head_id` |
| `forkOrigin`, `forkedFrom` | `fork_origin_turn_id`, `forked_from_turn_id` (a rollback over the fork point moves the latter) |
| `head`, `lastSettled` | `head_turn_id`, `last_settled_turn_id` |
| `hiddenIds` | `metadata_json["rollback_hidden_turn_ids"]` of a branch |
| `turns`, `on`, `status`, `hidden` | `StoryTurnRecord` rows: how many, `branch_head_id`, `status`, `visibility_state = hidden_by_rollback` |
| `job` | the two creation-time `RuntimeWorkflowJobRecord`s of a turn, which always move together |
| `art`, `bound` | the artifact a turn wrote, and whether `output_refs` of the turn name it |
| `telling` | the turns whose command is one that tells the story (`TellingCommands`, `_STORY_SEGMENT_TURN_COMMAND_KINDS`) |
| `pending`, `phase` | the chapter's `pending_segment_artifact_id` and `phase` |

A turn writes at most one artifact, so an artifact is named by its turn.  Turn ids
are allocated in creation order, which is what `_turn_order_key` sorts by.  The
store starts as an activated session with an accepted outline.

### 2.2 Requests (`StoryTurns`)

`req[r].pc` says between which two awaits a request is:

| pc | where the request is | holds the lock |
|---|---|---|
| `idle` / `bound` | not there / graph thread bound, checkpointer opening | no |
| `pinned` | turn created and flushed; planning, retrieval and writer calls | yes |
| `persisted` | artifact, obligations and `post_write_pending` committed | no |
| `post_writing` | full post-write schedule: workers are awaited | yes |
| `accepting` | adoption flushed, light regression awaited | yes |
| `accepted` | adoption committed | no |
| `closing` | status flushed, response on its way | yes |
| `done` | session closed | no |

Code between two awaits runs on one event loop and is one action.  `Accept` is
everything `accept_pending_segment` does before its await; `AcceptCommit` is the
commit after it.  The branch-control endpoints have no await and commit at once.
`Abort` is any failure while a request owns uncommitted work, `Busy` a flush that
finds the database locked, `Restart` a restart of the server.  What a command writes, a
segment or a message, is the planner's choice (`plan.output_kind`), so it is an input.
What a reader of a branch is told (`AcceptedOn`) are the accepted segments of its telling
turns only: a segment that a discussion wrote can be accepted and settles its turn, and is
never read back.

### 2.3 The ledger (`StoryLedger`)

`StoryLedger` has no requests, sessions, heads or anchors: a turn is taken once, in
order, on one branch, and is then `spent`, `written`, `adopted` or `cut`.  `StageOf` reads
the stage off the durable store only (`hidden`, `art`), so a request that has not
committed, or that fails, does not exist in the ledger; a commit of a request is one entry
(`Write`, `Spend`, `Adopt`) and a rollback is one `Cut`.

### 2.4 The MCP manager (`McpManager`)

`server[s]` is everything the manager keeps about a server (`config` for its entry in the
file, `session`, `stack` and `tools` for `_sessions`, `_transports` and `_tools_cache`, `error`,
`holder` and `queue` for the connection lock) and, as `open`, the connections whose exit stack
is not closed.  `task[t]` is what a caller runs and the await it is at: `waiting` for the lock,
`closing` the old connection, `creating`, `listing` the tools, `unwinding` inside
`_create_session` or `cleaning` in a handler of `connect`.  Callers are requests, the startup
task (`Boot`) and the shutdown hook (`Stop`).  A connection's name is reused once nothing
refers to it, so behaviours are not bounded.  Each connect may be answered, fail, be cancelled
by the MCP library (which raises `CancelledError` of its own) or time out.  `Boot` may be
another caller's prey between two servers of its loop, where the code does not await: this
only adds behaviours.  The HTTP server lets its requests finish before it calls the shutdown
hook; `os._exit`, the other way `/api/shutdown` can end the process, runs no hook and is not
modelled.  Looking up and calling tools changes no state and is left out, with the names
that tools are looked up by.

### 2.5 The core state (`CoreState`, `CoreMutations`)

| field | code |
|---|---|
| `row` | `CoreStateAuthoritativeObjectRecord`: the current revision number and value of an object (`NoRevision` when there is no row) |
| `revs` | its `CoreStateAuthoritativeRevisionRecord`s, each with the proposal that wrote it; upserted by number |
| `mans`, `bound` | `CoreStateSnapshotManifestRecord`s (turn, revision of each object, kind), and the manifest a turn is bound to |
| `mirror` | `StorySession.current_state_json` |
| `prop` | `MemoryProposalRecord`s with their target, turn, base and `MemoryApplyReceiptRecord`s |

The value of an object is the set of proposals merged into it: the properties ask which
changes a value has, not what they say.  `StoreWrite` and `StorePrimary` are the two
configuration switches (both off by default): without them the mirror is all there is,
with the first the store is written next to it, with the second the store leads and the
mirror follows.  A session may start with or without rows.

`core` is committed, `work` is what the request under way has flushed, `save` is the
savepoint `apply_proposal` opens with `begin_nested`.  One request is under way at a time,
because a flushed session holds the write lock.  Its program counter follows `apply_proposal`:

| action | code |
|---|---|
| `Submit`, `SubmitForReview`, `ApplyReviewed` | `_submit_canonical`, with either answer of the policy; `apply_block_proposal` |
| `Load`, `Refuse` | `begin_nested`, `_load_before_snapshot`, `_validate_base_revisions`, and their errors |
| `Receipt` | `sync_mirror_state` of a leading mirror, `create_apply_receipt` |
| `WriteStore`, `Record` | `apply_authoritative_mutation`; `record_core_mutation` |
| `Finish` | `sync_mirror_state` of a leading store, the status `applied` |
| `Fail` | any error in between: the savepoint is restored, the proposal marked `failed` |
| `EndApplied`, `EndFailed`, `Crash` | the commit of the caller (a failed regression fails its whole request), or none |
| `TakeTurn`, `ForkBranch`, `SwitchBranch`, `RollbackToTurn` | a turn, taken and settled in one step, with or without reading a manifest; the branch controls of `StoryStore` |

A proposal comes through a channel: `edit` (a direct edit, for a turn and on a base
revision), `block` (submitted for the session), `review`, `regression` (several to a
transaction) and `tool` (the memory tools' own service, which never has the store).  What
domains a policy lets through is an input.

### 2.6 What the models of a turn are told

`ProjectionBlocks` keeps a chapter's summaries twice, in the chapter's record and in the
store as far as the configuration rolls it out, and the prompts compiled from them; its
actions are the updates of accepted outlines and segments, refreshes, chapter changes, backfills inside
reads, compilation and `MarkSynced`.  `seen`, what a consumer was last shown, is a history
variable of the model.  `WriterPacket` follows a longform story on two branches and records
the packet the last generating command told its writer: window of discussion, digest,
segments, bridge, target.  `RetrievalSearch` runs one query at a time through its stages
(`Ask`, `Retrieve`, `Rerank`, `Answer`); a retriever finds any of the chunks it may in any
order, so scores need no numbers.  The settings name a model and a provider, or neither; which
model embeds is what the embedder makes of them with the registry as it is at the time
(`Target`: the model named if it is there, else another one that can embed, else the default
of a provider, else the local embedding; only the last says so).  Vectors of different models
are compared when they have the same size (`Comparable`), as in the code.

### 2.7 The parts beside the turns

| module | state and code | actions |
|---|---|---|
| `ChapterRuntime` | phase and pending segment of each chapter, turns with the kind and beat of what they wrote, progress materials, recalled artifacts | one per story command that commits, and `RollBackTo`; the planner may write an artifact of any kind (`Plans`), and what is told (`Told`) is less than what is accepted |
| `DraftReview` | documents, overlays, remarks, rewrite requests, candidates, receipts: append-only lists found again by order | edit, remark, settle, request, candidate, select, clear, adopt |
| `Brainstorm` | the latest revision of a session; per client the model call it waits for | `DiscussSession`/`Discussed` and `SummarizeSession`/`Summarized` around the await; the rest are single requests |
| `RuntimeProfiles` | snapshots in the order of creation, the pinned one, the draft configuration, receipts; per field who decides it (`Governs`: the registry, the mode profile over what is set plainly, or the config) and whether an edit writes its plain setting (`Patched`) | `EnsureActive`, `EnterTurn`, `PublishPatch`, `ChangeDefaults` |
| `WriterRetrieval` | materials of four kinds, whose number is their short id; the loop's limits | `Search`, `HandleExpand`, `HandleUsage`, `Answer`, failures |
| `MemoryIndex` | asset versions with the tags visibility is decided by, and the tags their chunks were indexed with | turns, forks, rollbacks; evolve, ingest, reindex, mark, recompute |
| `MemoryGraph` | jobs, nodes in the order of their update, edges and their evidence | queue, complete, fail, retry, reindex, configure |
| `SetupWorkspace` | drafts, commits and their jobs, readiness, the activation request | each handler one action; ingestion and activation one per commit, so that failures and crashes fall between |
| `SetupAgent` | the node of the graph a run is at, obligations and tickets, what the client was sent, the snapshot of the workspace | one per node of `graph.py` whose effect is visible; edits by others in between |
| `SetupContext` | the summary stored with a step and, per turn under way, what was dropped of its history; `worded`, for how many messages a model has answered, is a history variable of the model | `BeginTurn`, `ModelSummarises`, `FallBack`, `ModelFails`, `PersistTurn`, `AbandonTurn` |
| `ConversationTree` | the tree as parents, children and picks; checkpoints as message lists; the record shown; what an operation has yet to save; `moved`, whether a message was ever sent again elsewhere | each operation up to its first commit (one that would go round a cycle fails or never ends, and saves nothing), `SaveRecord`, the second, and `TreeCrash` between |
| `ModelGateway` | the service that streams, what is ready, the tool loop, what was sent, the guard | `StreamText`, `StreamCall`, errors and ends; `TakeOver`; tool rounds; `Forward`, `IdleTimeout`, `ClientGone` |

## 3. Runs

| run | configuration | bounds | shows |
|---|---|---|---|
| `turns` | `MCStoryTurns.cfg` | 2 requests, 2 branches, 4 turns | two requests race each other, the branch controls and restarts: the inductive invariant `Inv`, one writer, adopted segments are settled, a chapter under review has its draft, what is hidden stays hidden |
| `branches` | `MCStoryBranches.cfg` | 1 request, 2 branches, 5 turns, no replies | heads and anchors; the readable story is only cut by a rollback, at its target; the runtime implements the ledger; under `FairSpec`, the write lock is released |
| `settled` | `MCStorySettled.cfg` | 2 requests, 2 branches, 2 turns | **violation**, finding 1 |
| `fork` | `MCStoryFork.cfg` | 2 requests, 2 branches, 4 turns | **violation**, finding 2 |
| `mcp` | `MCMcpManager.cfg` | 2 requests, 2 servers, 2 connection names; a tree of 4 messages and 5 checkpoints | no connection is lost or doubled, shutdown leaves nothing open; tree, checkpoints and record of a conversation agree, a crash between their two commits and messages that are sent again included |
| `mcp_deleted` | `MCMcpDeleted.cfg` | 2 requests, 1 server | **violation**, finding 3 |
| `core_branches` | `MCCoreStory.cfg` | mirror leads, store written; 1 object, 2 proposals, 3 turns, 2 branches; see below for what is told | what is committed is sound and whole, edits are merged on their base, turns read only their past and go on reading it, history is only appended to; beside it `ToldAsItIs`: summaries, prompts, searches and packets |
| `core_copy` | `MCCoreCopy.cfg` | store leads; 2 objects, 2 edits, 1 turn | **violation**, finding 4 |
| `core_stale` | `MCCoreStale.cfg` | mirror only; 1 object, 2 edits, 1 turn | **violation**, finding 5 |
| `drafting` | `MCDrafting.cfg` | one part of ten to a behaviour, see below | profiles, chapters, draft review, brainstorms, the writer's retrieval, versions of sources, the memory graph, and proposals with the store leading and with the mirror alone |
| `chat` | `MCChat.cfg` | one part of six to a behaviour, see below | one honest end of setup runs and of model streams, summaries of the right turn, a sound setup workspace; under fairness MCP requests are answered and stalled streams end |
| `memory_lost` | `MCMemoryIndex.cfg` | 2 branches, 3 turns, 3 versions | **violation**, finding 6 |

*Bounds.*  Adopting a segment takes two turns (the one that writes, the one that
accepts), so four turns are two adopted segments and five leave one turn to be
written on a fork after them: enough for out-of-order adoption, a fork, and a
rollback on either side of it.  Requests only meet through the lock and the
store, so two of them show every interference of one with another; a run with
two requests and one with a longer history keep both small.  Two branches are a
parent and a child; deleting, switching and rolling back over the fork point need
no more.  `Replies` are the commands that may end in a message instead of a segment; `branches`
leaves messages out, because they touch no head, anchor or story, and `turns` has them.  In
both a discussion may write a segment.  Branch names and requests are symmetric (no symmetry is used under
`FairSpec`).  `MaxTurns` and the sets are the only bounds; `Pin` stops at `MaxTurns`,
so `CHECK_DEADLOCK` is off.

The MCP runs have no bound but their sets.  Two requests and the startup task are three
callers in the queue of one lock; a server has at most one open connection and at most one
that its tool list still names, so two names suffice, and two servers are what the loops of
`Boot` and `Stop` need.  `CHECK_DEADLOCK` is off because a stopped process stays stopped.
Four messages are a branching with a chain below it, five checkpoints one more than a tree
of four needs, so that edits and deletions make new ones, and so that a message is sent again
below another one and a further operation works on the tree that this leaves.

In the core runs a proposal is submitted once but may be applied again and again, so two
proposals are an interference.  Two objects tell a target from the others; where turns are
many one object is enough, because manifests treat objects alike (what they do to several is
`core_copy`).  Three turns on two branches are a fork point, a turn of the parent after it
and one of the child, each of which can be edited, read and rolled back.  Base 2 is the
result of the first edit, base 1 the seed.  Proposals and objects are symmetric.
`CHECK_DEADLOCK` is off because proposals and turns run out.

The parts beside them, one to a behaviour:

| run | part | bounds |
|---|---|---|
| `core_branches` | `planned`, `shown` | 1 and 2 chapters, the last 2 entries kept, 2 revisions |
| | `searched` | 3 chunks, 2 branches, 2 models and a provider's default of the size of one of them, 2 providers, 3 queries, 2 hits, 1 change of settings, registry or index |
| | `packed` | 7 turns, 2 chapters, 2 branches |
| `drafting` | `profiles` | 8 configurations of 2 fields: one set plainly, in a section or nulled, one that edits do not write; newer defaults take both from the config; 4 snapshots, 2 turns |
| | `chapter` | 2 chapters of 2 beats, 6 turns, every kind of artifact from every command |
| | `review` | 2 texts that share a block, 2 remarks, 1 rewrite request, 1 adoption, 5 records in all |
| | `talk` | 2 clients, 2 prompts, 2 batches of 1 item |
| | `memory` | 3 turns, 3 versions, 2 branches |
| | `graph` | 3 names, 3 jobs, 2 chunks, 5 answers of the model |
| | `writer`, `relation` | 2 calls, 2 cards, 1 chunk, 2 usage records; a relation query with its anchors |
| | `primary`, `legacy` | 1 turn, 2 objects, 2 proposals, every channel, bases none, 1 and 2 |
| `chat` | `mcp` | 2 requests, 1 server, 2 connection names, under fairness |
| | `agent` | 2 runs of 2 rounds of 2 calls, 1 edit by another before, between or during them, 1 write by a tool |
| | `setup`, `assets` | 2 stages, 2 commits; 1 commit with ingestion jobs |
| | `context` | 4 discussions of up to 4 messages, 2 turns under way, summaries of 2 lines, answers of the model of none to 2 |
| | `gateway` | 2 rounds, 2 chunks to a model call |

Each is the smallest instance in which what the property is about can go wrong twice or in
both orders: two rounds so that a counter can fail to be reset, two clients so that one can
overwrite the other, three versions so that one is replaced while another is, seven turns so
that a segment of a fork and one of its parent are both told and one is omitted.

*Fairness.*  `FairSpec` of `StoryTurns` asks weak fairness of `Proceed(r)`, what a request
does by itself once received.  A request runs on the event loop until its session is
closed, and the model gateway gives every call a timeout
(`services/litellm_service.py:133, 199, 285, 379`), so each await ends, in an answer
or an error.  No fairness is asked of new requests, branch controls or restarts.
In `McpManager` (checked in `chat`, `AnsweredAndStopped`) it is asked of what the process does
for a caller without any server: taking the lock when it is free and the caller's turn, the
timeout of `connect`, and the closing of exit stacks, which the MCP library bounds by killing
the server process.  Nothing is asked of the answers of servers: they may never come.  In
`ModelGateway` (`StalledStreamEnds`) the event loop forwards what is ready, notices the end of
a stream, and the idle timer runs out; no service has to answer.

Each property has a mutant in `PROJECT.json`: an operator named `...Mutant`, a
plausible bug in the operator it stands before, under which TLC finds the
property violated.

## 4. Findings

1. **Settlement is not durable** (`settled`).  The last commit of a writer request
   is `story_turn_domain_service.py:1632`; post-write flushes closed obligations and
   the settled status after it, and nothing commits them.  A test asserts the turn
   is settled (`rp/tests/test_projection_builder_services.py:2768`), through the
   request's own session.  In the database such a turn is settled only when its
   segment is adopted, forked from or rolled back to (`SettleAdopted`).  The same
   gap hides a second problem: `update_turn_status(SETTLED)` un-hides its turn
   whatever a rollback has done meanwhile; committing post-write without a check
   breaks `HiddenStaysHidden` (that is its mutant, `EndMutant`).
2. **A rollback on the parent cuts its children** (`fork`).
   `create_branch_from_turn` promises that a branch preserves the turn it was
   forked from (`story_runtime_identity_service.py:197`); the rollback of the parent
   hides that turn for every branch (line 1314).
3. **A deleted server can come back connected** (`mcp_deleted`).  `delete_config` cleans up
   without the connection lock; a `connect` that is under way has read the configuration
   before and registers its session, stack and tools afterwards.
4. **A second edit for a turn drops the first** (`core_copy`).  `record_core_mutation` copies
   the latest manifest *before* the turn (`core_state_as_of_resolver.py:179`), not the one the
   turn is bound to.  Edit two objects for one turn, and the turn, and every later one that
   inherits its manifest, reads the old revision of the first.
5. **A stale direct edit is accepted** (`core_stale`).  With the default switches no edit
   writes a revision, so what a turn reads stays the seed; a second edit on the same base
   passes `_validate_base_revisions` (`proposal_apply_service.py:285`), is computed on the
   seed and erases the first from the mirror.  A test expects
   `phase_e_apply_base_revision_conflict`.
6. **A correction for one branch takes the source from the others** (`memory_lost`).
   `evolve_source` supersedes the old version whatever the scope of the new one
   (`archival_evolution_service.py:164`), so a correction for the current branch, the default,
   takes the source from every other branch.  `test_archival_evolution_service.py:313` says of
   the source it corrects that it is visible to every branch, and asserts of the sibling branch
   only that it does not find the correction: it finds nothing at all.

Also seen while modelling, modelled as it is, and not a run of its own.

*Branches and turns.*
- After a rollback of a child over its fork point, the original fork turn stays a legal
  target (`story_runtime_identity_service.py:1107`), so a rollback can also move the branch
  forward again.
- A branch in the middle that is rolled back past the fork point of a third: the story of
  the third shrinks to the new cut-off, but its turns stay and go on reading the core state
  of turns that are now outside their lineage.  `ReadsOnlyItsPast` therefore allows what was
  changed for the *original* fork points of the ancestors.
- What a command writes is the planner's choice and not tied to the command: a discussion
  can become a segment draft, also before any outline is accepted.  Such a segment can be
  accepted and settles its turn, but it is never told: `active_branch_accepted_story_segments`
  reads back what writing and rewriting commands wrote (`story_session_service.py:597`).
- `resolve_pending_artifact` asks for no kind: a request can have an outline or a message
  accepted as the pending segment, which records progress and tells nothing.
- Outlines, the current chapter and its discussion are shared by the branches and not rolled
  back: an outline of another branch or of a hidden turn can be accepted, recent entries of
  hidden turns are told, two branches share one pending draft, and a fork after a completed
  chapter gets no bridge.
- On the main branch with a side fork nothing is omitted although digests are shared, so the
  packet of the main branch shows the side branch's segments.

*Core state and projections.*
- The memory tools build their apply service without the dual-write service
  (`proposal_service.py:47`): where the store leads, their changes go to the mirror alone
  and the next store-led change writes over them.
- With the mirror leading, the first change of an object without a row becomes its revision
  1 (`core_state_dual_write_service.py:164`), where a test expects the state before it as
  revision 1; `FirstRevisionIsSeed` is therefore claimed for a leading store only.
- Two unrelated turns may each change "their" revision of one object.  Numbers go on from
  the row, so both are kept, but the row shows only what was applied last: `ChangesAddUp` is
  claimed as long as nothing was applied for a turn, `MergedOnBase` for what was.
- In the default configuration projections come from the mirror with the constant revision 1,
  so a kept prompt overlay is reused although the summaries have changed, and consumers are
  reported clean that have not seen them; with the store read but not written, a read fills
  rows that never follow the mirror again.

*Retrieval and memory.*
- Hits are cut to `top_k` before the branch filter; vectors of different models of equal
  dimension are compared without a check.
- Where the model that the settings name is disabled, another one embeds instead
  (`embedder.py:127`) and no warning says so.  The query may then be of a size that no indexed
  vector has, or, worse, of the same size and another meaning.
- A graph neighborhood whose cap is reached exactly at the end of a round is not marked
  `truncated`; supplemental graph hits displace the tail of the base hits; retries ignore the
  enabled switch; after a reindex no job is queued, so evidence points at inactive chunks.
- An evolution for all existing branches leaves a later fork without a version, a rollback
  past an evolution leaves neither version readable, and evolving a pending version leaves
  two alive.  The maintenance endpoints never commit.

*Setup.*
- A failing tool never counts against `max_rounds` (`policies.py:358` before
  `executor.py:1764`), so only the recursion limit of the graph ends such a run; the agent's
  own writes invalidate the snapshot that tells it what others changed.
- A plain summary keeps the oldest six lines and drops every newly compacted message once a
  model summary fills them; an error of the model while it compacts fails the whole turn.
- A model's answer without any line passes its validation
  (`setup_context_compaction_service.py:329`).  The turn is then shown an empty summary, and
  the summaries that later turns build on it have nothing of those messages either.
- An edit of the configuration that has nothing to do with a field makes the profile show the
  field's setting in the config, even where the mode profile had decided it
  (`runtime_profile_snapshot_service.py:690`); and an edit of the model or worker profiles of a
  session, or of what the activation of workers is derived from, is in force only once a new
  snapshot is compiled.
- `activation_graph_runner.py:28` does not reset `error` as its siblings do, so a workspace
  that was refused once cannot be activated through that runner; accepting a proposal
  commits the draft of the time of acceptance; failed ingestion jobs have no retry and block
  activation.

*Chat backend.*
- While a server is being disconnected its tools are still listed: `_disconnect_unlocked`
  drops the session, awaits the closing of the stack and drops the tools last.
- The idle timeout emits an error but no `done`, does not run before the first chunk, and
  cuts tools that take longer; a chunk that arrives together with it is dropped.
- A message that is sent again is hung below where it is sent and stays listed at its old
  parent (`conversation_source.py:307`): checkpoints and lists of children then go on showing it
  in both places, and a deletion takes it from both.  Sent below itself it is a cycle, and
  `select_path_to_node` never returns.
- A conversation operation is two commits: a crash inside clear leaves every operation but
  clear failing; editing a shared ancestor leaves the checkpoints of other branches with the
  old text until a deletion rebuilds them.
- Brainstorm sessions are closed by no endpoint, and closed ones still accept items; review
  candidates have no production caller; a comment can be resolved again after its deletion.

## 5. Proofs

Every theorem is for any values of the constants: any sets of branches, requests, objects,
proposals, servers, any number of turns.  The assumptions are those of the modules, and
each follows from the code: the default branch is a branch, `None` and the like are outside
their sets, numbers of turns, rounds, chunks, beats, chapters, lines and shown messages are
natural numbers, a text is a sequence of blocks, the stages of a setup are a list without
repetitions, and the sets of branches, proposals and prompts, which are rows of tables and
requests that were sent, are finite.

### 5.1 Turns, branches and the ledger (`StoryStoreProofs`, `StoryTurnsProofs`)

`Soundness` is `Spec => []Inv`; the durable properties of the runs `turns` and `branches`
follow (`TypeCorrect` to `ReviewAlwaysHasDraft`), and `HiddenForGood` is
`Spec => HiddenStaysHidden`.

*The inductive invariant.*  None of the durable properties is inductive:

- A commit makes a working copy durable, so the copy must be sound too, while its
  owner is `pinned` or `accepting` (`WorkingCopy`).  It need not be sound in
  `post_writing` and `closing`: post-write settles turns without looking at
  rollbacks or heads.  That these copies are never committed is part of why the
  properties hold.
- `TurnStages` relates a turn's status, obligations and output at each stage, so that
  adoption meets the turn in a state `SettleAdopted` promotes.
- `AnchorIsLatestSettled` needs `InheritedAnchor`: an anchor that is no turn of its
  branch is the fork point, older than all turns of the branch by
  `LineageChronological`.
- `txn.hidden = store.hidden` carries `HiddenStaysHidden` over commits.

`StoryStoreProofs` shows operation by operation that `StoreInv` is preserved
(`CreateTurnInv`, `PersistInv`, `AcceptInv`, `ForkInv`, `RollbackInv`, ...); on a sound
store settling-on-adoption is a no-op in the branch controls
(`SettleAdoptedNoop`), which is why their checks on settled turns suffice.

*The story.*  `OnlyRollbacksCut` and `CutsAtTarget` are about what a reader of a branch is
told, which the code collects along the branch's lineage, up to a cut-off on each ancestor.
The lineage is recursive, and induction is by least counterexample over the natural
numbers.  The fork turn of a branch, its `Rank`, falls strictly from a branch to its parent
(`LineageChronological`), so no branch comes twice in a lineage and each but the first is the
parent of just one in it (`OneChild`): the cut-off is that child's fork point and nothing
else (`CutoffIs`), and it stays as long as the branches of the lineage keep their parents and
fork points (`LineageKept`, `OnwardGrows`).  With that each operation only adds to what is
told (`CreateTurnGrows`, `PersistGrows`, `AcceptGrows`, `SwitchGrows`, `DeleteGrows`,
`ForkGrows`), except the rollback, which cuts at its target (`RollbackCuts`): own turns beyond
it are hidden, those read on ancestors end at a fork point that is older, and a target on the
parent becomes the new fork point.  A request commits a whole working copy, made some time
ago: `Uncut` says that until it settles its turn this copy still tells everything that the
committed store tells, which holds because the lock keeps the committed store as it was.  Which
turns can tell anything (`telling`) is fixed with the turn's command when it is created.

*The refinement.*  `LedgerImplemented` (`Spec => ImplementsLedger`) maps every commit to
one ledger step.  A commit copies the whole working copy, so the proof carries what
that copy may differ in (`WorkInv`): while its owner is `pinned` it took exactly one turn,
while it is `accepting` it took one turn and adopted at most one artifact.  A `Cut` cuts
turns of one branch by their number, which equals what `rollback_to_turn` hides because
of `LineageChronological`: over a fork point, every turn of the child is younger than the
target.

### 5.2 The MCP manager (`McpManagerProofs`)

`InvHolds` is `Spec => []Inv`; the safety properties of the run `mcp` follow.  None is
inductive: that no connection is lost needs to know who holds which (`Accounts`: a locked
server's only connection is in its holder's hands, an unlocked one's is the registered one),
that the delete endpoint only cleans up when nothing is registered, and which callers can be
under way (`TaskShape`, `HolderIsBusy`); that shutdown leaves nothing open needs that nobody
connects behind its back (`ShutdownOrder`).  The queue of the lock needs no invariant: it
matters for liveness only.  `LocalStep` reduces every step to what it does to one server and
one caller.

### 5.3 The core state (`CoreStateProofs`, `CoreMutationsProofs`, `CorePastProofs`)

`CoreSound` is `Spec => []Inv`, under each setting of the switches; `CoreTypeCorrect`,
`AppliedOnlyOnce`, `RowAlwaysNewest`, `ManifestsAlwaysResolve` and `HistoryNeverRewritten`
follow.  What is committed depends on what was flushed and on the savepoint a failure returns
to, so the invariant speaks of all three states.

- `Sound`: in each of them rows are newest revisions and manifests resolve; a proposal has its
  one receipt exactly when it is applied, but for the one being applied, between its
  receipt and its status.
- `OnItsWay`: a request that is not there has left nothing; the proposal it applies is not
  applied yet, in its work and in its savepoint; and the number it took in `Load` is still
  the next one when it is written two steps later, which is what keeps revisions, upserted
  by number, from being overwritten.
- `Keeps(work, core)` and `Keeps(save, core)`: both hold all committed history, which is
  what a commit must show for `HistoryAppendOnly`.

Finiteness of `Proposals` is needed for the highest receipt (`latest_revision_for_target`) to
exist.

Six more properties need an invariant of their own beside `Inv`:

- `AppliedAlwaysWhole`, by `Pieces`.  Receipt, revision and manifest of one proposal are
  three flushes, so in the request's work a proposal is *not* whole in between: after
  `Receipt` it claims the number it is about to write and has written nothing, after
  `WriteStore` it has written just that and no manifest leads there yet, after `Record` it is
  whole again.  All others are whole all along, in the work, in the savepoint and as
  committed; a commit meets the work before the first or after the last of these steps.
- `ReadingAlwaysStable`, by `Rebound`.  A request may have applied several proposals that are
  not committed yet.  If its work or its savepoint binds a turn to another manifest than the
  committed state does, it also holds a proposal for that turn that is applied there and not
  yet in the committed state, or the one `Record` has just been done for.  Of all operations
  only `record_core_mutation` binds a bound turn anew.
- `AlwaysMergedOnBase`, by `Merging`, `Merged` and `Carries`: what `Load` read and took as the
  base is still, two flushes later, what `WriteStore` adds the change to, and the revision it
  was is never written again.
- `AlwaysReadsItsPast`, by `Past`.  The invariant says of the committed state, the work and
  the savepoint (`Reading`) that first revisions and row-less objects are untouched by turns,
  and that the lists of a manifest, and so of a bound turn, lie in what its turn continues;
  and that what the request carries from `Load` on brings nothing else (`Brings`).  The
  lemmas are about the past of a turn: what the code's recursive search inherits was
  recorded for a turn it continues (`ScopeIsPast`, `InheritedIsPast`); continuing is
  transitive (`PastTransitive`, because a fork is younger than its parent's turn); it lasts
  under turns, forks, switches and rollbacks (`PastStays`, `TurnLater`, `ForkLater`,
  `SwitchLater`, `RollbackLater`).  An earlier form of the property, with the current
  instead of the original fork points, is false with three branches; the attempt to prove it
  showed so (section 4).
- `ChangesAlwaysAddUp`, by `Adding`.  Between `Load` and `Finish` the two copies of a change
  are made one after the other, so the work need not add up: `MirrorAdding` says that what the
  request carries is the mirror with its own change, and is the mirror from `Receipt` on, one
  step before the proposal counts as applied; `RowAdding` that what it carries for its target
  has all that was claimed there, and that a claim is in the row except the request's own
  between `Receipt` and `WriteStore`.  Nothing is said of a proposal for a turn: its value is
  what the turn reads, which leaves others' changes out.  That rows which are seeded on the
  way (`EnsureManifest`, `Loaded`) lose nothing rests on `Pieces`: an object without a row has
  no revision, so nobody claims one.
- `FirstRevisionAlwaysSeed`, by `Seeding`, for a leading store: the target has a row from
  `Load` on, so no proposal ever claims number 1, and by `Pieces` none has written it.

### 5.4 The model gateway, the setup agent, its context and its workspace (`ChatProofs`)

Each of the four has its own specification, its types (`GatewayTypeCorrect`,
`SetupAgentTypeCorrect`, `SetupContextTypeCorrect`, `SetupTypesHold`) and its properties.

- `AlwaysOneAnswer`, by `Answering`.  The routing, the tool loop and the guard run one after
  the other on what the services produce, but what is ready is not sent yet when the client
  goes away or the idle timer runs out.  The invariant is about `Told`, what the client was
  sent and what waits for it, so that the guard's own step, which only moves the one to the
  other, cannot disturb it; once the guard has closed only what was sent counts.  `FromSource`
  says that a service which may still be replaced has shown nothing; `EventAgrees`, call by
  call, that what was told of calls is what the loop has got to: every call behind it has one
  start and one answer, in that order, the one it is at perhaps a start, those ahead nothing.
  A done is the last of what was told (`DoneIsLast`).
- `SummaryAlwaysOfItsTurn`, by `Summarised`.  A summary is sound by itself (`SoundSummary`), of
  whichever turn: it has no more lines than it may, it speaks of nothing but its source, and of
  every message that no model has answered for, when these and the model's own lines fit
  (`Need`, `SpeaksOfRest`).  A model may leave out what it likes, so nothing is claimed of what
  it was asked about.  Sound summaries come from sound ones (`PlainIsSound`, `ModelIsSound`): an update adds to the old one just the
  messages behind its source (`OldAndNew`), and lines are taken up to the last for which there
  is room (`LinesFit`), which is the last of all when all of them would fit (`AllLinesFit`).
  So it does not matter which turn stored what in between.  That what clients send is a
  sequence of messages once the empty ones are left out (`SpokenTyped`) is an induction over a
  recursive function, again by least counterexample (`LeastNat`).
- `FinishAlwaysHonest` and `AlwaysOneVerdict`, by `AgentInv`.  Until the model has answered it,
  the obligation is what the first failure of the last batch asks for (`ObligationAgrees`), so
  what the completion guard lets through (`GuardIsStrict`) has been repaired or asked; why a run
  ends is set before it gets to one of its two ends (`ReasonAgrees`); a stream that goes on has
  had no done, and an error only if that of the model is on its way to the failure
  (`TellingAgrees`).  A snapshot is never built on a later draft than its run was launched with,
  and a draft edited by another is later than that (`EditsAgree`), so the two differ when the
  next run compares them.
- `WorkspaceIsAlwaysSound`, by `SetupInv`.  That a frozen step shows what it committed needs to
  know which commit that is: the last of a step is the latest there is for it (`LastIsLatest`),
  and what is frozen shows it (`FrozenShows`), until an edit or a rejection thaws it.  So the
  hand-offs, which look for the latest commit in the order of the table, find the one the step
  points to.  An activation is checked in one transaction and marks the session in a later one,
  and worker threads may end an ingestion in between.  `CheckedStaysSo` says that what the check
  found stays so: the jobs of an ingestion that is under way are queued still
  (`QueuedUntilIngested`), and a queued job does not pass the check.

### 5.5 Profiles, chapters, brainstorms, reviews and memory (`DraftingProofs`)

Each of the five components has its own specification, its types (`ProfilesTypesHold`,
`ChapterTypesHold`, `BrainstormTypesHold`, `ReviewTypesHold`, `MemoryTypesHold`) and its property.

- `ProfilesAlwaysStand`, by `ProfilesInv`.  A publication supersedes what was active, makes the
  new snapshot active and pins it, all in one transaction (`PublishedIsActive`).  A compiled
  snapshot shows what the config sets where the defaults leave it to the config
  (`CompiledShows`), one that was patched wherever the config sets it and edits write it
  (`PatchShowsConfig`), so the claim depends on where the pinned snapshot comes from, and an
  edit makes it stronger, never weaker.
- `ProgressIsAlwaysEffective`, by `ChapterInv`.  Nothing keeps the beats covered to `1..k`: a
  rollback hides accepted segments, and a rewrite may be of any draft.  What holds is about a
  step, whatever was covered before it.  The one artifact that a command accepts names the beat
  that is due or none, checked once against the story with it and once without it
  (`BeatMatches`), and `AcceptanceInOrder` shows by cases (was it told before, will it be, did
  it name a beat) that the covered beats then stay or gain the first one that was missing;
  `CompletionInOrder` is the same for a draft that is adopted as its chapter ends, checked only
  once.  `AdoptedCovers` is what an adoption does to the covered beats and `AdvanceRecords` that
  the progress it records is the same set.  The invariant adds what ties an adoption to its
  chapter: only accepted artifacts settle (`SettledIsAccepted`), a pending one is of its own
  chapter (`PendingIsOwn`).
- `NothingSaidIsEverLost`, by `BrainstormInv`.  A request answers over what it loaded before it
  waited for the model.  `LoadedIsKnown` says that this is the stored brainstorm whenever the
  revisions agree, so the check of the revision makes the store current; without it
  (the mutant of the run) a summary forgets what was said meanwhile.
- `ReviewIsAlwaysFaithful`, by `ReviewInv`.  Documents and overlays are two records of the same
  versions (`AnchorsHold`), and a request takes the comments of its own document, not of the
  current one, so that what it names, and the patch composed from it (`ComposedIsText`,
  `CandidatesHold`), stays about one text while the draft and its overlay move on.
- `MemoryIsAlwaysSound`, by `MemoryInv`.  What a turn finds is decided by the tags of the chunks,
  which are those the asset had when it was indexed.  `IndexAgrees` says that they are the tags
  the asset has now, or that it has no chunks; so whatever marks an asset indexes it anew or takes
  its chunks away.  That the versions with chunks are one more than those that were never indexed
  and were replaced is not inductive by itself: it needs that an active version has chunks exactly
  if it could be indexed (`SourcesHold`), so that replacing it either moves one of those that are
  counted or adds one to both sides (`IndexedIsAdded`).  `SeenStays` is the lemma that what a turn
  sees depends on nothing but the tree, the rollbacks and the tags.

### 5.6 What is only model-checked

Of `MCDrafting` the memory graph and the writer's retrieval (`GraphIsSound`,
`RetrievalIsAccounted`), of `MCMcpManager` the message trees (`SourceIsSound`), and of
`MCCoreStory` what models are told (`ToldAsItIs`): their neighborhoods, coverage, prompts and
packets are folds over sequences, and the message trees are flattened and searched
recursively, over operators of the community modules that the prover's backends cannot unfold.
The `TypeOK` of `MCDrafting` and `MCChat` are the conjunction of those of their parts, which
`DraftingProofs`, `CoreMutationsProofs` and `ChatProofs` prove for most;
`MCDrafting!ChangesAddUp` is `ChangesAlwaysAddUp`, `FirstRevisionAlwaysSeed`, `AppliedOnlyOnce`
and `AppliedAlwaysWhole` for two settings of the switches.  Liveness (`WriteLockReleased`,
`AnsweredAndStopped`, `StalledStreamEnds`) and anything with `ENABLED` are beyond the prover.

## 6. Not modelled

- *Derived post-write jobs*, which never gate settlement, and checkpoint bindings.
- *PostgreSQL*, whose row locks replace the single write lock; worker threads that LangGraph
  uses for synchronous nodes, which can read while another request commits.
- *Workers and their scheduler*: none of their effects is ever committed.  Services that are
  given a session flush and never commit, and nothing commits after them; a worker's
  proposal with an identity goes to an apply service without a resolver and always fails
  with `phase_e_core_state_as_of_resolver_missing_for_core_mutation`.
- *The identity map* of a request's database session, which may show it a mirror older than
  another request's commit (`longform_regression_service.py:254`).
- *Message ids beyond their identity*: one that was removed and is sent again counts as a new
  one, and a message that is sent again has the text it was first sent with.  A batch of
  several messages is several appends.
- *Read services* that only derive; deletion of branches as seen by manifests, which look at
  none; documents' parsing and scores of retrievers, abstracted to what they may find.
- *The startup task after a `CancelledError`* of the MCP library: it ends and the remaining
  servers are not connected (`mcp_manager.py:324`); nothing says they must be.
- *Setup through the older LangGraph loading of trees, attachments, maintenance endpoints,
  evaluation, observability and the Flutter client.*

## 7. Plan

1. *(done)* `StoryStore`, `StoryTurns`, `StoryLedger`, the refinement, their runs and proofs, the
   story of a branch among them.
2. *(done)* `McpManager`, its runs and proofs.
3. *(done)* `CoreState`, `CoreMutations`, their runs and proofs, all of the module's
   invariants among them.
4. *(done)* The parts beside the turns, what models are told, setup and the chat backend:
   modules and runs.
5. *(done)* Proofs of `OneAnswer`, `SummaryIsOfItsTurn`, `FinishIsHonest` and `OneVerdict`,
   of the profiles, chapters, brainstorms and reviews, of `WorkspaceIsSound` and of
   `MemoryIsSound`.
6. Workers, once their effects are committed.
