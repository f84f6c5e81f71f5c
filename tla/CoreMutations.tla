--------------------------- MODULE CoreMutations ----------------------------
(***************************************************************************)
(* Proposals to change the core state of one session, from submission to   *)
(* application, while turns are taken and branches forked, switched and    *)
(* rolled back.                                                            *)
(*                                                                         *)
(*   story   branches and turns (StoryStore); a turn is taken and adopted  *)
(*           in one step here, StoryTurns has the steps between            *)
(*   core    the committed core state                                      *)
(*   work    what the request under way has flushed; core when there is    *)
(*           none                                                          *)
(*   save    the savepoint of apply_proposal (begin_nested)                *)
(*   req     the request under way                                         *)
(*                                                                         *)
(* A session that has flushed holds the database's write lock, so one      *)
(* request at a time writes.  It may fail, or the server may stop, between *)
(* any two of its steps.                                                   *)
(***************************************************************************)
EXTENDS CoreState

CONSTANTS
    Channels,   \* the sources of proposals in use
    Bases       \* the base revisions submitted; NoRevision is none

VARIABLES story, core, work, save, req

vars == <<story, core, work, save, req>>

\* Where proposals come from:
\*   edit        direct_edit_block: for a turn, on a base revision
\*   block       submit_block_proposal: of the session, may need a review
\*   review      apply_block_proposal
\*   regression  the state patches of an accepted segment, several to a
\*               transaction
\*   tool        the memory tools' ProposalService, without the store
Channel == {"edit", "block", "review", "regression", "tool"}

ASSUME InputAssumption == Channels \subseteq Channel /\ Bases \subseteq Nat

PC == {"idle", "submitted", "loaded", "receipted", "written", "recorded",
       "routed", "failed"}

View == [Objects -> Value]

Idle == [pc |-> "idle", ch |-> "block", p |-> None, rev |-> NoRevision,
         before |-> {}, after |-> [o \in Objects |-> {}]]

RequestState == [pc : PC, ch : Channel, p : Proposals \cup {None}, rev : Nat,
                 before : Value, after : View]

Writes(ch)  == StoreWrite /\ ch # "tool"
Leads(ch)   == StorePrimary /\ ch # "tool"

\* A session activated before the store was enabled has no rows.
Init ==
    /\ story = FreshStore
    /\ core \in {EmptyCore} \cup
               (IF StoreWrite THEN {SeedRows(EmptyCore)} ELSE {})
    /\ work = core
    /\ save = core
    /\ req = Idle

-----------------------------------------------------------------------------
(* Database steps.                                                         *)

Flush(c) == work' = c /\ UNCHANGED <<story, core, save>>

Goto(pc) == req' = [req EXCEPT !.pc = pc]

\* The session is committed: nothing is under way.
Commit(c) ==
    /\ core' = c /\ work' = c /\ save' = c
    /\ req' = Idle
    /\ UNCHANGED story

Discard == Commit(core)

-----------------------------------------------------------------------------
(* Submission.                                                             *)

\* What each source may submit.
Legal(ch, t, base) ==
    \/ ch = "edit" /\ t \in Created(story) /\ base # NoRevision
    \/ ch \in {"block", "tool"} /\ t = NoTurn
    \/ ch = "regression" /\ t = NoTurn /\ base = NoRevision

\* The state patches of one regression follow each other before its commit.
MaySubmit(ch) ==
    \/ req.pc = "idle"
    \/ req.pc = "routed" /\ req.ch = "regression" /\ ch = "regression"

\* _submit_canonical when the policy applies at once
Submit(ch, p, o, t, base) ==
    /\ ch # "review"
    /\ MaySubmit(ch)
    /\ Legal(ch, t, base)
    /\ work.prop[p].status = "absent"
    /\ Flush(Proposed(work, p, "pending", o, t, base))
    /\ req' = [Idle EXCEPT !.pc = "submitted", !.ch = ch, !.p = p]

\* _submit_canonical when the policy wants a review
SubmitForReview(ch, p, o, base) ==
    /\ ch \in {"block", "tool"}
    /\ req.pc = "idle"
    /\ core.prop[p].status = "absent"
    /\ Commit(Proposed(core, p, "review_required", o, NoTurn, base))

ApplyReviewedMutant(p) ==
    /\ "review" \in Channels
    /\ req.pc = "idle"
    /\ core.prop[p].status # "absent"
    /\ req' = [Idle EXCEPT !.pc = "submitted", !.ch = "review", !.p = p]
    /\ UNCHANGED <<story, core, work, save>>

\* apply_block_proposal: any proposal but an applied one, whose receipt is
\* returned as it is
ApplyReviewed(p) ==
    /\ "review" \in Channels
    /\ req.pc = "idle"
    /\ core.prop[p].status \notin {"absent", "applied"}
    /\ req' = [Idle EXCEPT !.pc = "submitted", !.ch = "review", !.p = p]
    /\ UNCHANGED <<story, core, work, save>>

-----------------------------------------------------------------------------
(* apply_proposal.                                                         *)

\* begin_nested, the before snapshot and the checks
Load ==
    LET p == req.p
        ch == req.ch
        c == Loaded(story, work, p, Leads(ch))
        before == BeforeView(c, p, Leads(ch))
        o == Target(c, p)
    IN  /\ req.pc = "submitted"
        /\ Resolvable(c, p)
        /\ BaseIsVisible(c, p, Writes(ch))
        /\ save' = work
        /\ work' = c
        /\ req' = [req EXCEPT !.pc = "loaded",
                              !.rev = NextRevision(c, p, Writes(ch)),
                              !.before = before[o],
                              !.after = [before EXCEPT ![o] = @ \cup {p}]]
        /\ UNCHANGED <<story, core>>

\* The snapshot has no revision of the target, or the base is stale: the
\* savepoint goes back to what was submitted.
Refuse ==
    LET p == req.p
        ch == req.ch
        c == Loaded(story, work, p, Leads(ch))
    IN  /\ req.pc = "submitted"
        /\ ~ (Resolvable(c, p) /\ BaseIsVisible(c, p, Writes(ch)))
        /\ Flush(Marked(work, p, "failed"))
        /\ Goto("failed")

\* sync_mirror_state, unless the store leads, and create_apply_receipt
Receipt ==
    /\ req.pc = "loaded"
    /\ LET c == IF Leads(req.ch) THEN work ELSE [work EXCEPT !.mirror = req.after]
       IN  Flush(Receipted(c, req.p, req.rev, Writes(req.ch)))
    /\ Goto("receipted")

\* apply_authoritative_mutation
WriteStore ==
    /\ req.pc = "receipted"
    /\ Flush(IF Writes(req.ch)
             THEN Mutated(work, req.p, req.rev, req.before,
                          req.after[Target(work, req.p)])
             ELSE work)
    /\ Goto("written")

\* _record_core_state_snapshot_manifest
Record ==
    LET p == req.p
    IN  /\ req.pc = "written"
        /\ Flush(IF Writes(req.ch) /\ Pinned(work, p)
                 THEN RecordMutation(story, work, work.prop[p].turn,
                                     Target(work, p), req.rev)
                 ELSE work)
        /\ Goto("recorded")

\* sync_mirror_state of a leading store, and the status
Finish ==
    /\ req.pc = "recorded"
    /\ LET c == IF Leads(req.ch) THEN [work EXCEPT !.mirror = req.after] ELSE work
       IN  Flush(Marked(c, req.p, "applied"))
    /\ Goto("routed")

FailMutant ==
    /\ req.pc \in {"loaded", "receipted", "written", "recorded"}
    /\ Flush(Marked(work, req.p, "failed"))
    /\ Goto("failed")

\* Any of these steps raises: the savepoint is restored and the proposal
\* marked.
Fail ==
    /\ req.pc \in {"loaded", "receipted", "written", "recorded"}
    /\ Flush(Marked(save, req.p, "failed"))
    /\ Goto("failed")

\* The end of the request: the services of the API and the tools commit
\* whether the proposal was applied or has failed; a failed regression fails
\* the accept request, which commits nothing.
EndApplied ==
    /\ req.pc = "routed"
    /\ Commit(work)

EndFailed ==
    /\ req.pc = "failed"
    /\ IF req.ch = "regression" THEN Discard ELSE Commit(work)

\* The connection or the server goes away before the commit.
Crash ==
    /\ req.pc # "idle"
    /\ Discard

Apply == Load \/ Refuse \/ Receipt \/ WriteStore \/ Record \/ Finish \/ Fail

-----------------------------------------------------------------------------
(* Turns and branches.                                                     *)

Committed(s, c) ==
    /\ req.pc = "idle"
    /\ story' = s
    /\ core' = c /\ work' = c /\ save' = c
    /\ UNCHANGED req

\* A turn whose writer packet is built reads a manifest (build_runtime_scope,
\* resolve_manifest), one that accepts does not.
TurnCommand(reads) ==
    IF reads THEN "write_next_segment" ELSE "accept_pending_segment"

\* A turn request.
TakeTurn(reads) ==
    LET b == story.active
        t == story.turns + 1
        s == Settle(CreateTurn(story, b, TurnCommand(reads)), t)
    IN  /\ story.turns < MaxTurns
        /\ Committed(s, IF reads THEN EnsureManifest(s, core, t) ELSE core)

ForkBranch(t, b) ==
    /\ b \notin story.made
    /\ CanFork(story, t)
    /\ Committed(Fork(story, t, b), core)

SwitchBranch(b) ==
    /\ CanSwitch(story, b)
    /\ Committed(Switch(story, b), core)

RollbackToTurn(t) ==
    /\ CanRollback(story, t)
    /\ Committed(Rollback(story, t), core)

Next ==
    \/ \E ch \in Channels, p \in Proposals, o \in Objects,
          t \in TurnRef, base \in Bases : Submit(ch, p, o, t, base)
    \/ \E ch \in Channels, p \in Proposals, o \in Objects,
          base \in Bases : SubmitForReview(ch, p, o, base)
    \/ \E p \in Proposals : ApplyReviewed(p)
    \/ Apply
    \/ EndApplied \/ EndFailed \/ Crash
    \/ \E reads \in BOOLEAN : TakeTurn(reads)
    \/ \E t \in Turns, b \in Branches : ForkBranch(t, b)
    \/ \E b \in Branches : SwitchBranch(b)
    \/ \E t \in Turns : RollbackToTurn(t)

Spec == Init /\ [][Next]_vars

-----------------------------------------------------------------------------
(* Properties.                                                             *)

TypeOK ==
    /\ story \in Store
    /\ core \in Core /\ work \in Core /\ save \in Core
    /\ req \in RequestState

\* A proposal is applied exactly when it has its one receipt, however often
\* it was applied, refused, failed or interrupted (apply_proposal).
AppliedOnce == \A p \in Proposals : Once(core, p)

\* What apply_proposal keeps in "one nested unit": a proposal has written
\* exactly the revisions its receipts claim, and a manifest of its turn
\* leads to them.
AppliedIsWhole == \A p \in Proposals : Whole(core, p)

\* The current row of an object is its newest revision, although the row,
\* the revision and the number they get are three writes and turns of other
\* branches work on older revisions (apply_authoritative_mutation).
RowIsNewest == RowsAreNewest(core)

\* Nothing was applied for a turn of its own.
Untied(c) == \A p \in Proposals : Applied(c, p) => c.prop[p].turn = NoTurn

\* The mirror has the changes of the applied proposals, each in its target.
InMirror(c) ==
    \A p \in Proposals, o \in Objects :
        p \in c.mirror[o] <=> o = c.prop[p].target /\ Applied(c, p)

\* If p wrote to the store, the row of its target has its change.
InRow(c, p) == Claimed(c, p) # {} => p \in c.row[c.prop[p].target].val

AddsUp(c) ==
    Untied(c) => IF StorePrimary THEN \A p \in Proposals : InRow(c, p)
                                 ELSE InMirror(c)

\* No change is lost and none half made is left behind, however requests are
\* refused, fail or break off: as long as nothing was applied for a turn of
\* its own, the leading copy holds the applied proposals, the mirror exactly
\* these, a leading store those that wrote to it (_load_before_snapshot,
\* sync_mirror_state and the savepoint of apply_proposal).
ChangesAddUp == AddsUp(core)

\* A manifest only names revisions there are, and a turn is only bound to a
\* manifest there is (record_core_mutation, _bind_turn_to_manifest).
ManifestsResolve == MapsResolve(core)

\* Optimistic concurrency: what a proposal adds to is the revision it was
\* based on, whatever other branches have written since, if the store leads
\* or the proposal has a turn (_validate_base_revisions).
MergedOnBase ==
    \A p \in Proposals :
        LET pr == core.prop[p]
        IN  pr.base # NoRevision /\ (StorePrimary \/ pr.turn # NoTurn)
              => \A n \in Claimed(core, p) :
                    core.revs[pr.target][n].val =
                        core.revs[pr.target][pr.base].val \cup {p}

\* The branches that b descends from, b among them: those that no set with b
\* and with the parent of each of its members can leave out.
Above(s, b) ==
    {a \in Branches : \A bs \in SUBSET Branches :
        /\ b \in bs
        /\ \A x \in bs : s.parent[x] # None => s.parent[x] \in bs
        => a \in bs}

\* How far branch b, or one it descends from, continues its parent.  A
\* rollback of b itself takes the turns of b along with the fork point; one of
\* a branch above it leaves b the story it was forked with.
ForkPoint(s, b, d) == IF d = b THEN s.forkedFrom[d] ELSE s.forkOrigin[d]

\* Turn t continues turn u.
InPast(s, t, u) ==
    \/ s.on[u] = s.on[t] /\ u <= t /\ ~ HiddenByRollback(s, s.on[u], u)
    \/ \E d \in Above(s, s.on[t]) :
         s.parent[d] = s.on[u] /\ u <= ForkPoint(s, s.on[t], d)

\* What was changed for turns in a value was changed for turns t continues.
OfPast(s, c, t, val) ==
    \A q \in val : c.prop[q].turn # NoTurn => InPast(s, t, c.prop[q].turn)

\* A compatibility snapshot shows the current rows to a turn that was never
\* bound, with a warning; if there are mutations for turns in them, later
\* turns' may be among them.
LateSnapshot(c) ==
    \E m \in DOMAIN c.mans, o \in Objects :
        LET n == c.mans[m].map[o]
        IN  /\ c.mans[m].kind = "compatibility_snapshot"
            /\ n # NoRevision
            /\ \E q \in c.revs[o][n].val : c.prop[q].turn # NoTurn

\* Without late snapshots a turn never reads what was changed for turns of
\* other branches, for later turns, or for turns of its branch that a
\* rollback has hidden (BranchVisibilityResolver, CoreStateAsOfResolver).
ReadsOnlyItsPast ==
    ~ LateSnapshot(core) => \A t \in Created(story), o \in Objects :
        LET n == AsOf(core, t, o)
        IN  n # NoRevision /\ ~ HiddenByRollback(story, story.on[t], t)
              => OfPast(story, core, t, core.revs[o][n].val)

\* Nothing that was committed is rewritten: revisions (which are upserted),
\* manifests and receipts are only added to.
HistoryAppendOnly == [][Keeps(core', core)]_vars

\* What a turn has read it reads for ever, unless a mutation is applied for
\* that very turn (_bind_turn_to_manifest).
ReadingIsStable ==
    [][\A t \in Turns :
         core.bound[t] # NoManifest /\ core'.bound[t] # core.bound[t]
           => \E p \in Proposals :
                /\ core'.prop[p].turn = t
                /\ Applied(core', p) /\ ~ Applied(core, p)]_vars

\* Where the store leads, the first revision of an object is its state before
\* any proposal: the row is seeded before the change, also when the session
\* had none (ensure_authoritative_targets_seed, _ensure_authoritative_revision_one).
FirstRevisionIsSeed ==
    \A o \in Objects : core.revs[o] # <<>> => core.revs[o][1].by = None

\* "Turn-bound copy-on-write": a mutation for a turn changes what the turn
\* reads of its target and of nothing else (record_core_mutation).
MutationKeepsOthers ==
    [][\A p \in Proposals :
         LET t == core'.prop[p].turn
         IN  t # NoTurn /\ Applied(core', p) /\ ~ Applied(core, p)
               => \A o \in Objects \ {core'.prop[p].target} :
                    AsOf(core', t, o) \in {NoRevision, AsOf(core, t, o)}]_vars

\* Two proposals for the same turn, on the same base of the same object.
SameEdit(a, b) ==
    /\ a.turn = b.turn /\ a.turn # NoTurn
    /\ a.target = b.target
    /\ a.base = b.base

\* A direct edit on a base that another edit for the same turn was applied
\* to already is refused
\* (test_story_runtime_controller_direct_edit_rejects_stale_base_revision).
StaleEditRefused ==
    \A p, q \in Proposals :
        Applied(core, p) /\ Applied(core, q) /\ SameEdit(core.prop[p], core.prop[q])
          => p = q

-----------------------------------------------------------------------------
(***************************************************************************)
(* The inductive invariant the proofs use: what the properties say of the  *)
(* committed state, of the request's work and of its savepoint, and how    *)
(* far a request has come at each of its program counters.                 *)
(***************************************************************************)
Applying == {"loaded", "receipted", "written", "recorded"}

InHand(c) ==
    /\ req.p \in Proposals
    /\ c.prop[req.p].status \notin {"absent", "applied"}

\* Each state is sound, but that the proposal being applied has its receipt
\* before it is marked.
Sound ==
    /\ \A c \in {core, work, save} : RowsAreNewest(c) /\ MapsResolve(c)
    /\ \A c \in {core, save}, p \in Proposals : Once(c, p)
    /\ \A p \in Proposals :
         IF req.pc \in {"receipted", "written", "recorded"} /\ p = req.p
         THEN Len(work.prop[p].receipts) = 1
         ELSE Once(work, p)
    /\ \A c \in {core, work, save}, p \in Proposals :
         c.prop[p].status # "absent" => c.prop[p].target \in Objects

\* The request has a proposal in hand that is not yet applied, the number it
\* carries is the next one, and the savepoint can be returned to.
OnItsWay ==
    /\ req.pc = "idle" => work = core /\ save = core
    /\ req.pc = "submitted" => InHand(work)
    /\ req.pc \in Applying => InHand(work) /\ InHand(save)
    /\ req.pc \in {"loaded", "receipted"} /\ Writes(req.ch)
         => req.rev = work.row[Target(work, req.p)].rev + 1
    /\ req.pc = "written" /\ Writes(req.ch)
         => req.rev = Len(work.revs[Target(work, req.p)])

Inv ==
    /\ TypeOK
    /\ Sound
    /\ OnItsWay
    /\ Keeps(work, core) /\ Keeps(save, core)

\* For AppliedIsWhole: every proposal is whole, but the one being applied
\* from its receipt until it is in a manifest.  It claims what it is about to
\* write and has written nothing, then just that.
Claims == IF Writes(req.ch) THEN {req.rev} ELSE {}

Pieces ==
    /\ \A c \in {core, save}, p \in Proposals : Whole(c, p)
    /\ \A p \in Proposals :
         ~ (req.pc \in {"receipted", "written"} /\ p = req.p) => Whole(work, p)
    /\ req.pc \in {"receipted", "written"} => Claimed(work, req.p) = Claims
    /\ req.pc = "receipted" => HasWritten(work, req.p, {})
    /\ req.pc = "written" => HasWritten(work, req.p, Claims)

\* For ReadingIsStable: where the request reads a turn anew it has applied a
\* proposal for that turn, or is about to mark it.
Moved(c, t) == core.bound[t] # NoManifest /\ c.bound[t] # core.bound[t]

NewlyApplied(c, t) ==
    \E p \in Proposals : c.prop[p].turn = t /\ Applied(c, p) /\ ~ Applied(core, p)

Rebound ==
    \A t \in Turns :
        /\ Moved(work, t) => \/ NewlyApplied(work, t)
                             \/ req.pc = "recorded" /\ work.prop[req.p].turn = t
        /\ Moved(save, t) => NewlyApplied(save, t)

\* For MergedOnBase: what a proposal is based on is there, and what it claims
\* adds it to that; the one being applied carries the sum to the store.
OnBase(c, p) ==
    c.prop[p].base # NoRevision /\ (StorePrimary \/ c.prop[p].turn # NoTurn)

Merged(c, p) ==
    LET pr == c.prop[p]
    IN  OnBase(c, p) => \A n \in Claimed(c, p) :
          /\ pr.target \in Objects
          /\ n \in DOMAIN c.revs[pr.target] /\ pr.base \in DOMAIN c.revs[pr.target]
          /\ c.revs[pr.target][n].val = c.revs[pr.target][pr.base].val \cup {p}

Carries(c, p) ==
    LET pr == c.prop[p]
    IN  OnBase(c, p) =>
          /\ pr.base \in DOMAIN c.revs[pr.target]
          /\ req.after[pr.target] = c.revs[pr.target][pr.base].val \cup {p}

Merging ==
    /\ \A c \in {core, save}, p \in Proposals : Merged(c, p)
    /\ \A p \in Proposals :
         ~ (req.pc = "receipted" /\ p = req.p) => Merged(work, p)
    /\ req.pc \in {"loaded", "receipted"} /\ Writes(req.ch)
         => Carries(work, req.p)

\* For ReadsOnlyItsPast: what the code takes for untouched by turns is (the
\* mirror of an object without a row, its first revision), what a manifest
\* lists lies in the past of the turn it was made for, and so does what a turn
\* is bound to.  A proposal that is in no value yet may still get its turn.
Plain(c, val) == \A q \in val : c.prop[q].turn = NoTurn

Known(c, val) == \A q \in val : c.prop[q].status # "absent"

Origins(s, c) ==
    /\ \A o \in Objects :
         /\ Known(c, c.mirror[o])
         /\ c.row[o].rev = NoRevision => Plain(c, c.mirror[o])
         /\ c.revs[o] # <<>> => Plain(c, c.revs[o][1].val)
         /\ \A n \in DOMAIN c.revs[o] : Known(c, c.revs[o][n].val)
    /\ \A p \in Proposals : c.prop[p].turn \in Created(s) \cup {NoTurn}
    /\ \A t \in Turns : c.bound[t] # NoManifest => t \in Created(s)
    /\ \A m \in DOMAIN c.mans : c.mans[m].turn \in Created(s)

ListsPast(s, c, t, map) ==
    t \notin s.hidden => \A o \in Objects :
        map[o] # NoRevision => OfPast(s, c, t, c.revs[o][map[o]].val)

Reading(s, c) ==
    /\ Origins(s, c)
    /\ ~ LateSnapshot(c) =>
         /\ \A m \in DOMAIN c.mans :
              ListsPast(s, c, c.mans[m].turn, c.mans[m].map)
         /\ \A t \in Turns :
              c.bound[t] # NoManifest => ListsPast(s, c, t, c.mans[c.bound[t]].map)

\* What a proposal makes of its target lies in the past of its turn.
Brings(c, p, val) ==
    LET t == c.prop[p].turn
    IN  t # NoTurn /\ t \notin story.hidden /\ ~ LateSnapshot(c)
          => OfPast(story, c, t, val)

Past ==
    /\ LineageChronological(story) /\ HiddenViewsAgree(story)
    /\ story.active \in story.made
    /\ \A t \in Created(story) : story.status[t] = "settled"
    /\ \A c \in {core, work, save} : Reading(story, c)
    /\ req.pc \in Applying =>
         \A o \in Objects :
            /\ Known(work, req.after[o])
            /\ work.row[o].rev = NoRevision => Plain(work, req.after[o])
    /\ req.pc \in {"loaded", "receipted"}
         => Brings(work, req.p, req.after[Target(work, req.p)])
    /\ req.pc = "written" /\ Writes(req.ch)
         => Brings(work, req.p, work.revs[Target(work, req.p)][req.rev].val)

\* For ChangesAddUp: what a request carries from Load on has all the changes
\* there are, and its own, so that they are all there once it is written; it
\* is in the mirror before it counts as applied, and claims a revision before
\* it is in the row.
MirrorAdding ==
    /\ \A q \in Proposals, o \in Objects :
         q \in req.after[o]
           <=> o = work.prop[q].target /\ (Applied(work, q) \/ q = req.p)
    /\ req.pc # "loaded" => work.mirror = req.after

RowAdding ==
    /\ \A q \in Proposals :
         ~ (req.pc = "receipted" /\ q = req.p) => InRow(work, q)
    /\ req.pc \in {"loaded", "receipted"} /\ Leads(req.ch) =>
         \A q \in Proposals :
            /\ work.prop[q].target = Target(work, req.p)
            /\ Claimed(work, q) # {} \/ q = req.p
            => q \in req.after[Target(work, req.p)]

Adding ==
    /\ AddsUp(core) /\ AddsUp(save)
    /\ req.pc \notin Applying => AddsUp(work)
    /\ req.pc \in Applying /\ Untied(work) /\ ~ Pinned(work, req.p)
         => IF StorePrimary THEN RowAdding ELSE MirrorAdding

\* For FirstRevisionIsSeed, where the store leads: no proposal claims a first
\* revision, since its target has a row from Load on.
Seeding ==
    /\ \A c \in {core, work, save}, q \in Proposals : 1 \notin Claimed(c, q)
    /\ req.pc = "loaded" /\ Leads(req.ch) => req.rev # 1

=============================================================================
