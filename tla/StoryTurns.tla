----------------------------- MODULE StoryTurns -----------------------------
(***************************************************************************)
(* Story turn requests and branch controls of one session, running against *)
(* the database.                                                           *)
(*                                                                         *)
(* Every HTTP request works in a database session of its own (get_session) *)
(* and nothing it flushes is durable before a commit().  A session that    *)
(* has flushed holds the database's write lock until it commits or ends;   *)
(* another session that flushes meanwhile fails.  So the model has the     *)
(* durable store, at most one uncommitted working copy, and the request    *)
(* that owns it:                                                           *)
(*                                                                         *)
(*   store   what is committed                                             *)
(*   txn     what the lock holder sees; equal to store when nobody holds   *)
(*           the lock                                                      *)
(*   lock    the request with uncommitted flushes, or NoRequest            *)
(*   req     where each turn request is between two of its awaits          *)
(*                                                                         *)
(* Code between two awaits is one action.  Branch controls have no await:  *)
(* each is one action that checks, writes and commits.                     *)
(***************************************************************************)
EXTENDS StoryStore

CONSTANTS
    Requests,
    NoRequest,
    Replies     \* the commands the planner may answer with a message

ASSUME RequestAssumption == NoRequest \notin Requests

VARIABLES store, txn, lock, req

vars == <<store, txn, lock, req>>

PC == {"idle", "bound", "pinned", "persisted", "post_writing",
       "accepting", "accepted", "closing", "done"}

\* The states of a request that owns the working copy.
Owning == {"pinned", "post_writing", "accepting", "closing"}

RequestState == [pc : PC, cmd : Command, branch : Branches, turn : TurnRef]

Idle == [pc |-> "idle", cmd |-> "discuss_outline", branch |-> Default,
         turn |-> NoTurn]

Init ==
    /\ store = FreshStore
    /\ txn = FreshStore
    /\ lock = NoRequest
    /\ req = [r \in Requests |-> Idle]

-----------------------------------------------------------------------------
(* Database steps.                                                         *)

Goto(r, pc) == req' = [req EXCEPT ![r].pc = pc]

\* The first flush of a session, from the committed state.
Flush(r, s) ==
    /\ lock = NoRequest
    /\ lock' = r
    /\ txn' = s
    /\ UNCHANGED store

\* A later flush of the session that already owns the lock.
FlushMore(r, s) ==
    /\ lock = r
    /\ txn' = s
    /\ UNCHANGED <<store, lock>>

\* Session.commit()
Commit(s) ==
    /\ store' = s
    /\ txn' = s
    /\ lock' = NoRequest

\* Mutants: plausible bugs in the operators after them.
DiscardMutant ==
    /\ lock' = NoRequest
    /\ UNCHANGED <<store, txn>>

\* The session is closed without a commit.
Discard ==
    /\ txn' = store
    /\ lock' = NoRequest
    /\ UNCHANGED store

-----------------------------------------------------------------------------
(* A turn request.                                                         *)

\* run_turn / run_turn_stream: the graph thread is bound to the branch that
\* is active now; opening the checkpointer awaits before the turn is pinned.
BindThread(r, cmd) ==
    /\ req[r].pc = "idle"
    /\ req' = [req EXCEPT ![r] = [pc |-> "bound", cmd |-> cmd,
                                  branch |-> store.active, turn |-> NoTurn]]
    /\ UNCHANGED <<store, txn, lock>>

\* pin_runtime_identity creates the turn on the bound branch.
Pin(r) ==
    /\ req[r].pc = "bound"
    /\ Switchable(store, req[r].branch)
    /\ store.turns < MaxTurns
    /\ Flush(r, CreateTurn(store, req[r].branch, req[r].cmd))
    /\ req' = [req EXCEPT ![r].pc = "pinned", ![r].turn = store.turns + 1]

\* The bound branch was deleted meanwhile.
PinRejected(r) ==
    /\ req[r].pc = "bound"
    /\ ~ Switchable(store, req[r].branch)
    /\ req' = [req EXCEPT ![r] = Idle]
    /\ UNCHANGED <<store, txn, lock>>

\* The writer answered: persist_generated_artifact commits the turn.  Any
\* command may yield a segment, and those in Replies a message as well.
PersistArtifact(r, kind) ==
    /\ req[r].pc = "pinned"
    /\ req[r].cmd # "accept_pending_segment"
    /\ CommandAllowed(txn, req[r].cmd)
    /\ kind = "message" => req[r].cmd \in Replies
    /\ lock = r
    /\ Commit(Persist(txn, req[r].turn, req[r].cmd, kind))
    /\ Goto(r, "persisted")

\* trigger_post_write when the obligations are closed already: replay.
PostWriteReplay(r) ==
    /\ req[r].pc = "persisted"
    /\ JobsTerminal(store, req[r].turn)
    /\ Flush(r, SettleIfReady(store, req[r].turn))
    /\ Goto(r, "closing")

\* _run_minimal_post_write
PostWriteMinimal(r) ==
    LET t == req[r].turn
        deferred == CloseJobs(UpdateStatus(EnsureJobs(store, t), t,
                                           "post_write_deferred"),
                              t, "deferred")
    IN  /\ req[r].pc = "persisted"
        /\ ~ JobsTerminal(store, t)
        /\ Flush(r, SettleIfReady(deferred, t))
        /\ Goto(r, "closing")

\* The full schedule: the turn is running while the workers are awaited.
PostWriteStart(r) ==
    LET t == req[r].turn
    IN  /\ req[r].pc = "persisted"
        /\ ~ JobsTerminal(store, t)
        /\ Flush(r, UpdateStatus(EnsureJobs(store, t), t, "post_write_running"))
        /\ Goto(r, "post_writing")

PostWriteFinish(r) ==
    /\ req[r].pc = "post_writing"
    /\ FlushMore(r, SettleIfReady(CloseJobs(txn, req[r].turn, "completed"),
                                  req[r].turn))
    /\ Goto(r, "closing")

\* accept_pending_segment flushes everything and awaits the regression.
Accept(r, t) ==
    /\ req[r].pc = "pinned"
    /\ req[r].cmd = "accept_pending_segment"
    /\ CommandAllowed(txn, "accept_pending_segment")
    /\ t \in AcceptTargets(txn)
    /\ FlushMore(r, AcceptSegment(txn, t))
    /\ Goto(r, "accepting")

AcceptCommit(r) ==
    /\ req[r].pc = "accepting"
    /\ lock = r
    /\ Commit(txn)
    /\ Goto(r, "accepted")

\* finalize_runtime_turn of a command that wrote no output
Finalize(r) ==
    /\ req[r].pc = "accepted"
    /\ Flush(r, UpdateStatus(store, req[r].turn, "completed"))
    /\ Goto(r, "closing")

EndMutant(r) ==
    /\ req[r].pc = "closing"
    /\ lock = r
    /\ Commit(txn)
    /\ Goto(r, "done")

\* The response is sent and get_session closes the session.
End(r) ==
    /\ req[r].pc = "closing"
    /\ lock = r
    /\ Discard
    /\ Goto(r, "done")

Reset(r) ==
    /\ req[r].pc = "done"
    /\ req' = [req EXCEPT ![r] = Idle]
    /\ UNCHANGED <<store, txn, lock>>

AbortMutant(r) ==
    /\ req[r].pc \in Owning \ {"pinned"}
    /\ lock = r
    /\ Discard
    /\ req' = [req EXCEPT ![r] = Idle]

\* The request fails while it owns the working copy: a rejected command, a
\* model error, a failed regression or worker, a client that went away.
Abort(r) ==
    /\ req[r].pc \in Owning
    /\ lock = r
    /\ Discard
    /\ req' = [req EXCEPT ![r] = Idle]

\* The request flushes while another session has the write lock.
Busy(r) ==
    /\ req[r].pc \in {"bound", "persisted", "accepted"}
    /\ lock # NoRequest
    /\ req' = [req EXCEPT ![r] = Idle]
    /\ UNCHANGED <<store, txn, lock>>

\* Everything a request does on its own once it has been received.
Proceed(r) ==
    \/ Pin(r) \/ PinRejected(r)
    \/ \E kind \in {"segment", "message"} : PersistArtifact(r, kind)
    \/ PostWriteReplay(r) \/ PostWriteMinimal(r)
    \/ PostWriteStart(r) \/ PostWriteFinish(r)
    \/ \E t \in Turns : Accept(r, t)
    \/ AcceptCommit(r) \/ Finalize(r)
    \/ End(r) \/ Reset(r) \/ Abort(r) \/ Busy(r)

-----------------------------------------------------------------------------
(* Branch controls.                                                        *)

Control(s) ==
    /\ lock = NoRequest
    /\ Commit(s)
    /\ UNCHANGED req

CreateBranch(t, b) ==
    /\ b \notin store.made
    /\ CanFork(store, t)
    /\ Control(Fork(store, t, b))

SwitchBranch(b) ==
    /\ CanSwitch(store, b)
    /\ Control(Switch(store, b))

DeleteBranch(b) ==
    /\ CanDelete(store, b)
    /\ Control(Delete(store, b))

RollbackToTurn(t) ==
    /\ CanRollback(store, t)
    /\ Control(Rollback(store, t))

\* The server restarts: requests and uncommitted work are gone.
Restart ==
    /\ req' = [r \in Requests |-> Idle]
    /\ Discard

Next ==
    \/ \E r \in Requests, cmd \in Command : BindThread(r, cmd)
    \/ \E r \in Requests : Proceed(r)
    \/ \E t \in Turns, b \in Branches : CreateBranch(t, b)
    \/ \E b \in Branches : SwitchBranch(b) \/ DeleteBranch(b)
    \/ \E t \in Turns : RollbackToTurn(t)
    \/ Restart

Spec == Init /\ [][Next]_vars

\* Every await of a request ends: the model gateway bounds its calls.
FairSpec == Spec /\ \A r \in Requests : WF_vars(Proceed(r))

-----------------------------------------------------------------------------
(* Properties.                                                             *)

TypeOK ==
    /\ store \in Store
    /\ txn \in Store
    /\ lock \in Requests \cup {NoRequest}
    /\ req \in [Requests -> RequestState]

\* One request at a time has uncommitted work, and it is the one that is
\* between its first flush and its commit or end (get_session, the commit()
\* calls of story_turn_domain_service).
OneWriter ==
    /\ lock = NoRequest => txn = store
    /\ \A r \in Requests : req[r].pc \in Owning <=> lock = r

\* The durable forms of what the services rely on; each predicate is
\* explained at its definition in StoryStore.
DurableActiveBranchLive      == ActiveBranchLive(store)
DurableLineageChronological  == LineageChronological(store)
DurableHiddenViewsAgree      == HiddenViewsAgree(store)
DurableHeadIsFrontier        == HeadIsFrontier(store)
DurableAnchorIsLatestSettled == AnchorIsLatestSettled(store)
DurableAdoptedIsSettled      == AdoptedIsSettled(store)
DurableReviewHasPendingDraft == ReviewHasPendingDraft(store)

\* A turn that a rollback has hidden never comes back, although settling a
\* turn sets its visibility_state to active again and may run after the
\* rollback (update_turn_status, trigger_post_write).
HiddenStaysHidden == [][store.hidden \subseteq store'.hidden]_vars

\* The story a reader of a branch is told, the accepted segments visible
\* through its head and its ancestors' fork points, only ever grows; a
\* rollback is the only step that takes any of it away
\* (active_branch_accepted_story_segments).
NarrativeOnlyCutByRollback ==
    [][store' # store
         => \/ \A b \in store.made : AcceptedOn(store, b) \subseteq AcceptedOn(store', b)
            \/ \E t \in Turns : RollbackToTurn(t)]_vars

\* A rollback cuts the story exactly at its target: no accepted segment up
\* to the target is lost and none beyond it remains (rollback_to_turn).
RollbackCutsAtTarget ==
    [][\A t \in Turns :
         RollbackToTurn(t)
           => LET before == AcceptedOn(store, store.active)
                  after  == AcceptedOn(store', store.active)
              IN  /\ \A u \in before : u <= t => u \in after
                  /\ \A u \in after : u <= t]_vars

\* The session of a request that has flushed is closed in the end: no
\* request keeps the database locked for ever (get_session).
WriteLockReleased == \A r \in Requests : lock = r ~> lock # r

\* What test_projection_builder_services.py asserts of a turn whose request
\* has run to its end: the turn is settled, unless a rollback hid it.
CompletedTurnIsSettled ==
    \A r \in Requests :
        req[r].pc = "done" /\ req[r].cmd # "accept_pending_segment"
          => \/ store.status[req[r].turn] = "settled"
             \/ req[r].turn \in store.hidden

\* What create_branch_from_turn says of a branch: it preserves the turn it
\* was forked from.
ForkOriginPreserved ==
    \A b \in store.made \ store.deleted :
        store.parent[b] # None => store.forkedFrom[b] \notin store.hidden

-----------------------------------------------------------------------------
(* The inductive invariant behind the durable properties.                  *)

\* The working copy is as good as the durable store until the post-write
\* step, which alone breaks it and is never committed.
PinnedTurn(r) ==
    req[r].pc = "pinned"
      => /\ req[r].turn \in Created(txn)
         /\ txn.status[req[r].turn] = "started"
         /\ req[r].turn \notin txn.hidden

WorkingCopy ==
    \A r \in Requests :
      /\ (req[r].pc \in {"pinned", "accepting"}
            => StoreInv(txn) /\ txn.hidden = store.hidden)
      /\ PinnedTurn(r)
      /\ (req[r].pc \notin {"idle", "bound"} => req[r].turn \in Turns)

\* The invariant that every step preserves: the durable store is sound and
\* whatever a commit() can make durable next is sound as well.
Inv ==
    /\ TypeOK
    /\ OneWriter
    /\ StoreInv(store)
    /\ WorkingCopy
=============================================================================
