-------------------------- MODULE StoryTurnsProofs --------------------------
(***************************************************************************)
(* The inductive invariant of StoryTurns, for any number of requests,      *)
(* branches and turns, the durable properties it implies, and that         *)
(* StoryTurns implements StoryLedger.                                      *)
(***************************************************************************)
EXTENDS StoryRefinement, StoryStoreProofs

(* Moving one request.                                                     *)

\* An owning request holds the lock, and nobody else does.
LEMMA Owner ==
  ASSUME Inv, NEW r \in Requests, req[r].pc \in Owning
  PROVE  lock = r /\ \A q \in Requests : q # r => req[q].pc \notin Owning
  BY DEF Inv, OneWriter

\* With the lock free no request owns a working copy.
LEMMA NobodyOwns ==
  ASSUME Inv, lock = NoRequest
  PROVE  txn = store /\ \A q \in Requests : req[q].pc \notin Owning
  BY RequestAssumption DEF Inv, OneWriter

\* Moving one request's program counter leaves its other fields and the
\* other requests alone.
LEMMA GotoFields ==
  ASSUME Inv, NEW r \in Requests, NEW pc \in PC, Goto(r, pc)
  PROVE  /\ req' \in [Requests -> RequestState]
         /\ req'[r].pc = pc /\ req'[r].turn = req[r].turn
         /\ req'[r].cmd = req[r].cmd
         /\ \A q \in Requests : q # r => req'[q] = req[q]
<1>1. req \in [Requests -> RequestState] BY DEF Inv, TypeOK
<1>2. req[r] \in RequestState BY <1>1
<1>3. [req[r] EXCEPT !.pc = pc] \in RequestState
      /\ [req[r] EXCEPT !.pc = pc].pc = pc
      /\ [req[r] EXCEPT !.pc = pc].turn = req[r].turn
      /\ [req[r] EXCEPT !.pc = pc].cmd = req[r].cmd
  BY <1>2, SMT DEF RequestState
<1>4. req' = [req EXCEPT ![r] = [req[r] EXCEPT !.pc = pc]] BY <1>1 DEF Goto
<1>5. req'[r] = [req[r] EXCEPT !.pc = pc] BY <1>1, <1>4
<1>6. QED BY <1>1, <1>3, <1>4, <1>5

\* A request that gives up is idle and the other requests are untouched.
LEMMA IdleFields ==
  ASSUME Inv, NEW r \in Requests, req' = [req EXCEPT ![r] = Idle]
  PROVE  /\ req' \in [Requests -> RequestState]
         /\ req'[r].pc = "idle"
         /\ \A q \in Requests : q # r => req'[q] = req[q]
<1>1. req \in [Requests -> RequestState] BY DEF Inv, TypeOK
<1>2. Idle \in RequestState /\ Idle.pc = "idle"
  BY BranchAssumption, MaxTurnsAssumption, SMT
  DEF Idle, RequestState, PC, Command, TurnRef, NoTurn
<1>3. QED BY <1>1, <1>2

\* Once the lock is free again only the durable store matters.
LEMMA Released ==
  ASSUME StoreInv(store'), txn' = store', lock' = NoRequest,
         req' \in [Requests -> RequestState],
         \A q \in Requests : req'[q].pc \notin Owning,
         \A q \in Requests :
           req'[q].pc \notin {"idle", "bound"} => req'[q].turn \in Turns
  PROVE  Inv'
<1>1. store' \in Store BY DEF StoreInv
<1>2. TypeOK' BY <1>1 DEF TypeOK
<1>3. OneWriter' BY RequestAssumption DEF OneWriter
<1>4. WorkingCopy' BY DEF WorkingCopy, PinnedTurn, Owning
<1>5. QED BY <1>2, <1>3, <1>4 DEF Inv

-----------------------------------------------------------------------------
(* The steps of a request.                                                 *)

\* Reading the active branch changes no store.
LEMMA BindThreadStep ==
  ASSUME Inv, NEW r \in Requests, NEW cmd \in Command, BindThread(r, cmd)
  PROVE  Inv'
<1> DEFINE new == [pc |-> "bound", cmd |-> cmd, branch |-> store.active,
                   turn |-> NoTurn]
<1>1. store.active \in Branches BY StoreFields DEF Inv, TypeOK
<1>2. new \in RequestState /\ new.pc = "bound"
  BY <1>1, MaxTurnsAssumption, SMT DEF RequestState, PC, TurnRef, NoTurn
<1>3. /\ req' = [req EXCEPT ![r] = new] /\ req[r].pc = "idle"
      /\ UNCHANGED <<store, txn, lock>>
  BY DEF BindThread
<1> HIDE DEF new
<1>4. /\ req' \in [Requests -> RequestState] /\ req'[r].pc = "bound"
      /\ \A q \in Requests : q # r => req'[q] = req[q]
  BY <1>2, <1>3 DEF Inv, TypeOK
<1>5. \A q \in Requests : /\ req'[q].pc \in Owning <=> req[q].pc \in Owning
                          /\ req'[q].pc \notin {"idle", "bound"} => req'[q] = req[q]
  BY <1>3, <1>4 DEF Owning
<1>6. QED
  BY <1>3, <1>4, <1>5
  DEF Inv, TypeOK, OneWriter, WorkingCopy, PinnedTurn

\* A request that owns nothing and returns to idle changes no store.
LEMMA RestStep ==
  ASSUME Inv, NEW r \in Requests, req' = [req EXCEPT ![r] = Idle],
         req[r].pc \notin Owning, UNCHANGED <<store, txn, lock>>
  PROVE  Inv'
<1>1. /\ req' \in [Requests -> RequestState] /\ req'[r].pc = "idle"
      /\ \A q \in Requests : q # r => req'[q] = req[q]
  BY IdleFields
<1>2. \A q \in Requests : /\ req'[q].pc \in Owning <=> req[q].pc \in Owning
                          /\ req'[q].pc # "idle" => req'[q] = req[q]
  BY <1>1 DEF Owning
<1>3. QED
  BY <1>1, <1>2 DEF Inv, TypeOK, OneWriter, WorkingCopy, PinnedTurn

\* pin_runtime_identity: creating the turn keeps the working copy sound.
LEMMA PinStep ==
  ASSUME Inv, NEW r \in Requests, Pin(r)
  PROVE  Inv'
<1> DEFINE b == req[r].branch
           t == store.turns + 1
           n == CreateTurn(store, b, req[r].cmd)
           mid == [req[r] EXCEPT !.pc = "pinned"]
           new == [mid EXCEPT !.turn = t]
<1>1. /\ StoreInv(store) /\ Switchable(store, b) /\ store.turns < MaxTurns
      /\ lock = NoRequest /\ lock' = r /\ txn' = n /\ store' = store
      /\ req[r] \in RequestState /\ req \in [Requests -> RequestState]
  BY DEF Inv, TypeOK, Pin, Flush
<1>2. b \in Branches BY <1>1 DEF RequestState
<1>3. /\ StoreInv(n) /\ n.hidden = store.hidden
      /\ t \in Turns /\ t \in Created(n)
      /\ n.status[t] = "started" /\ t \notin n.hidden
  BY <1>1, <1>2, CreateTurnInv
<1>4. t \in TurnRef BY <1>1, <1>3, TurnIds DEF StoreInv
<1> HIDE DEF n, t, b
<1>5. new \in RequestState /\ new.pc = "pinned" /\ new.turn = t
  <2>1. mid \in RequestState /\ mid.pc = "pinned"
    BY <1>1, SMT DEF RequestState, PC
  <2> HIDE DEF mid
  <2>2. QED BY <1>4, <2>1, SMT DEF RequestState
<1>6. req' = [req EXCEPT ![r] = new] BY <1>1 DEF Pin, t
<1> HIDE DEF new
<1>7. /\ req' \in [Requests -> RequestState] /\ req'[r] = new
      /\ \A q \in Requests : q # r => req'[q] = req[q]
  BY <1>1, <1>5, <1>6
<1>8. \A q \in Requests : q # r => req'[q].pc \notin Owning
  BY <1>1, <1>7, NobodyOwns
<1>9. TypeOK' BY <1>1, <1>3, <1>7 DEF TypeOK, StoreInv
<1>10. OneWriter'
  BY <1>1, <1>5, <1>7, <1>8, RequestAssumption DEF OneWriter, Owning
<1>11. WorkingCopy'
  BY <1>1, <1>3, <1>5, <1>7, <1>8 DEF Inv, WorkingCopy, PinnedTurn, Owning
<1>12. QED BY <1>1, <1>9, <1>10, <1>11 DEF Inv

\* persist_generated_artifact commits a sound store.
LEMMA PersistArtifactStep ==
  ASSUME Inv, NEW r \in Requests, NEW kind, PersistArtifact(r, kind)
  PROVE  Inv' /\ store.hidden \subseteq store'.hidden
<1> DEFINE t == req[r].turn
           n == Persist(txn, t, req[r].cmd, kind)
<1>1. /\ req[r].pc = "pinned" /\ Commit(n) /\ Goto(r, "persisted")
      /\ lock = r
  BY DEF PersistArtifact
<1>2. /\ StoreInv(txn) /\ txn.hidden = store.hidden /\ t \in Created(txn)
      /\ txn.status[t] = "started" /\ t \in Turns
  BY <1>1 DEF Inv, WorkingCopy, PinnedTurn
<1>3. req[r].cmd \in Command BY DEF Inv, TypeOK, RequestState
<1>4. StoreInv(n) /\ n.hidden = txn.hidden BY <1>2, <1>3, PersistInv
<1> HIDE DEF n
<1>5. store' = n /\ txn' = n /\ lock' = NoRequest BY <1>1 DEF Commit
<1>6. /\ req' \in [Requests -> RequestState]
      /\ req'[r].pc = "persisted" /\ req'[r].turn = t
      /\ \A q \in Requests : q # r => req'[q] = req[q]
  BY <1>1, GotoFields DEF PC
<1>7. \A q \in Requests : q # r => req'[q].pc \notin Owning
  BY <1>1, <1>6, Owner DEF Owning
<1>8. \A q \in Requests :
        req'[q].pc \notin {"idle", "bound"} => req'[q].turn \in Turns
  BY <1>2, <1>6 DEF Inv, WorkingCopy
<1>9. Inv' BY <1>4, <1>5, <1>6, <1>7, <1>8, Released DEF Owning
<1>10. QED BY <1>2, <1>4, <1>5, <1>9

\* The steps that flush post-write work: the working copy is only typed.
LEMMA PostWriteStep ==
  ASSUME Inv, NEW r \in Requests, NEW s \in Store, NEW pc \in {"post_writing", "closing"},
         Goto(r, pc), req[r].pc \notin {"idle", "bound"},
         txn' = s, store' = store, lock' = r,
         lock = NoRequest \/ lock = r
  PROVE  Inv'
<1>1. /\ req' \in [Requests -> RequestState]
      /\ req'[r].pc = pc /\ req'[r].turn = req[r].turn
      /\ \A q \in Requests : q # r => req'[q] = req[q]
  BY GotoFields DEF PC
<1>2. \A q \in Requests : q # r => req'[q].pc \notin Owning
  BY <1>1, RequestAssumption DEF Inv, OneWriter
<1>3. TypeOK' BY <1>1 DEF TypeOK, Inv
<1>4. OneWriter' BY <1>1, <1>2, RequestAssumption DEF OneWriter, Owning
<1>5. WorkingCopy'
  BY <1>1, <1>2 DEF Inv, WorkingCopy, PinnedTurn, Owning
<1>6. QED BY <1>3, <1>4, <1>5 DEF Inv

\* The lock holder's session is closed without a commit.
LEMMA DiscardStep ==
  ASSUME Inv, NEW r \in Requests, lock = r, Discard,
         req' \in [Requests -> RequestState],
         req'[r].pc \notin Owning,
         req'[r].pc # "idle" => req'[r].turn \in Turns,
         \A q \in Requests : q # r => req'[q] = req[q]
  PROVE  Inv'
<1>1. store' = store /\ txn' = store' /\ lock' = NoRequest BY DEF Discard
<1>2. \A q \in Requests : req'[q].pc \notin Owning
  BY DEF Inv, OneWriter
<1>3. \A q \in Requests :
        req'[q].pc \notin {"idle", "bound"} => req'[q].turn \in Turns
  BY DEF Inv, WorkingCopy
<1>4. StoreInv(store') BY <1>1 DEF Inv
<1>5. QED BY <1>1, <1>2, <1>3, <1>4, Released

\* accept_pending_segment keeps the working copy sound over its await.
LEMMA AcceptStep ==
  ASSUME Inv, NEW r \in Requests, NEW t \in Turns, Accept(r, t)
  PROVE  Inv'
<1> DEFINE n == AcceptSegment(txn, t)
<1>1. /\ req[r].pc = "pinned" /\ t \in AcceptTargets(txn)
      /\ lock = r /\ txn' = n /\ store' = store /\ lock' = lock
      /\ Goto(r, "accepting")
  BY DEF Accept, FlushMore
<1>2. StoreInv(txn) /\ txn.hidden = store.hidden /\ req[r].turn \in Turns
  BY <1>1 DEF Inv, WorkingCopy
<1>3. StoreInv(n) /\ n.hidden = txn.hidden BY <1>1, <1>2, AcceptInv
<1> HIDE DEF n
<1>4. /\ req' \in [Requests -> RequestState]
      /\ req'[r].pc = "accepting" /\ req'[r].turn = req[r].turn
      /\ \A q \in Requests : q # r => req'[q] = req[q]
  BY <1>1, GotoFields DEF PC
<1>5. \A q \in Requests : q # r => req'[q].pc \notin Owning
  BY <1>1, <1>4, Owner DEF Owning
<1>6. TypeOK' BY <1>1, <1>3, <1>4 DEF Inv, TypeOK, StoreInv
<1>7. OneWriter'
  BY <1>1, <1>4, <1>5, RequestAssumption DEF OneWriter, Owning
<1>8. WorkingCopy'
  BY <1>1, <1>2, <1>3, <1>4, <1>5 DEF Inv, WorkingCopy, PinnedTurn, Owning
<1>9. QED BY <1>1, <1>6, <1>7, <1>8 DEF Inv

\* ... and commits it.
LEMMA AcceptCommitStep ==
  ASSUME Inv, NEW r \in Requests, AcceptCommit(r)
  PROVE  Inv' /\ store.hidden \subseteq store'.hidden
<1>1. /\ req[r].pc = "accepting" /\ lock = r /\ store' = txn /\ txn' = txn
      /\ lock' = NoRequest /\ Goto(r, "accepted")
  BY DEF AcceptCommit, Commit
<1>2. StoreInv(txn) /\ txn.hidden = store.hidden /\ req[r].turn \in Turns
  BY <1>1 DEF Inv, WorkingCopy
<1>3. /\ req' \in [Requests -> RequestState]
      /\ req'[r].pc = "accepted" /\ req'[r].turn = req[r].turn
      /\ \A q \in Requests : q # r => req'[q] = req[q]
  BY <1>1, GotoFields DEF PC
<1>4. \A q \in Requests : q # r => req'[q].pc \notin Owning
  BY <1>1, <1>3, Owner DEF Owning
<1>5. \A q \in Requests :
        req'[q].pc \notin {"idle", "bound"} => req'[q].turn \in Turns
  BY <1>2, <1>3 DEF Inv, WorkingCopy
<1>6. Inv' BY <1>1, <1>2, <1>3, <1>4, <1>5, Released DEF Owning
<1>7. QED BY <1>1, <1>2, <1>6

\* Everything a request does on its own preserves the invariant, and no
\* commit brings a hidden turn back.
LEMMA ProceedStep ==
  ASSUME Inv, NEW r \in Requests, Proceed(r)
  PROVE  Inv' /\ store.hidden \subseteq store'.hidden
<1> DEFINE t == req[r].turn
<1>0. /\ txn \in Store /\ store \in Store
      /\ req[r].pc \notin {"idle", "bound"} => t \in Turns
  BY DEF Inv, TypeOK, WorkingCopy
<1>1. CASE Pin(r) BY <1>1, PinStep DEF Pin, Flush
<1>2. CASE PinRejected(r) BY <1>2, RestStep DEF PinRejected, Owning
<1>3. CASE \E kind \in {"segment", "message"} : PersistArtifact(r, kind)
  BY <1>3, PersistArtifactStep
<1>4. CASE PostWriteReplay(r)
  <2>1. SettleIfReady(store, t) \in Store
    BY <1>0, <1>4, SettleIfReadyTyped DEF PostWriteReplay
  <2>2. QED BY <1>4, <2>1, PostWriteStep DEF PostWriteReplay, Flush
<1>5. CASE PostWriteMinimal(r)
  <2> DEFINE e == EnsureJobs(store, t)
             u == UpdateStatus(e, t, "post_write_deferred")
             d == CloseJobs(u, t, "deferred")
  <2>1. t \in Turns BY <1>0, <1>5 DEF PostWriteMinimal
  <2>2. e \in Store BY <1>0, <2>1, EnsureJobsTyped
  <2>3. u \in Store BY <2>1, <2>2, UpdateStatusTyped DEF TurnStatus
  <2>4. d \in Store BY <2>1, <2>3, CloseJobsTyped DEF JobStatus
  <2>5. SettleIfReady(d, t) \in Store BY <2>1, <2>4, SettleIfReadyTyped
  <2>6. QED BY <1>5, <2>5, PostWriteStep DEF PostWriteMinimal, Flush
<1>6. CASE PostWriteStart(r)
  <2>1. t \in Turns BY <1>0, <1>6 DEF PostWriteStart
  <2>2. EnsureJobs(store, t) \in Store BY <1>0, <2>1, EnsureJobsTyped
  <2>3. UpdateStatus(EnsureJobs(store, t), t, "post_write_running") \in Store
    BY <2>1, <2>2, UpdateStatusTyped DEF TurnStatus
  <2>4. QED BY <1>6, <2>3, PostWriteStep DEF PostWriteStart, Flush
<1>7. CASE PostWriteFinish(r)
  <2>1. t \in Turns BY <1>0, <1>7 DEF PostWriteFinish
  <2>2. CloseJobs(txn, t, "completed") \in Store
    BY <1>0, <2>1, CloseJobsTyped DEF JobStatus
  <2>3. SettleIfReady(CloseJobs(txn, t, "completed"), t) \in Store
    BY <2>1, <2>2, SettleIfReadyTyped
  <2>4. QED BY <1>7, <2>3, PostWriteStep DEF PostWriteFinish, FlushMore
<1>8. CASE \E u \in Turns : Accept(r, u)
  BY <1>8, AcceptStep DEF Accept, FlushMore
<1>9. CASE AcceptCommit(r) BY <1>9, AcceptCommitStep
<1>10. CASE Finalize(r)
  <2>1. UpdateStatus(store, t, "completed") \in Store
    BY <1>0, <1>10, UpdateStatusTyped DEF Finalize, TurnStatus
  <2>2. QED BY <1>10, <2>1, PostWriteStep DEF Finalize, Flush
<1>11. CASE End(r)
  <2>1. /\ lock = r /\ Discard /\ req[r].pc = "closing" /\ Goto(r, "done")
    BY <1>11 DEF End
  <2>2. /\ req' \in [Requests -> RequestState]
        /\ req'[r].pc = "done" /\ req'[r].turn = t
        /\ \A q \in Requests : q # r => req'[q] = req[q]
    BY <2>1, GotoFields DEF PC
  <2>3. QED BY <1>0, <2>1, <2>2, DiscardStep DEF Owning, Discard
<1>12. CASE Reset(r) BY <1>12, RestStep DEF Reset, Owning
<1>13. CASE Abort(r)
  BY <1>13, IdleFields, DiscardStep DEF Abort, Discard, Owning
<1>14. CASE Busy(r) BY <1>14, RestStep DEF Busy, Owning
<1>15. QED
  BY <1>1, <1>2, <1>3, <1>4, <1>5, <1>6, <1>7, <1>8, <1>9, <1>10, <1>11,
     <1>12, <1>13, <1>14 DEF Proceed

-----------------------------------------------------------------------------
(* The branch controls and the theorem.                                    *)

\* A branch control commits a sound store while nobody owns a working copy.
LEMMA ControlStep ==
  ASSUME Inv, NEW s, StoreInv(s), Control(s)
  PROVE  Inv'
<1>1. /\ lock = NoRequest /\ store' = s /\ txn' = s /\ lock' = NoRequest
      /\ req' = req
  BY DEF Control, Commit
<1>2. \A q \in Requests : req[q].pc \notin Owning BY <1>1, NobodyOwns
<1>3. req \in [Requests -> RequestState] BY DEF Inv, TypeOK
<1>4. \A q \in Requests :
        req[q].pc \notin {"idle", "bound"} => req[q].turn \in Turns
  BY DEF Inv, WorkingCopy
<1>5. QED BY <1>1, <1>2, <1>3, <1>4, Released

\* Every branch control commits a sound store and hides no less.
LEMMA ControlsStep ==
  ASSUME Inv,
         \/ \E t \in Turns, b \in Branches : CreateBranch(t, b)
         \/ \E b \in Branches : SwitchBranch(b) \/ DeleteBranch(b)
         \/ \E t \in Turns : RollbackToTurn(t)
  PROVE  Inv' /\ store.hidden \subseteq store'.hidden
<1>0. StoreInv(store) BY DEF Inv
<1>1. ASSUME NEW t \in Turns, NEW b \in Branches, CreateBranch(t, b)
      PROVE  Inv' /\ store.hidden \subseteq store'.hidden
  BY <1>0, <1>1, ForkInv, ControlStep DEF CreateBranch, Control, Commit
<1>2. ASSUME NEW b \in Branches, SwitchBranch(b)
      PROVE  Inv' /\ store.hidden \subseteq store'.hidden
  BY <1>0, <1>2, SwitchInv, ControlStep DEF SwitchBranch, Control, Commit
<1>3. ASSUME NEW b \in Branches, DeleteBranch(b)
      PROVE  Inv' /\ store.hidden \subseteq store'.hidden
  BY <1>0, <1>3, DeleteInv, ControlStep DEF DeleteBranch, Control, Commit
<1>4. ASSUME NEW t \in Turns, RollbackToTurn(t)
      PROVE  Inv' /\ store.hidden \subseteq store'.hidden
  BY <1>0, <1>4, RollbackInv, ControlStep DEF RollbackToTurn, Control, Commit
<1>5. QED BY <1>1, <1>2, <1>3, <1>4

\* A restart keeps the durable store and forgets the working copy.
LEMMA RestartStep ==
  ASSUME Inv, Restart
  PROVE  Inv' /\ store' = store
<1>1. /\ store' = store /\ txn' = store /\ lock' = NoRequest
      /\ req' = [r \in Requests |-> Idle]
  BY DEF Restart, Discard
<1>2. Idle \in RequestState /\ Idle.pc = "idle"
  BY BranchAssumption, MaxTurnsAssumption, SMT
  DEF Idle, RequestState, PC, Command, TurnRef, NoTurn
<1>3. \A q \in Requests : req'[q].pc = "idle" BY <1>1, <1>2
<1>4. StoreInv(store') /\ req' \in [Requests -> RequestState]
  BY <1>1, <1>2 DEF Inv
<1>5. QED BY <1>1, <1>3, <1>4, Released DEF Owning

\* A freshly activated session is sound.
LEMMA InvInit == Init => Inv
<1> SUFFICES ASSUME Init PROVE Inv OBVIOUS
<1>1. Idle \in RequestState /\ Idle.pc = "idle"
  BY BranchAssumption, MaxTurnsAssumption, SMT
  DEF Idle, RequestState, PC, Command, TurnRef, NoTurn
<1>2. StoreInv(store) /\ store \in Store BY FreshInv, FreshTyped DEF Init
<1>3. /\ txn = store /\ lock = NoRequest
      /\ req \in [Requests -> RequestState]
      /\ \A r \in Requests : req[r].pc = "idle"
  BY <1>1 DEF Init
<1>4. QED
  BY <1>2, <1>3, RequestAssumption
  DEF Inv, TypeOK, OneWriter, WorkingCopy, PinnedTurn, Owning

\* Every step preserves the invariant and never un-hides a turn.
LEMMA InvNext ==
  Inv /\ [Next]_vars => Inv' /\ store.hidden \subseteq store'.hidden
<1> SUFFICES ASSUME Inv, [Next]_vars
             PROVE  Inv' /\ store.hidden \subseteq store'.hidden
  OBVIOUS
<1>1. CASE \E r \in Requests, cmd \in Command : BindThread(r, cmd)
  BY <1>1, BindThreadStep DEF BindThread
<1>2. CASE \E r \in Requests : Proceed(r) BY <1>2, ProceedStep
<1>3. CASE \/ \E t \in Turns, b \in Branches : CreateBranch(t, b)
           \/ \E b \in Branches : SwitchBranch(b) \/ DeleteBranch(b)
           \/ \E t \in Turns : RollbackToTurn(t)
  BY <1>3, ControlsStep
<1>4. CASE Restart BY <1>4, RestartStep
<1>5. CASE UNCHANGED vars
  BY <1>5 DEF vars, Inv, TypeOK, OneWriter, WorkingCopy, PinnedTurn
<1>6. QED BY <1>1, <1>2, <1>3, <1>4, <1>5 DEF Next

\* The durable store and every working copy that can still be committed are
\* sound, whatever requests, controls and restarts do.
THEOREM Soundness == Spec => []Inv
  BY InvInit, InvNext, PTL DEF Spec

\* Variables keep their types.
THEOREM TypeCorrect == Spec => []TypeOK
<1>1. Inv => TypeOK BY DEF Inv
<1>2. QED BY <1>1, Soundness, PTL

\* One request at a time has uncommitted work.
THEOREM SingleWriter == Spec => []OneWriter
<1>1. Inv => OneWriter BY DEF Inv
<1>2. QED BY <1>1, Soundness, PTL

\* The active branch and the default branch are never deleted.
THEOREM ActiveBranchAlwaysLive == Spec => []DurableActiveBranchLive
<1>1. Inv => DurableActiveBranchLive
  BY DEF Inv, StoreInv, DurableActiveBranchLive
<1>2. QED BY <1>1, Soundness, PTL

\* The branch tree grows in turn order.
THEOREM LineageAlwaysChronological == Spec => []DurableLineageChronological
<1>1. Inv => DurableLineageChronological
  BY DEF Inv, StoreInv, DurableLineageChronological
<1>2. QED BY <1>1, Soundness, PTL

\* The two records of rollbacks always agree.
THEOREM HiddenViewsAlwaysAgree == Spec => []DurableHiddenViewsAgree
<1>1. Inv => DurableHiddenViewsAgree
  BY DEF Inv, StoreInv, DurableHiddenViewsAgree
<1>2. QED BY <1>1, Soundness, PTL

\* The head of a branch is its youngest visible turn.
THEOREM HeadAlwaysFrontier == Spec => []DurableHeadIsFrontier
<1>1. Inv => DurableHeadIsFrontier
  BY DEF Inv, StoreInv, DurableHeadIsFrontier
<1>2. QED BY <1>1, Soundness, PTL

\* The settled anchor of a branch is its youngest visible settled turn.
THEOREM AnchorAlwaysLatestSettled == Spec => []DurableAnchorIsLatestSettled
<1>1. Inv => DurableAnchorIsLatestSettled
  BY DEF Inv, StoreInv, DurableAnchorIsLatestSettled
<1>2. QED BY <1>1, Soundness, PTL

\* Every adopted segment belongs to a settled turn.
THEOREM AdoptedAlwaysSettled == Spec => []DurableAdoptedIsSettled
<1>1. Inv => DurableAdoptedIsSettled
  BY DEF Inv, StoreInv, TurnStages, DurableAdoptedIsSettled, AdoptedIsSettled
<1>2. QED BY <1>1, Soundness, PTL

\* A chapter under review always has a draft to review.
THEOREM ReviewAlwaysHasDraft == Spec => []DurableReviewHasPendingDraft
<1>1. Inv => DurableReviewHasPendingDraft
  BY DEF Inv, StoreInv, DurableReviewHasPendingDraft
<1>2. QED BY <1>1, Soundness, PTL

\* No step brings back a turn that a rollback has hidden.
THEOREM HiddenForGood == Spec => HiddenStaysHidden
<1>1. Inv /\ [Next]_vars => [store.hidden \subseteq store'.hidden]_vars
  BY InvNext
<1>2. QED BY <1>1, Soundness, PTL DEF Spec, HiddenStaysHidden

-----------------------------------------------------------------------------
(* The story that readers are told.                                        *)

\* Until it settles its turn, what a request is about to commit takes
\* nothing from the story.
Uncut == \A r \in Requests : req[r].pc \in {"pinned", "accepting"} => Grows(store, txn)

LEMMA SameGrows == ASSUME NEW s PROVE Grows(s, s)
  BY DEF Grows

\* The working copy is the committed state, or goes on from it.
LEMMA UncutAgain ==
  ASSUME Grows(store', txn')
  PROVE  Uncut'
  BY DEF Uncut

\* The lock holder is past the part of its work that can be committed.
LEMMA UncutSettling ==
  ASSUME Inv', NEW r \in Requests, lock' = r, req'[r].pc \notin {"pinned", "accepting"}
  PROVE  Uncut'
  BY DEF Inv, OneWriter, Uncut, Owning

\* A request without uncommitted work moves.
LEMMA UncutBeside ==
  ASSUME Inv, Uncut, NEW r \in Requests, NEW v, req' = [req EXCEPT ![r] = v],
         v.pc \notin {"pinned", "accepting"}, UNCHANGED <<store, txn>>
  PROVE  Uncut'
  BY DEF Inv, TypeOK, Uncut

\* What a request does by itself takes nothing from the story.
LEMMA ProceedGrows ==
  ASSUME Inv, Uncut, NEW r \in Requests, Proceed(r), Inv'
  PROVE  Uncut' /\ Grows(store, store')
<1> DEFINE t == req[r].turn
<1>0. /\ req \in [Requests -> RequestState] /\ StoreInv(store)
      /\ req[r].branch \in Branches /\ req[r].cmd \in Command
  BY DEF Inv, TypeOK, RequestState
<1>1. CASE Pin(r)
  <2>1. /\ store' = store /\ txn' = CreateTurn(store, req[r].branch, req[r].cmd)
        /\ Switchable(store, req[r].branch) /\ store.turns < MaxTurns
    BY <1>1 DEF Pin, Flush
  <2>2. Grows(store', txn') BY <1>0, <2>1, CreateTurnGrows
  <2> QED BY <2>1, <2>2, SameGrows, UncutAgain
<1>2. CASE \E kind \in {"segment", "message"} : PersistArtifact(r, kind)
  <2>1. PICK kind : PersistArtifact(r, kind) BY <1>2
  <2>2. /\ req[r].pc = "pinned" /\ store' = Persist(txn, t, req[r].cmd, kind)
        /\ txn' = store'
    BY <2>1 DEF PersistArtifact, Commit
  <2>3. /\ StoreInv(txn) /\ t \in Created(txn) /\ txn.status[t] = "started"
        /\ t \in Turns
    BY <2>2 DEF Inv, WorkingCopy, PinnedTurn
  <2>4. Grows(txn, store') BY <1>0, <2>2, <2>3, PersistGrows
  <2>5. Grows(store, txn) BY <2>2 DEF Uncut
  <2> QED BY <2>2, <2>4, <2>5, GrowsTransitive, SameGrows, UncutAgain
<1>3. CASE \E u \in Turns : Accept(r, u)
  <2>1. PICK u \in AcceptTargets(txn) :
               /\ req[r].pc = "pinned" /\ store' = store
               /\ txn' = AcceptSegment(txn, u)
    BY <1>3 DEF Accept, FlushMore
  <2>2. StoreInv(txn) BY <2>1 DEF Inv, WorkingCopy
  <2>3. Grows(txn, txn') BY <2>1, <2>2, AcceptGrows
  <2>4. Grows(store, txn) BY <2>1 DEF Uncut
  <2> QED BY <2>1, <2>3, <2>4, GrowsTransitive, SameGrows, UncutAgain
<1>4. CASE AcceptCommit(r)
  <2>1. req[r].pc = "accepting" /\ store' = txn /\ txn' = txn
    BY <1>4 DEF AcceptCommit, Commit
  <2>2. Grows(store, txn) BY <2>1 DEF Uncut
  <2> QED BY <2>1, <2>2, SameGrows, UncutAgain
<1>5. CASE \/ PostWriteReplay(r) \/ PostWriteMinimal(r) \/ PostWriteStart(r)
           \/ PostWriteFinish(r) \/ Finalize(r)
  <2>1. store' = store /\ lock' = r
    BY <1>5 DEF PostWriteReplay, PostWriteMinimal, PostWriteStart, PostWriteFinish,
                Finalize, Flush, FlushMore
  <2>2. Goto(r, "closing") \/ Goto(r, "post_writing")
    BY <1>5 DEF PostWriteReplay, PostWriteMinimal, PostWriteStart, PostWriteFinish,
                Finalize
  <2>3. req'[r].pc \in {"closing", "post_writing"} BY <2>2, GotoFields DEF PC
  <2>4. Uncut' BY <2>1, <2>3, UncutSettling
  <2> QED BY <2>1, <2>4, SameGrows
<1>6. CASE End(r) \/ Abort(r)
  <2>1. store' = store /\ txn' = store BY <1>6 DEF End, Abort, Discard
  <2> QED BY <2>1, SameGrows, UncutAgain
<1>7. CASE PinRejected(r) \/ Reset(r) \/ Busy(r)
  <2>1. req' = [req EXCEPT ![r] = Idle] /\ UNCHANGED <<store, txn>>
    BY <1>7 DEF PinRejected, Reset, Busy
  <2>2. Idle.pc = "idle" BY DEF Idle
  <2>3. Uncut' BY <2>1, <2>2, UncutBeside
  <2> QED BY <2>1, <2>3, SameGrows
<1> QED BY <1>1, <1>2, <1>3, <1>4, <1>5, <1>6, <1>7 DEF Proceed

\* Of the branch controls only a rollback can.
LEMMA ControlsGrow ==
  ASSUME Inv,
         \/ \E t \in Turns, b \in Branches : CreateBranch(t, b)
         \/ \E b \in Branches : SwitchBranch(b) \/ DeleteBranch(b)
  PROVE  Grows(store, store')
<1>0. StoreInv(store) BY DEF Inv
<1>1. ASSUME NEW t \in Turns, NEW b \in Branches, CreateBranch(t, b)
      PROVE  Grows(store, store')
  BY <1>0, <1>1, ForkGrows DEF CreateBranch, Control, Commit
<1>2. ASSUME NEW b \in Branches, SwitchBranch(b)
      PROVE  Grows(store, store')
  BY <1>0, <1>2, SwitchGrows DEF SwitchBranch, Control, Commit
<1>3. ASSUME NEW b \in Branches, DeleteBranch(b)
      PROVE  Grows(store, store')
  BY <1>0, <1>3, DeleteGrows DEF DeleteBranch, Control, Commit
<1> QED BY <1>1, <1>2, <1>3

\* What a step does to the story, and that Uncut is kept.
LEMMA StoryNext ==
  ASSUME Inv, Uncut, [Next]_vars, Inv'
  PROVE  Uncut' /\ (Grows(store, store') \/ \E t \in Turns : RollbackToTurn(t))
<1>1. CASE \E r \in Requests, cmd \in Command : BindThread(r, cmd)
  <2>1. PICK r \in Requests, cmd \in Command : BindThread(r, cmd) BY <1>1
  <2> DEFINE v == [pc |-> "bound", cmd |-> cmd, branch |-> store.active,
                   turn |-> NoTurn]
  <2>2. req' = [req EXCEPT ![r] = v] /\ UNCHANGED <<store, txn>>
    BY <2>1 DEF BindThread
  <2>3. v.pc = "bound" OBVIOUS
  <2> HIDE DEF v
  <2>4. Uncut' BY <2>2, <2>3, UncutBeside
  <2> QED BY <2>2, <2>4, SameGrows
<1>2. CASE \E r \in Requests : Proceed(r) BY <1>2, ProceedGrows
<1>3. CASE \/ \E t \in Turns, b \in Branches : CreateBranch(t, b)
           \/ \E b \in Branches : SwitchBranch(b) \/ DeleteBranch(b)
           \/ \E t \in Turns : RollbackToTurn(t)
  <2>1. txn' = store'
    BY <1>3 DEF CreateBranch, SwitchBranch, DeleteBranch, RollbackToTurn, Control, Commit
  <2>2. Uncut' BY <2>1, SameGrows, UncutAgain
  <2> QED BY <1>3, <2>2, ControlsGrow
<1>4. CASE Restart
  <2>1. store' = store /\ txn' = store BY <1>4 DEF Restart, Discard
  <2> QED BY <2>1, SameGrows, UncutAgain
<1>5. CASE UNCHANGED vars
  <2>1. store' = store /\ txn' = txn /\ req' = req BY <1>5 DEF vars
  <2>2. Uncut' BY <2>1 DEF Uncut
  <2> QED BY <2>1, <2>2, SameGrows
<1> QED BY <1>1, <1>2, <1>3, <1>4, <1>5 DEF Next

LEMMA UncutInit == Init => Uncut
<1>1. Idle.pc = "idle" BY DEF Idle
<1> QED BY <1>1 DEF Init, Uncut

\* What a request commits was never behind the story it was started from.
LEMMA UncutAlways == Spec => [](Inv /\ Uncut)
<1>1. Inv /\ Uncut /\ [Next]_vars => (Inv /\ Uncut)'
  BY InvNext, StoryNext
<1>2. Init => Inv /\ Uncut BY InvInit, UncutInit
<1> QED BY <1>1, <1>2, PTL DEF Spec

\* The story a reader of any branch is told only grows: of everything that
\* requests, branch controls, failures and restarts do to the database, a
\* rollback alone takes an accepted segment away
\* (active_branch_accepted_story_segments).
THEOREM OnlyRollbacksCut == Spec => NarrativeOnlyCutByRollback
<1>1. Inv /\ Uncut /\ [Next]_vars
        => [store' # store
              => \/ \A b \in store.made :
                       AcceptedOn(store, b) \subseteq AcceptedOn(store', b)
                 \/ \E t \in Turns : RollbackToTurn(t)]_vars
  <2> SUFFICES ASSUME Inv, Uncut, [Next]_vars
               PROVE  \/ \A b \in store.made : AcceptedOn(store, b) \subseteq AcceptedOn(store', b)
                      \/ \E t \in Turns : RollbackToTurn(t)
    OBVIOUS
  <2>1. Inv' BY InvNext
  <2> QED BY <2>1, StoryNext DEF Grows
<1> QED BY <1>1, UncutAlways, PTL DEF Spec, NarrativeOnlyCutByRollback

\* A rollback cuts the story of the active branch exactly at its target
\* (rollback_to_turn).
THEOREM CutsAtTarget == Spec => RollbackCutsAtTarget
<1>1. Inv /\ [Next]_vars
        => [\A t \in Turns :
             RollbackToTurn(t)
               => LET before == AcceptedOn(store, store.active)
                      after  == AcceptedOn(store', store.active)
                  IN  /\ \A u \in before : u <= t => u \in after
                      /\ \A u \in after : u <= t]_vars
  <2> SUFFICES ASSUME Inv, NEW t \in Turns, RollbackToTurn(t)
               PROVE  /\ \A u \in AcceptedOn(store, store.active) :
                           u <= t => u \in AcceptedOn(store', store.active)
                      /\ \A u \in AcceptedOn(store', store.active) : u <= t
    OBVIOUS
  <2>1. /\ StoreInv(store) /\ CanRollback(store, t)
        /\ store' = Rollback(store, t)
    BY DEF Inv, RollbackToTurn, Control, Commit
  <2> QED BY <2>1, RollbackCuts
<1> QED BY <1>1, Soundness, PTL DEF Spec, RollbackCutsAtTarget

-----------------------------------------------------------------------------
(* StoryTurns implements StoryLedger.                                      *)

(***************************************************************************)
(* How a working copy that can still be committed differs from the durable *)
(* store: it has taken one turn and, while an acceptance is under way,     *)
(* adopted one artifact.                                                   *)
(***************************************************************************)
Took(s, n, b) ==
    /\ s.turns < MaxTurns
    /\ n.turns = s.turns + 1
    /\ n.on = [s.on EXCEPT ![s.turns + 1] = b]
    /\ n.hidden = s.hidden

Adopts(s, n, t) ==
    /\ t \in Created(s) /\ t \notin s.hidden
    /\ s.art[t] # "none"
    /\ n.art \in [Turns -> ArtifactStatus]
    /\ n.art[t] = IF s.art[t] = "message" THEN "message" ELSE "accepted"
    /\ \A u \in Turns \ {t} :
         n.art[u] = s.art[u] \/ (s.art[u] = "draft" /\ n.art[u] = "superseded")

Work(s, n, q) ==
    /\ q.pc = "pinned"
         => Took(s, n, q.branch) /\ n.art = s.art /\ q.turn = s.turns + 1
    /\ q.pc = "accepting"
         => Took(s, n, q.branch) /\ \E t \in Turns : Adopts(s, n, t)

WorkInv == \A r \in Requests : Work(store, txn, req[r])

-----------------------------------------------------------------------------
(* What the operations do to a store, as far as the ledger can tell.       *)

\* create_turn takes the next turn id for its branch.
LEMMA CreateTurnTakes ==
  ASSUME NEW s \in Store, NEW b \in Branches, NEW cmd, s.turns < MaxTurns
  PROVE  LET n == CreateTurn(s, b, cmd)
         IN  Took(s, n, b) /\ n.art = s.art
  BY SMT DEF CreateTurn, Took, Store

\* persist_generated_artifact gives the turn its artifact.
LEMMA PersistWrites ==
  ASSUME NEW s \in Store, NEW t \in Turns, NEW cmd, NEW kind
  PROVE  LET n == Persist(s, t, cmd, kind)
         IN  /\ n.turns = s.turns /\ n.on = s.on /\ n.hidden = s.hidden
             /\ n.art = [s.art EXCEPT ![t] = IF kind = "message"
                                             THEN "message" ELSE "draft"]
<1>1. CASE kind = "message"
  BY <1>1, SMT DEF Persist, UpdateStatus, EnsureJobs, BindOutput, PersistMessage,
                   Store
<1>2. CASE kind # "message"
  BY <1>2, SMT DEF Persist, UpdateStatus, EnsureJobs, BindOutput, PersistSegment,
                   Store
<1>3. QED BY <1>1, <1>2

\* accept_pending_segment adopts its target and supersedes drafts only.
LEMMA AcceptAdopts ==
  ASSUME NEW s, StoreInv(s), NEW t \in AcceptTargets(s)
  PROVE  LET n == AcceptSegment(s, t)
         IN  /\ n.turns = s.turns /\ n.on = s.on /\ n.hidden = s.hidden
             /\ Adopts(s, n, t)
<1> DEFINE n == AcceptSegment(s, t)
           f == AdoptArtifact(s, t).art
<1>0. s \in Store /\ s.art \in [Turns -> ArtifactStatus]
  BY StoreFields DEF StoreInv
<1>1. t \in Created(s) /\ t \in Turns /\ t \notin s.hidden /\ s.art[t] # "none"
  BY <1>0, VisibleIsCreated, TurnIds DEF AcceptTargets
<1>2. f = [u \in Turns |->
             IF u = t
             THEN IF s.art[t] = "message" THEN "message" ELSE "accepted"
             ELSE IF u \in VisibleTurns(s) /\ s.art[u] = "draft"
                  THEN "superseded" ELSE s.art[u]]
  BY <1>0, SMT DEF AdoptArtifact, Store
<1>3. /\ f \in [Turns -> ArtifactStatus]
      /\ f[t] = IF s.art[t] = "message" THEN "message" ELSE "accepted"
      /\ \A u \in Turns \ {t} :
           f[u] = s.art[u] \/ (s.art[u] = "draft" /\ f[u] = "superseded")
  BY <1>0, <1>1, <1>2 DEF ArtifactStatus
<1>4. s.art[t] \in {"draft", "superseded"} \/ s.art[t] \in {"message", "accepted"}
  BY <1>0, <1>1 DEF ArtifactStatus
<1> HIDE DEF f
<1>5. /\ n.turns = s.turns /\ n.on = s.on /\ n.hidden = s.hidden
      /\ n.art = f
  BY <1>4, AcceptDraft, AcceptOther DEF f
<1>6. QED BY <1>1, <1>3, <1>5 DEF Adopts

-----------------------------------------------------------------------------
(* The working copy of a request.                                          *)

\* A step that leaves every pinned or accepting request as it was, together
\* with both stores, keeps the relation.
LEMMA WorkKept ==
  ASSUME WorkInv,
         \A q \in Requests :
           req'[q].pc \in {"pinned", "accepting"}
             => req'[q] = req[q] /\ store' = store /\ txn' = txn
  PROVE  WorkInv'
  BY DEF WorkInv, Work

\* A request that leaves the awaits of a working copy keeps it.
LEMMA WorkLeft ==
  ASSUME Inv, WorkInv, NEW r \in Requests,
         \A q \in Requests : q # r => req'[q] = req[q],
         req'[r].pc \notin {"pinned", "accepting"},
         \/ lock \in {NoRequest, r}
         \/ store' = store /\ txn' = txn
  PROVE  WorkInv'
<1>1. CASE store' = store /\ txn' = txn BY <1>1, WorkKept
<1>2. CASE lock \in {NoRequest, r}
  <2>1. \A q \in Requests : q # r => req[q].pc \notin Owning
    BY <1>2, RequestAssumption DEF Inv, OneWriter
  <2>2. QED BY <2>1, WorkKept DEF Owning
<1>3. QED BY <1>1, <1>2

\* Every step keeps the relation between the durable store and the copy.
LEMMA WorkNext ==
  ASSUME Inv, WorkInv, [Next]_vars
  PROVE  WorkInv'
<1>1. ASSUME NEW r \in Requests, NEW cmd \in Command, BindThread(r, cmd)
      PROVE  WorkInv'
  <2>1. /\ \A q \in Requests : q # r => req'[q] = req[q]
        /\ req'[r].pc = "bound" /\ store' = store /\ txn' = txn
    BY <1>1 DEF BindThread, Inv, TypeOK
  <2>2. QED BY <2>1, WorkLeft
<1>2. ASSUME NEW r \in Requests, Pin(r)
      PROVE  WorkInv'
  <2> DEFINE b == req[r].branch
             n == CreateTurn(store, b, req[r].cmd)
  <2>1. /\ store.turns < MaxTurns /\ lock = NoRequest
        /\ store' = store /\ txn' = n /\ store \in Store
        /\ req[r] \in RequestState
    BY <1>2 DEF Pin, Flush, Inv, StoreInv, TypeOK
  <2>2. b \in Branches BY <2>1 DEF RequestState
  <2>3. Took(store, n, b) /\ n.art = store.art BY <2>1, <2>2, CreateTurnTakes
  <2>4. /\ req'[r].turn = store.turns + 1 /\ req'[r].branch = b
        /\ req'[r].pc = "pinned"
        /\ \A q \in Requests : q # r => req'[q] = req[q]
    BY <1>2 DEF Pin, Inv, TypeOK, RequestState
  <2>5. \A q \in Requests : q # r => req'[q].pc \notin Owning
    BY <2>1, <2>4, NobodyOwns
  <2> HIDE DEF n, b
  <2>6. ASSUME NEW q \in Requests PROVE Work(store', txn', req'[q])
    <3>1. CASE q = r BY <2>1, <2>3, <2>4, <3>1 DEF Work
    <3>2. CASE q # r BY <2>5, <3>2 DEF Work, Owning
    <3>3. QED BY <3>1, <3>2
  <2>7. QED BY <2>6 DEF WorkInv
<1>3. ASSUME NEW r \in Requests, NEW t \in Turns, Accept(r, t)
      PROVE  WorkInv'
  <2> DEFINE n == AcceptSegment(txn, t)
             b == req[r].branch
  <2>1. /\ req[r].pc = "pinned" /\ t \in AcceptTargets(txn) /\ lock = r
        /\ txn' = n /\ store' = store /\ Goto(r, "accepting")
    BY <1>3 DEF Accept, FlushMore
  <2>2. StoreInv(txn) /\ StoreInv(store) BY <2>1 DEF Inv, WorkingCopy
  <2>3. Took(store, txn, b) /\ txn.art = store.art
    BY <2>1 DEF WorkInv, Work
  <2>4. /\ n.turns = txn.turns /\ n.on = txn.on /\ n.hidden = txn.hidden
        /\ Adopts(txn, n, t)
    BY <2>1, <2>2, AcceptAdopts
  <2>5. store \in Store /\ t \in Turns
    BY <2>2 DEF StoreInv
  <2>6. t \in Created(store)
    BY <2>2, <2>3, <2>4, <2>5 DEF Adopts, StoreInv, TurnStages
  <2> HIDE DEF n, b
  <2>7. Took(store, n, b) /\ Adopts(store, n, t)
    BY <2>3, <2>4, <2>6 DEF Took, Adopts
  <2>8. /\ req'[r].pc = "accepting" /\ req'[r].branch = b
        /\ \A q \in Requests : q # r => req'[q] = req[q]
    BY <2>1 DEF Goto, Inv, TypeOK, RequestState, b
  <2>9. \A q \in Requests : q # r => req'[q].pc \notin Owning
    BY <2>1, <2>8, Owner DEF Owning
  <2>10. ASSUME NEW q \in Requests PROVE Work(store', txn', req'[q])
    <3>1. CASE q = r BY <2>1, <2>7, <2>8, <3>1 DEF Work
    <3>2. CASE q # r BY <2>9, <3>2 DEF Work, Owning
    <3>3. QED BY <3>1, <3>2
  <2>11. QED BY <2>10 DEF WorkInv
<1>4. ASSUME NEW r \in Requests, Proceed(r), ~ Pin(r), ~ \E t \in Turns : Accept(r, t)
      PROVE  WorkInv'
  <2>1. \A q \in Requests : q # r => req'[q] = req[q]
    BY <1>4 DEF Proceed, PinRejected, PersistArtifact, PostWriteReplay,
                PostWriteMinimal, PostWriteStart, PostWriteFinish, AcceptCommit,
                Finalize, End, Reset, Abort, Busy, Goto, Inv, TypeOK
  <2>2. req'[r].pc \notin {"pinned", "accepting"}
    BY <1>4 DEF Proceed, PinRejected, PersistArtifact, PostWriteReplay,
                PostWriteMinimal, PostWriteStart, PostWriteFinish, AcceptCommit,
                Finalize, End, Reset, Abort, Busy, Goto, Inv, TypeOK,
                RequestState, Idle
  <2>3. lock \in {NoRequest, r} \/ (store' = store /\ txn' = txn)
    BY <1>4 DEF Proceed, PinRejected, PersistArtifact, PostWriteReplay,
                PostWriteMinimal, PostWriteStart, PostWriteFinish, AcceptCommit,
                Finalize, End, Reset, Abort, Busy, Flush, FlushMore
  <2>4. QED BY <2>1, <2>2, <2>3, WorkLeft
<1>5. ASSUME lock = NoRequest, req' = req
      PROVE  WorkInv'
  BY <1>5, NobodyOwns, WorkKept DEF Owning
<1>6. CASE Restart
  <2>1. \A q \in Requests : req'[q].pc = "idle" BY <1>6 DEF Restart, Idle
  <2>2. QED BY <2>1, WorkKept
<1>7. CASE UNCHANGED vars BY <1>7, WorkKept DEF vars
<1>8. CASE \E r \in Requests : Proceed(r) BY <1>2, <1>3, <1>4, <1>8
<1>9. CASE \/ \E t \in Turns, b \in Branches : CreateBranch(t, b)
           \/ \E b \in Branches : SwitchBranch(b) \/ DeleteBranch(b)
           \/ \E t \in Turns : RollbackToTurn(t)
  BY <1>5, <1>9 DEF CreateBranch, SwitchBranch, DeleteBranch, RollbackToTurn, Control
<1>10. QED BY <1>1, <1>6, <1>7, <1>8, <1>9 DEF Next

-----------------------------------------------------------------------------
(* Every step is a ledger entry, a cut or nothing the ledger sees.         *)

Stages(s) == [t \in Turns |-> StageOf(s, t)]

\* A turn that is not created yet has no artifact and is not hidden.
LEMMA NextTurnIsFree ==
  ASSUME NEW s, StoreInv(s), s.turns < MaxTurns
  PROVE  /\ s.turns + 1 \in Turns /\ s.turns + 1 \notin Created(s)
         /\ s.turns + 1 \notin s.hidden /\ s.art[s.turns + 1] = "none"
         /\ StageOf(s, s.turns + 1) = "free"
<1>1. s \in Store BY DEF StoreInv
<1>2. s.turns + 1 \in Turns /\ s.turns + 1 \notin Created(s)
  BY <1>1, TurnIds DEF Created
<1>3. QED BY <1>2 DEF StoreInv, TurnStages, StageOf

\* A store that took one turn has the stages it had, but for that turn and
\* for turns whose artifact changed.
LEMMA TookStages ==
  ASSUME NEW s, StoreInv(s), NEW n, NEW b, Took(s, n, b), NEW u \in Turns,
         u # s.turns + 1, n.art[u] = s.art[u]
  PROVE  StageOf(n, u) = StageOf(s, u)
<1>1. s.turns \in Nat BY TurnIds DEF StoreInv
<1>2. u \in Created(n) <=> u \in Created(s) BY <1>1 DEF Took, Created, Turns
<1>3. QED BY <1>2 DEF Took, StageOf

\* persist_generated_artifact is Write or Spend.
LEMMA PersistIsEntry ==
  ASSUME Inv, WorkInv, NEW r \in Requests, NEW kind, PersistArtifact(r, kind)
  PROVE  \E b \in Branches : Ledger!Write(b) \/ Ledger!Spend(b)
<1> DEFINE b == req[r].branch
           t == req[r].turn
           n == Persist(txn, t, req[r].cmd, kind)
           k == IF kind = "message" THEN "message" ELSE "draft"
<1>1. req[r].pc = "pinned" /\ store' = n /\ b \in Branches
  BY DEF PersistArtifact, Commit, Inv, TypeOK, RequestState
<1>2. StoreInv(store) /\ StoreInv(txn) /\ txn \in Store /\ t \in Turns
  BY <1>1 DEF Inv, WorkingCopy, StoreInv
<1>3. Took(store, txn, b) /\ txn.art = store.art /\ t = store.turns + 1
  BY <1>1 DEF WorkInv, Work
<1>4. /\ n.turns = txn.turns /\ n.on = txn.on /\ n.hidden = txn.hidden
      /\ n.art = [txn.art EXCEPT ![t] = k]
  BY <1>2, PersistWrites
<1>5. /\ t \notin store.hidden /\ store.turns \in Nat
      /\ store.art \in [Turns -> ArtifactStatus]
  BY <1>2, <1>3, NextTurnIsFree, StoreFields, TurnIds DEF Took, StoreInv
<1> HIDE DEF n, b, t
<1>6. Took(store, n, b) BY <1>3, <1>4 DEF Took
<1>7. n.art[t] = k /\ \A u \in Turns : u # t => n.art[u] = store.art[u]
  BY <1>2, <1>3, <1>4, <1>5
<1>8. t \in Created(n) /\ t \notin n.hidden
  BY <1>3, <1>5, <1>6 DEF Took, Created
<1>9. StageOf(n, t) = IF kind = "message" THEN "spent" ELSE "written"
  BY <1>7, <1>8 DEF StageOf
<1>10. \A u \in Turns : u # t => StageOf(n, u) = StageOf(store, u)
  BY <1>2, <1>3, <1>6, <1>7, TookStages
<1>11. Stages(n) = [Stages(store) EXCEPT ![t] = StageOf(n, t)]
  BY <1>2, <1>10 DEF Stages
<1>12. QED
  BY <1>1, <1>3, <1>6, <1>9, <1>11
  DEF Took, Stages, Ledger!Write, Ledger!Spend, Ledger!Take, Ledger!Turns, Turns

\* The commit of accept_pending_segment is Adopt, or Spend when its target
\* was a message.
LEMMA AcceptCommitIsEntry ==
  ASSUME Inv, WorkInv, NEW r \in Requests, AcceptCommit(r)
  PROVE  \/ \E b \in Branches : Ledger!Spend(b)
         \/ \E b \in Branches, t \in Ledger!Turns : Ledger!Adopt(b, t)
<1> DEFINE b == req[r].branch
           n == txn
           c == store.turns + 1
<1>1. req[r].pc = "accepting" /\ store' = n /\ b \in Branches
  BY DEF AcceptCommit, Commit, Inv, TypeOK, RequestState
<1>2. StoreInv(store) /\ store \in Store BY DEF Inv, StoreInv
<1>3. Took(store, n, b) BY <1>1 DEF WorkInv, Work
<1>4. PICK t \in Turns : Adopts(store, n, t) BY <1>1 DEF WorkInv, Work
<1>5. /\ c \in Turns /\ c \notin Created(store) /\ c \notin store.hidden
      /\ store.art[c] = "none" /\ store.turns \in Nat
      /\ store.art \in [Turns -> ArtifactStatus]
  BY <1>2, <1>3, NextTurnIsFree, StoreFields, TurnIds DEF Took
<1> HIDE DEF b
<1>6. c # t /\ t \in Created(n) /\ c \in Created(n)
  BY <1>3, <1>4, <1>5 DEF Adopts, Took, Created
<1>7. StageOf(n, c) = "spent"
  BY <1>3, <1>4, <1>5, <1>6 DEF StageOf, Adopts, Took
<1>8. \A u \in Turns : u # c /\ u # t => StageOf(n, u) = StageOf(store, u)
  <2> SUFFICES ASSUME NEW u \in Turns, u # c, u # t
               PROVE  StageOf(n, u) = StageOf(store, u)
    OBVIOUS
  <2>1. CASE n.art[u] = store.art[u] BY <1>2, <1>3, <2>1, TookStages
  <2>2. CASE store.art[u] = "draft" /\ n.art[u] = "superseded"
    <3>1. u \in Created(n) <=> u \in Created(store)
      BY <1>3, <1>5 DEF Took, Created, Turns
    <3>2. QED BY <1>3, <2>2, <3>1 DEF Took, StageOf
  <2>3. QED BY <1>4, <2>1, <2>2 DEF Adopts
<1>9. t \notin n.hidden /\ t \notin store.hidden /\ t \in Created(store)
  BY <1>3, <1>4 DEF Adopts, Took
<1>10. CASE store.art[t] = "message"
  <2>1. StageOf(n, t) = StageOf(store, t)
    BY <1>4, <1>6, <1>9, <1>10 DEF StageOf, Adopts
  <2>2. Stages(n) = [Stages(store) EXCEPT ![c] = "spent"]
    BY <1>5, <1>7, <1>8, <2>1 DEF Stages
  <2>3. Ledger!Spend(b)
    BY <1>1, <1>3, <2>2
    DEF Took, Stages, Ledger!Spend, Ledger!Take, Ledger!Turns, Turns
  <2>4. QED BY <1>1, <2>3
<1>11. CASE store.art[t] # "message"
  <2>1. StageOf(n, t) = "adopted"
    BY <1>4, <1>6, <1>9, <1>11 DEF StageOf, Adopts
  <2>2. StageOf(store, t) \in {"written", "adopted"}
    BY <1>4, <1>5, <1>9, <1>11 DEF StageOf, Adopts, ArtifactStatus
  <2>3. Stages(n) = [Stages(store) EXCEPT ![c] = "spent", ![t] = "adopted"]
    BY <1>5, <1>6, <1>7, <1>8, <2>1 DEF Stages
  <2>4. Stages(store)[t] \in {"written", "adopted"} BY <2>2 DEF Stages
  <2>5. Ledger!Adopt(b, t)
    BY <1>1, <1>3, <2>3, <2>4
    DEF Took, Stages, Ledger!Adopt, Ledger!Take, Ledger!Turns, Turns
  <2>6. QED BY <1>1, <2>5 DEF Ledger!Turns, Turns
<1>12. QED BY <1>10, <1>11

\* rollback_to_turn is Cut: on a branch, and on a branch across its fork
\* point, exactly the younger turns of the branch go.
LEMMA RollbackIsCut ==
  ASSUME Inv, NEW t \in Turns, RollbackToTurn(t)
  PROVE  \E b \in Branches : Ledger!Cut(b, t)
<1> DEFINE s == store
           b == s.active
           n == RollbackTo(s, t)
<1>1. /\ StoreInv(s) /\ CanRollback(s, t) /\ store' = n /\ s \in Store
      /\ SettleAdopted(s, t) = s
  BY SettleAdoptedNoop
  DEF Inv, StoreInv, RollbackToTurn, Control, Commit, Rollback
<1>2. /\ n.turns = s.turns /\ n.on = s.on /\ n.art = s.art
      /\ n.hidden = s.hidden \cup LaterTurns(s, b, t)
  BY <1>1, SMT DEF RollbackTo, Store
<1>3. /\ t \in Created(s) /\ t \notin s.hidden /\ s.status[t] = "settled"
      /\ s.on[t] = b \/ OnParentLineage(s, b, t)
      /\ b \in s.made /\ b \in Branches
  BY <1>1, StoreFields DEF CanRollback, HiddenByRollback, Switchable
<1>4. s.art[t] = "accepted" BY <1>1, <1>3 DEF StoreInv, TurnStages
<1>5. \A u \in Created(s) : u \in LaterTurns(s, b, t) <=> s.on[u] = b /\ t < u
  <2>1. CASE s.on[t] = b
    BY <1>1, <1>3, <2>1, TurnIds DEF LaterTurns, Turns
  <2>2. CASE s.on[t] # b
    <3>1. /\ s.parent[b] # None /\ s.forkedFrom[b] <= s.forkOrigin[b]
          /\ t = s.forkOrigin[b] \/ t <= s.forkedFrom[b]
          /\ \A u \in Created(s) : s.on[u] = b => u > s.forkOrigin[b]
          /\ s.forkOrigin[b] \in Created(s) /\ s.forkedFrom[b] \in Created(s)
      BY <1>1, <1>3, <2>2 DEF OnParentLineage, StoreInv, LineageChronological
    <3>2. \A u \in Created(s) : s.on[u] = b => t < u
      BY <1>1, <1>3, <3>1, TurnIds DEF Turns
    <3>3. QED BY <2>2, <3>2 DEF LaterTurns
  <2>3. QED BY <2>1, <2>2
<1>6. Created(n) = Created(s) BY <1>2 DEF Created
<1>7. \A u \in Created(s) : StageOf(s, u) # "free" BY DEF StageOf
<1>8. \A u \in Turns \ Created(s) : StageOf(s, u) = "free" BY DEF StageOf
<1> HIDE DEF n, b
<1>9. \A u \in Turns :
        StageOf(n, u) = IF s.on[u] = b /\ t < u /\ StageOf(s, u) # "free"
                        THEN "cut" ELSE StageOf(s, u)
  <2> SUFFICES ASSUME NEW u \in Turns
               PROVE  StageOf(n, u) =
                        IF s.on[u] = b /\ t < u /\ StageOf(s, u) # "free"
                        THEN "cut" ELSE StageOf(s, u)
    OBVIOUS
  <2>1. CASE u \notin Created(s) BY <1>6, <1>8, <2>1 DEF StageOf
  <2>2. CASE u \in Created(s)
    <3>1. u \in n.hidden <=> u \in s.hidden \/ (s.on[u] = b /\ t < u)
      BY <1>2, <1>5, <2>2
    <3>2. QED BY <1>2, <1>6, <1>7, <2>2, <3>1 DEF StageOf
  <2>3. QED BY <2>1, <2>2
<1>10. StageOf(s, t) = "adopted" BY <1>3, <1>4 DEF StageOf
<1>11. Ledger!Cut(b, t)
  BY <1>1, <1>2, <1>9, <1>10 DEF Ledger!Cut, Ledger!Turns, Turns
<1>12. QED BY <1>3, <1>11

\* A step that keeps turns, artifacts and visibility is invisible.
LEMMA Invisible ==
  ASSUME store'.turns = store.turns, store'.on = store.on,
         store'.hidden = store.hidden, store'.art = store.art
  PROVE  UNCHANGED Ledger!vars
<1>1. \A t \in Turns : StageOf(store', t) = StageOf(store, t)
  BY DEF StageOf, Created
<1>2. QED BY <1>1 DEF Ledger!vars

\* Every step of the runtime is a step of the ledger or leaves it alone.
LEMMA LedgerNext ==
  ASSUME Inv, WorkInv, [Next]_vars
  PROVE  [Ledger!Next]_(Ledger!vars)
<1>0. StoreInv(store) /\ store \in Store BY DEF Inv, StoreInv
<1>1. ASSUME store' = store PROVE UNCHANGED Ledger!vars BY <1>1, Invisible
<1>2. CASE \E r \in Requests, cmd \in Command : BindThread(r, cmd)
  BY <1>1, <1>2 DEF BindThread
<1>3. ASSUME NEW r \in Requests, Proceed(r)
      PROVE  [Ledger!Next]_(Ledger!vars)
  <2>1. CASE \E kind \in {"segment", "message"} : PersistArtifact(r, kind)
    BY <2>1, PersistIsEntry DEF Ledger!Next
  <2>2. CASE AcceptCommit(r) BY <2>2, AcceptCommitIsEntry DEF Ledger!Next
  <2>3. CASE /\ ~ \E kind \in {"segment", "message"} : PersistArtifact(r, kind)
             /\ ~ AcceptCommit(r)
    <3>1. store' = store
      BY <1>3, <2>3 DEF Proceed, Pin, PinRejected, PostWriteReplay,
        PostWriteMinimal, PostWriteStart, PostWriteFinish, Accept, Finalize, End,
        Reset, Abort, Busy, Flush, FlushMore, Discard
    <3>2. QED BY <1>1, <3>1
  <2>4. QED BY <2>1, <2>2, <2>3
<1>4. ASSUME NEW t \in Turns, NEW b \in Branches, CreateBranch(t, b)
      PROVE  UNCHANGED Ledger!vars
  <2>1. store' = ForkFrom(store, t, b)
    BY <1>0, <1>4, SettleAdoptedNoop DEF CreateBranch, Control, Commit, Fork
  <2>2. /\ store'.turns = store.turns /\ store'.on = store.on
        /\ store'.hidden = store.hidden /\ store'.art = store.art
    BY <1>0, <2>1, SMT DEF ForkFrom, Store
  <2>3. QED BY <2>2, Invisible
<1>5. ASSUME NEW b \in Branches, SwitchBranch(b) \/ DeleteBranch(b)
      PROVE  UNCHANGED Ledger!vars
  <2>1. store' = Switch(store, b) \/ store' = Delete(store, b)
    BY <1>5 DEF SwitchBranch, DeleteBranch, Control, Commit
  <2>2. /\ store'.turns = store.turns /\ store'.on = store.on
        /\ store'.hidden = store.hidden /\ store'.art = store.art
    BY <1>0, <2>1, SMT DEF Switch, Delete, Store
  <2>3. QED BY <2>2, Invisible
<1>6. ASSUME NEW t \in Turns, RollbackToTurn(t)
      PROVE  Ledger!Next
  BY <1>6, RollbackIsCut DEF Ledger!Next, Ledger!Turns, Turns
<1>7. CASE Restart BY <1>1, <1>7 DEF Restart, Discard
<1>8. CASE UNCHANGED vars BY <1>1, <1>8 DEF vars
<1>9. QED BY <1>2, <1>3, <1>4, <1>5, <1>6, <1>7, <1>8 DEF Next

\* A freshly activated session is the empty ledger.
LEMMA LedgerInit == Init => Ledger!Init
<1> SUFFICES ASSUME Init PROVE Ledger!Init OBVIOUS
<1>1. /\ store.turns = 0 /\ store.on = [t \in Turns |-> Default]
  BY DEF Init, FreshStore
<1>2. Created(store) = {} BY <1>1 DEF Created
<1>3. \A t \in Turns : StageOf(store, t) = "free" BY <1>2 DEF StageOf
<1>4. QED BY <1>1, <1>3 DEF Ledger!Init, Ledger!Turns, Turns

\* Nobody owns a working copy at first.
LEMMA WorkInit == Init => WorkInv
  BY DEF Init, Idle, WorkInv, Work

\* The runtime implements the ledger: with requests, failures, restarts and
\* branch controls in any order, each turn is taken once, adopted segments
\* are only lost to a rollback that cuts exactly the younger turns of one
\* branch, and what was cut never returns.
THEOREM LedgerImplemented == Spec => ImplementsLedger
<1>1. Init => Ledger!Init /\ WorkInv BY LedgerInit, WorkInit
<1>2. Inv /\ WorkInv /\ [Next]_vars => WorkInv' BY WorkNext
<1>3. Inv /\ WorkInv /\ [Next]_vars => [Ledger!Next]_(Ledger!vars)
  BY LedgerNext
<1>4. QED BY <1>1, <1>2, <1>3, Soundness, PTL DEF Spec, ImplementsLedger, Ledger!Spec
=============================================================================
