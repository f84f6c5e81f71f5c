--------------------------- MODULE StoryRefinement ---------------------------
(***************************************************************************)
(* StoryTurns implements StoryLedger: the ledger is read off the durable   *)
(* store, so a request that has not committed, and everything post-write   *)
(* flushes, is invisible in it.                                            *)
(***************************************************************************)
EXTENDS StoryTurns

\* The stage of turn t in the ledger of store s.
StageOf(s, t) ==
    IF t \notin Created(s) THEN "free"
    ELSE IF t \in s.hidden THEN "cut"
    ELSE IF s.art[t] = "accepted" THEN "adopted"
    ELSE IF s.art[t] \in {"draft", "superseded"} THEN "written"
    ELSE "spent"

Ledger == INSTANCE StoryLedger
            WITH turns <- store.turns,
                 on    <- store.on,
                 stage <- [t \in Turns |-> StageOf(store, t)]

\* Every behaviour of the runtime is one of the ledger: concurrent requests,
\* failures and restarts included, a commit is one ledger entry and a branch
\* control none or a cut (persist_generated_artifact, accept_pending_segment,
\* rollback_to_turn).
ImplementsLedger == Ledger!Spec
=============================================================================
