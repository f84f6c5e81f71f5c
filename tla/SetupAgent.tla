----------------------------- MODULE SetupAgent -----------------------------
(***************************************************************************)
(* One setup agent on one workspace: the loop that asks a model, executes  *)
(* the tools it calls and decides whether the turn may finish              *)
(* (rp/agent_runtime: executor.py, policies.py, graph.py), and the private *)
(* state it keeps from turn to turn                                        *)
(* (setup_agent_runtime_state_service.py).                                 *)
(*                                                                         *)
(* The model and the tools answer anything the loop tells apart.  Nodes of *)
(* the graph between which nothing is visible are one step, which counts   *)
(* all of them: the graph engine stops a run after RecursionLimit nodes.   *)
(***************************************************************************)
EXTENDS Naturals, Sequences, FiniteSets

CONSTANTS
    MaxRounds,     \* max_rounds of the profile
    MaxCalls,      \* tool calls of one answer
    MaxRuns, MaxEdits, MaxWrites   \* runs; changes of others, and of tools

ASSUME AgentBounds ==
    /\ MaxRounds \in Nat \ {0} /\ MaxCalls \in Nat
    /\ MaxRuns \in Nat /\ MaxEdits \in Nat /\ MaxWrites \in Nat

VARIABLES
    run,           \* the run that is going on, or the last one
    shown,         \* what its client was sent: texts, errors, dones
    workspace,     \* version; edits, writes: made by others, by tools;
                   \* outside: whether another edited since the last run
                   \* began; launched: the version a run started at
    memory         \* the snapshot: the version it was built on, whether it
                   \* is invalidated, the failures it retains

agentVars == <<run, shown, workspace, memory>>

\* What a model answers, and what a tool does: "write" changes the draft,
\* "external" is a failure of a server that is not one of the setup tools.
Outputs == {"empty", "text", "question", "repeated", "pseudo", "malformed",
            "tools", "error"}
FailureKinds == {"repair", "ask", "block", "continue", "external", "unknown"}
Results == {"ok", "write"} \cup FailureKinds
Obligations == {"none", "repair", "ask", "block", "continue"}
Tickets == {"none", "retry", "ask", "block", "continue"}
Nodes == {"idle", "model", "inspect", "tools", "assess", "reflect",
          "success", "failure", "ended"}
Reasons == {"none", "text", "question", "upstream_error", "unfulfilled",
            "unrecoverable", "schema", "max_rounds", "recursion"}

\* The code of a failed result, and the code its payload says.
ErrorCode(kind) ==
    CASE kind = "repair"   -> "SCHEMA_VALIDATION_FAILED"
      [] kind = "unknown"  -> "UNKNOWN_TOOL"
      [] kind = "external" -> "EXECUTION_ERROR"
      [] OTHER             -> "SETUP_TOOL_FAILED"
PayloadCode(kind) ==
    CASE kind = "repair"   -> "schema_validation_failed"
      [] kind = "unknown"  -> "unknown_tool"
      [] kind = "external" -> "EXECUTION_ERROR"
      [] OTHER             -> "setup_tool_failed"
\* The failures whose repetition makes a difference.
Compared == {"continue", "external"}
Outcome(kind) == [kind |-> kind, code |-> ErrorCode(kind)]
NoMemory == [basis |-> 0, invalid |-> FALSE, outcomes |-> {}]

RecursionLimit == LET n == MaxRounds * 10 + 8 IN IF n < 32 THEN 32 ELSE n

Runs ==
    [node : Nodes, stream : BOOLEAN, reading : BOOLEAN, round : Nat,
     steps : 0..RecursionLimit, output : Outputs,
     failed : {"none"} \cup FailureKinds, obligation : Obligations,
     ticket : Tickets, repairs : 0..1, retries : 0..2, reason : Reasons,
     no : 0..MaxRuns, outcomes : SUBSET {Outcome(k) : k \in Compared}]

SetupAgentTypeOK ==
    /\ run \in Runs
    /\ shown \in [texts : Seq({"text", "question", "repeated"}),
                  errors : 0..2, dones : 0..1]
    /\ workspace \in [version : Nat, edits : 0..MaxEdits, outside : BOOLEAN,
                      writes : 0..MaxWrites, launched : Nat]
    /\ workspace.launched <= workspace.version
    /\ memory \in [basis : 0..workspace.version, invalid : BOOLEAN,
                   outcomes : SUBSET {Outcome(k) : k \in Compared}]

Nothing == [texts |-> <<>>, errors |-> 0, dones |-> 0]

\* _initial_state.
NewRun(stream, no) ==
    [node |-> "model", stream |-> stream, reading |-> TRUE, round |-> 0,
     steps |-> 1, output |-> "empty", failed |-> "none", obligation |-> "none",
     ticket |-> "none", repairs |-> 0, retries |-> 0, reason |-> "none",
     outcomes |-> {}, no |-> no]

SetupAgentInit ==
    /\ run = [NewRun(FALSE, 0) EXCEPT !.node = "idle", !.steps = 0]
    /\ shown = Nothing /\ memory = NoMemory
    /\ workspace = [version |-> 1, edits |-> 0, writes |-> 0,
                    outside |-> FALSE, launched |-> 0]

Running == run.node \notin {"idle", "ended"}
Failed == run.reason \notin {"none", "text", "question"}

\* n more nodes of the graph, where the engine still allows them.
Within(n) == run.steps + n <= RecursionLimit
At(node, n) == run.node = node /\ Within(n)
Step(n, to, r) == run' = [r EXCEPT !.steps = @ + n, !.node = to]
Emit(s) == shown' = IF run.stream THEN s ELSE shown

-----------------------------------------------------------------------------
\* A snapshot whose basis is not the draft of now was changed by someone.
Reconciled(m, version) ==
    IF m.basis = 0 THEN m
    ELSE [m EXCEPT !.invalid = @ \/ m.basis # version, !.basis = version]

\* Wrong: the events of the last run are still there.
LaunchMutant(stream) ==
    /\ ~Running /\ run.no < MaxRuns
    /\ memory' = Reconciled(memory, workspace.version)
    /\ run' = [NewRun(stream, run.no + 1) EXCEPT !.outcomes = memory.outcomes]
    /\ shown' = shown
    /\ workspace' = [workspace EXCEPT !.outside = FALSE,
                                      !.launched = workspace.version]

\* run_turn, run_turn_stream, up to prepare_input: reconcile_snapshot commits.
Launch(stream) ==
    /\ ~Running /\ run.no < MaxRuns
    /\ memory' = Reconciled(memory, workspace.version)
    /\ run' = [NewRun(stream, run.no + 1) EXCEPT !.outcomes = memory.outcomes]
    /\ shown' = Nothing
    /\ workspace' = [workspace EXCEPT !.outside = FALSE,
                                      !.launched = workspace.version]

\* Text is public once the stream is done, unless a call or an error came
\* with it.
ShownBy(output) ==
    IF output \in {"text", "question", "repeated"}
      THEN [shown EXCEPT !.texts = Append(@, output)]
    ELSE IF output = "error" THEN [shown EXCEPT !.errors = @ + 1]
    ELSE shown

\* derive_turn_goal, plan_step_slice, build_model_request, call_model.
CallModel(output) ==
    /\ At("model", 4)
    /\ Step(4, "inspect", [run EXCEPT !.round = @ + 1, !.output = output,
              !.reason = IF output = "error" THEN "upstream_error" ELSE @])
    /\ Emit(ShownBy(output))
    /\ UNCHANGED <<workspace, memory>>

\* CompletionGuardPolicy.assess: the ticket that keeps the turn open, or
\* none.
Guard(output, obligation, ticket) ==
    IF ticket # "none" THEN ticket
    ELSE IF output = "repeated" \/ obligation = "repair" THEN "retry"
    ELSE IF obligation = "ask"
      THEN IF output = "question" THEN "none" ELSE "ask"
    ELSE IF output # "empty" THEN "none"
    ELSE IF obligation = "none" THEN "retry" ELSE "continue"

\* inspect_model_output.
InspectError ==
    /\ At("inspect", 1) /\ run.output = "error"
    /\ Step(1, "failure", run)
    /\ UNCHANGED <<shown, workspace, memory>>

InspectInvalid ==
    /\ At("inspect", 1) /\ run.output \in {"pseudo", "malformed"}
    /\ IF run.retries >= 1
         THEN Step(1, "failure", [run EXCEPT !.retries = @ + 1,
                                             !.reason = "unfulfilled"])
         ELSE Step(1, "reflect", [run EXCEPT !.retries = @ + 1,
                                             !.ticket = "retry"])
    /\ UNCHANGED <<shown, workspace, memory>>

InspectCalls ==
    /\ At("inspect", 1) /\ run.output = "tools"
    /\ Step(1, "tools", [run EXCEPT !.ticket = "none"])
    /\ UNCHANGED <<shown, workspace, memory>>

\* completed_text_finish_reason.
FinishReason(output) ==
    IF output \in {"question", "repeated"} THEN "question" ELSE "text"

InspectText ==
    LET ticket == Guard(run.output, run.obligation, run.ticket)
    IN  /\ At("inspect", 1)
        /\ run.output \in {"empty", "text", "question", "repeated"}
        /\ IF ticket = "none"
             THEN Step(1, "success", [run EXCEPT !.obligation = "none",
                          !.reason = FinishReason(run.output)])
             ELSE Step(1, "reflect", [run EXCEPT !.ticket = ticket])
        /\ UNCHANGED <<shown, workspace, memory>>

FailuresOf(batch) == {i \in DOMAIN batch : batch[i] \in FailureKinds}
FirstFailure(batch) ==
    IF FailuresOf(batch) = {} THEN "none"
    ELSE batch[CHOOSE i \in FailuresOf(batch) : \A j \in FailuresOf(batch) : i <= j]

\* execute_tools: the calls in order, up to an unrecoverable one.
ExecuteTools(batch) ==
    LET writes == Cardinality({i \in DOMAIN batch : batch[i] = "write"})
    IN  /\ At("tools", 1)
        /\ \A i \in DOMAIN batch : batch[i] = "unknown" => i = Len(batch)
        /\ workspace.writes + writes <= MaxWrites
        /\ Step(1, "assess", [run EXCEPT !.failed = FirstFailure(batch),
                  !.outcomes = @ \cup {Outcome(batch[i]) :
                     i \in {j \in DOMAIN batch : batch[j] \in Compared}}])
        /\ workspace' = [workspace EXCEPT !.version = @ + writes,
                                          !.writes = @ + writes]
        /\ UNCHANGED <<shown, memory>>

\* _is_repeated_failure, of outcomes that hold the failure's own already.
IsRepeated(kind, outcomes) ==
    \E o \in outcomes : o.kind = kind /\ o.code = PayloadCode(kind)

\* Wrong: the rounds are counted elsewhere.
RoundsLeftMutant == TRUE
RoundsLeft == run.round < MaxRounds

\* Wrong: a call that has to be repaired is let be.
ObligationOfMutant(kind) ==
    IF kind = "external" \/ kind = "repair" THEN "continue" ELSE kind
ObligationOf(kind) == IF kind = "external" THEN "continue" ELSE kind

\* RepairDecisionPolicy.assess: the first failure of the batch decides.
RepairDecision(kind) ==
    IF kind = "none" THEN IF RoundsLeft THEN "continue" ELSE "max_rounds"
    ELSE IF kind = "unknown" THEN "unrecoverable"
    ELSE IF kind = "repair" /\ run.repairs >= 1 THEN "schema"
    ELSE IF kind \in Compared /\ IsRepeated(kind, run.outcomes)
      THEN "unrecoverable"
    ELSE "obligation"

\* apply_tool_results and assess_progress.
AssessProgress ==
    LET kind == run.failed
        decision == RepairDecision(kind)
    IN  /\ At("assess", 2)
        /\ CASE decision = "continue" ->
                  Step(2, "model", [run EXCEPT !.obligation = "none",
                                               !.ticket = "none"])
             [] decision = "obligation" ->
                  Step(2, IF kind = "block" THEN "reflect" ELSE "model",
                       [run EXCEPT
                          !.obligation = ObligationOf(kind),
                          !.ticket = IF kind = "block" THEN "block" ELSE "none",
                          !.repairs = IF kind = "repair" THEN @ + 1 ELSE @])
             [] OTHER -> Step(2, "failure", [run EXCEPT !.reason = decision])
        /\ UNCHANGED <<shown, workspace, memory>>

\* reflect_if_needed, ReflectionTriggerPolicy.assess.
Reflect ==
    /\ At("reflect", 1)
    /\ IF ~RoundsLeft
         THEN Step(1, "failure", [run EXCEPT !.ticket = "none",
                                             !.reason = "max_rounds"])
       ELSE IF /\ run.ticket = "retry" /\ run.obligation = "repair"
               /\ run.repairs >= 1
         THEN Step(1, "failure", [run EXCEPT !.ticket = "none",
                                             !.reason = "unfulfilled"])
       ELSE Step(1, "model", [run EXCEPT !.ticket = "none"])
    /\ UNCHANGED <<shown, workspace, memory>>

\* Wrong: as the draft is by now.
PersistedMutant ==
    [memory EXCEPT !.basis = workspace.version, !.outcomes = @ \cup run.outcomes]
\* persist_turn_governance, on the workspace as the run was launched with.
Persisted ==
    [memory EXCEPT !.basis = workspace.launched, !.outcomes = @ \cup run.outcomes]

\* The result is persisted by whoever reads it to its end.
Finish ==
    memory' = IF run.stream /\ ~run.reading THEN memory ELSE Persisted

FinalizeSuccess ==
    /\ At("success", 1)
    /\ Step(1, "ended", run) /\ Finish
    /\ Emit([shown EXCEPT !.dones = @ + 1])
    /\ UNCHANGED workspace

\* Wrong: whatever was sent already.
ErrorsSentMutant == shown.errors + 1
\* An error that was sent when it came is not sent again.
ErrorsSent == IF shown.errors > 0 THEN shown.errors ELSE 1

FinalizeFailure ==
    /\ At("failure", 1)
    /\ Step(1, "ended", run) /\ Finish
    /\ Emit([shown EXCEPT !.dones = @ + 1, !.errors = ErrorsSent])
    /\ UNCHANGED workspace

\* Nodes the next step of a run counts.
NodesAhead == CASE run.node = "model" -> 4 [] run.node = "assess" -> 2 [] OTHER -> 1

\* The engine gives up.  A streamed run says so, with an error and a done; of
\* another nothing is left but the exception.
Overrun ==
    /\ Running /\ ~Within(NodesAhead)
    /\ run' = [run EXCEPT !.node = "ended", !.reason = "recursion"]
    /\ Emit([shown EXCEPT !.dones = @ + 1, !.errors = @ + 1])
    /\ memory' = IF run.stream /\ run.reading /\ memory.basis # 0
                   THEN [memory EXCEPT !.basis = workspace.launched] ELSE memory
    /\ UNCHANGED workspace

\* The client of a stream goes away; the run goes on.
Disconnect ==
    /\ Running /\ run.stream /\ run.reading
    /\ run' = [run EXCEPT !.reading = FALSE]
    /\ UNCHANGED <<shown, workspace, memory>>

\* Someone else changes the draft.
OutsideEdit ==
    /\ workspace.edits < MaxEdits
    /\ workspace' = [workspace EXCEPT !.version = @ + 1, !.edits = @ + 1,
                                      !.outside = TRUE]
    /\ UNCHANGED <<run, shown, memory>>

Batches == UNION {[1..n -> Results] : n \in 1..MaxCalls}
SetupAgentNext ==
    \/ \E stream \in BOOLEAN : Launch(stream)
    \/ \E output \in Outputs : CallModel(output)
    \/ InspectError \/ InspectInvalid \/ InspectCalls \/ InspectText
    \/ \E batch \in Batches : ExecuteTools(batch)
    \/ AssessProgress \/ Reflect \/ FinalizeSuccess \/ FinalizeFailure
    \/ Overrun \/ Disconnect \/ OutsideEdit

SetupAgentSpec == SetupAgentInit /\ [][SetupAgentNext]_agentVars

-----------------------------------------------------------------------------
Completed == run.node = "ended" /\ ~Failed

\* A turn is never reported as completed over a tool call that still has to
\* be repaired or a question that still has to be asked.
CompletedIsComplete ==
    Completed =>
      /\ run.output \in {"text", "question"}
      /\ run.failed \notin {"repair", "unknown"}
      /\ run.failed = "ask" => run.output = "question"

\* Only a failing tool carries a run past its rounds.
OnlyFailuresOverrun ==
    run.node = "model" /\ run.round >= MaxRounds => run.obligation # "none"

\* A turn of the setup agent is never reported as completed over a tool call
\* that still has to be repaired or a question that still has to be asked, and
\* only a failing tool carries a run past its rounds (policies.py).  Where
\* several calls of a batch fail, the first one is the one that counts.
FinishIsHonest == CompletedIsComplete /\ OnlyFailuresOverrun

\* A draft that someone else changed, while a run was going on too, is noticed
\* by the next run: its snapshot is invalidated.
NoEditIsMissed ==
    [][run'.no > run.no /\ workspace.outside /\ memory.basis # 0
         => memory'.invalid]_agentVars

\* A client that reads a turn to its end is told once that it is over, and of
\* an error exactly when it failed; and what another has edited in the draft
\* since the last run is noticed by the next one (executor.py,
\* setup_agent_runtime_state_service.py).
OneVerdict ==
    /\ [](run.node = "ended" /\ run.stream =>
            /\ shown.dones = 1
            /\ Failed <=> shown.errors > 0
            /\ run.reason # "recursion" => shown.errors <= 1
            /\ ~Failed => /\ shown.texts # <<>>
                          /\ shown.texts[Len(shown.texts)] = run.output)
    /\ NoEditIsMissed
=============================================================================
