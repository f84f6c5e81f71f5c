---------------------------- MODULE SetupContext ----------------------------
(***************************************************************************)
(* What a turn of the setup agent is shown of its discussion: the newest   *)
(* messages as they are, and a summary in place of the older ones          *)
(* (context_engineering/selection.py, compaction.py, fingerprinting.py,    *)
(* setup_context_governor.py, setup_context_compaction_service.py).  The   *)
(* summary is kept with the step and reused, updated or rebuilt by the     *)
(* next turn, after the model was asked if the context is a small one      *)
(* (setup_agent_execution_service.py, setup_agent_runtime_state_service).  *)
(*                                                                         *)
(* The history comes with each request and is the client's: it may be      *)
(* edited, cut or of another stage that shares the legacy step.  The hash  *)
(* of the dropped messages stands as the messages themselves.              *)
(***************************************************************************)
EXTENDS Integers, Sequences, FiniteSets, Functions

CONSTANTS
    Slots,        \* turns that may be under way at the same time
    Discussions,  \* what clients may send: a stage of the step and the
                  \* texts of its messages, who says what; 0 is an empty one
    RawWindow,    \* messages shown as they are, per context profile
    LineLimit     \* lines of a summary

VARIABLES
    stored,       \* the summary in the snapshot of the step
    turn          \* per slot: a turn, or its absence

contextVars == <<stored, turn>>

Profiles == {"standard", "compact"}

ASSUME ContextAssumption ==
    /\ \A d \in Discussions : d.texts \in Seq(Nat)
    /\ RawWindow \in [Profiles -> Nat] /\ LineLimit \in Nat

Items == [stage : {d.stage : d \in Discussions}, index : Nat, text : Nat]

\* A summary: the messages it was made for, their number, its lines, each a
\* text that was said or, below 0, one of a model's own, and the messages that
\* the lines speak of; those of a model may speak of all it was told of.
\* worded: how many of its messages a model has answered for, now or in a
\* summary that this one builds on, which the code does not keep.
Summaries ==
    [source : Seq(Items), count : Nat, lines : SUBSET Int, about : SUBSET Items,
     worded : Nat]
NoSummary ==
    [source |-> <<>>, count |-> 0, lines |-> {}, about |-> {}, worded |-> 0]

\* dropped: the messages in front of the recent ones.  summary: the one the
\* turn has read, and then the one it shows.
NoTurn == [phase |-> "none", dropped |-> <<>>, summary |-> NoSummary]

Turns == [phase : {"none", "asking", "running"}, dropped : Seq(Items),
          summary : Summaries]

SetupContextTypeOK ==
    /\ stored \in Summaries /\ turn \in [Slots -> Turns]
    /\ \A s \in {stored} \cup {turn[t].summary : t \in Slots} :
         Cardinality(s.lines) <= LineLimit

SetupContextInit == stored = NoSummary /\ turn = [t \in Slots |-> NoTurn]

-----------------------------------------------------------------------------
\* The messages of a discussion that have content, in order.
Spoken(d) ==
    LET Item(i) == [stage |-> d.stage, index |-> i, text |-> d.texts[i]]
        upTo[i \in 0..Len(d.texts)] ==
          IF i = 0 THEN <<>>
          ELSE IF d.texts[i] = 0 THEN upTo[i - 1] ELSE Append(upTo[i - 1], Item(i))
    IN  upTo[Len(d.texts)]

\* select_context_sections: those in front of the recent window, which is
\* shown as it is.
Dropped(d, profile) ==
    SubSeq(Spoken(d), 1, Len(Spoken(d)) - RawWindow[profile])

\* Wrong: whatever is as long as the summary's source is its source.
IsValidPrefixMutant(summary, dropped) ==
    summary.count > 0 /\ summary.count <= Len(dropped)

\* is_valid_prefix_artifact.
IsValidPrefix(summary, dropped) ==
    /\ summary.count > 0 /\ summary.count <= Len(dropped)
    /\ SubSeq(dropped, 1, summary.count) = summary.source

\* Wrong: a summary of as many messages is reused.
ActionMutant(dropped, summary) ==
    CASE dropped = <<>>                               -> "none"
      [] dropped # <<>> /\ summary.count = Len(dropped) -> "reused"
      [] OTHER -> IF IsValidPrefix(summary, dropped) THEN "updated" ELSE "rebuilt"

\* decide_compaction_action.  What is stored always passes the validation the
\* code repeats here: SetupContextTypeOK.
Action(dropped, summary) ==
    LET same == summary.source = dropped /\ summary.count = Len(dropped)
    IN  CASE dropped = <<>>           -> "none"
          [] dropped # <<>> /\ same   -> "reused"
          [] OTHER -> IF IsValidPrefix(summary, dropped) THEN "updated"
                                                    ELSE "rebuilt"

AtMost(s, n) == SubSeq(s, 1, IF Len(s) < n THEN Len(s) ELSE n)

\* Wrong: the first message behind the old summary is skipped.
NewItemsMutant(dropped, summary) ==
    IF Action(dropped, summary) = "updated"
    THEN SubSeq(dropped, summary.count + 2, Len(dropped))
    ELSE dropped

\* The messages that no summary speaks of yet: all of them to rebuild it.
NewItems(dropped, summary) ==
    IF Action(dropped, summary) = "updated"
    THEN SubSeq(dropped, summary.count + 1, Len(dropped))
    ELSE dropped

\* Wrong: a rebuilt summary starts from the old one too.
BaseMutant(dropped, summary) == summary

\* What a new summary starts from.
Base(dropped, summary) ==
    IF Action(dropped, summary) = "updated" THEN summary ELSE NoSummary

\* The model's answer, in n lines, to the new messages and the base.
ModelSummary(dropped, summary, n) ==
    [source |-> dropped, count |-> Len(dropped), lines |-> {-k : k \in 1..n},
     about |-> IF n = 0 THEN {}
               ELSE Base(dropped, summary).about
                      \cup Range(NewItems(dropped, summary)),
     worded |-> Len(dropped)]

\* _deterministic_summary, _deterministic_incremental_summary: a line for each
\* text among the first new messages, unless it is there already, behind the
\* lines there are and as far as there is room.
PlainSummary(dropped, summary) ==
    LET base == Base(dropped, summary)
        first == AtMost(NewItems(dropped, summary), LineLimit)
        With(i) == base.lines \cup {first[j].text : j \in 1..i}
        lines == base.lines \cup {first[i].text :
                   i \in {k \in DOMAIN first : Cardinality(With(k)) <= LineLimit}}
    IN  [source |-> dropped, count |-> Len(dropped), lines |-> lines,
         about |-> base.about \cup {m \in Range(first) : m.text \in lines},
         worded |-> base.worded]

-----------------------------------------------------------------------------
\* A turn is shown what is left of its discussion and this summary of the
\* rest.
Shown(t, dropped, summary) ==
    /\ turn' = [turn EXCEPT ![t] = [phase |-> "running", dropped |-> dropped,
                                    summary |-> summary]]
    /\ stored' = stored

\* _build_runtime_v2_turn_input where no model is asked: nothing was dropped,
\* or what is stored is its summary, or the profile wants none.
BeginTurn(t, d, profile) ==
    LET dropped == Dropped(d, profile)
        action == Action(dropped, stored)
    IN  /\ turn[t].phase = "none"
        /\ \/ action = "none" /\ Shown(t, dropped, NoSummary)
           \/ action = "reused" /\ Shown(t, dropped, stored)
           \/ /\ action \in {"updated", "rebuilt"} /\ profile = "standard"
              /\ Shown(t, dropped, PlainSummary(dropped, stored))

\* The small profile has a model update or rebuild the summary.
AskModel(t, d) ==
    LET dropped == Dropped(d, "compact")
    IN  /\ turn[t].phase = "none"
        /\ Action(dropped, stored) \in {"updated", "rebuilt"}
        /\ turn' = [turn EXCEPT ![t] = [phase |-> "asking", dropped |-> dropped,
                                        summary |-> stored]]
        /\ stored' = stored

\* The answer passes its validation, which caps its lines and asks for none:
\* {} is a summary that speaks of nothing.
ModelSummarises(t) ==
    /\ turn[t].phase = "asking"
    /\ \E n \in 0..LineLimit :
         Shown(t, turn[t].dropped,
               ModelSummary(turn[t].dropped, turn[t].summary, n))

\* It is no JSON, of other messages or with unsupported references.
FallBack(t) ==
    /\ turn[t].phase = "asking"
    /\ Shown(t, turn[t].dropped, PlainSummary(turn[t].dropped, turn[t].summary))

\* An error of the service itself is not caught: the turn fails.
ModelFails(t) ==
    /\ turn[t].phase = "asking"
    /\ turn' = [turn EXCEPT ![t] = NoTurn]
    /\ stored' = stored

\* persist_turn_governance, whatever else has been stored meanwhile.
PersistTurn(t) ==
    /\ turn[t].phase = "running"
    /\ stored' = turn[t].summary
    /\ turn' = [turn EXCEPT ![t] = NoTurn]

\* The client has gone, or the run raises: nothing is stored.
AbandonTurn(t) ==
    /\ turn[t].phase = "running"
    /\ turn' = [turn EXCEPT ![t] = NoTurn]
    /\ stored' = stored

SetupContextNext ==
    \E t \in Slots :
      \/ \E d \in Discussions :
           AskModel(t, d) \/ \E p \in Profiles : BeginTurn(t, d, p)
      \/ ModelSummarises(t) \/ FallBack(t) \/ ModelFails(t)
      \/ PersistTurn(t) \/ AbandonTurn(t)

SetupContextSpec == SetupContextInit /\ [][SetupContextNext]_contextVars

-----------------------------------------------------------------------------
\* The summary a turn is shown is of the messages that were dropped from its
\* own history, as they are now: no line is about a message that was edited,
\* cut, said in another stage or still shown as it is, however the summary
\* came about and whatever other turns have stored (fingerprinting.py).
SummaryIsCurrent ==
    \A t \in Slots :
      turn[t].phase = "running" =>
        /\ turn[t].summary.source = turn[t].dropped
        /\ turn[t].summary.count = Len(turn[t].dropped)
        /\ turn[t].summary.about \subseteq Range(turn[t].dropped)

\* The lines of a model's own.
OwnLines(summary) == {l \in summary.lines : l < 0}

\* What no model has answered for is shown as it is or summarised: none of
\* those messages is lost while they and the model's lines, if there are any,
\* fit the summary.  A model's answer may leave out anything, all of it even,
\* and what it has left out stays out of the summaries that build on it.
NothingFallsBetween ==
    \A t \in Slots :
      LET summary == turn[t].summary
          dropped == turn[t].dropped
      IN  (/\ turn[t].phase = "running"
           /\ Cardinality(OwnLines(summary)) + Len(dropped) - summary.worded
                <= LineLimit)
            => \A i \in (summary.worded + 1)..Len(dropped) :
                 dropped[i] \in summary.about

\* The summary a turn of the setup agent is shown is of what was dropped from
\* its own history, as that is now, and loses none of what no model has put in
\* its own words before its lines run out (fingerprinting.py, compaction.py,
\* setup_context_compaction_service.py).
SummaryIsOfItsTurn == SummaryIsCurrent /\ NothingFallsBetween
=============================================================================
