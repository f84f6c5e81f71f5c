--------------------------- MODULE ChapterRuntime ---------------------------
(***************************************************************************)
(* The chapters of a longform story: an outline of beats, the segments     *)
(* that cover them, and the step to the next chapter                       *)
(* (longform_chapter_runtime_service.py, driven by                         *)
(* story_turn_domain_service.py under story_command_policy.py).            *)
(*                                                                         *)
(* A story command owns the write lock from the creation of its turn to    *)
(* its commit (StoryTurns), so a command that commits is one action here,  *)
(* and one that fails leaves nothing.  The story is read on one branch,    *)
(* which can be rolled back: turns are hidden, the records of the chapter  *)
(* and of the session stay as they are.  A turn writes at most one         *)
(* artifact, which is named by its turn.                                   *)
(***************************************************************************)
EXTENDS Naturals, SequencesExt, FiniteSetsExt

CONSTANTS
    Beats,         \* most beats of an outline
    Plans,         \* what the planner may have written, per command
    MaxChapters, MaxChapterTurns

WritingCommands == {"generate_outline", "discuss_outline", "write_next_segment",
                    "rewrite_pending_segment"}
ArtifactKinds == {"outline", "message", "segment"}

ASSUME ChapterBounds ==
    /\ Beats \in Nat /\ MaxChapters \in Nat \ {0} /\ MaxChapterTurns \in Nat
    /\ Plans \in [WritingCommands -> SUBSET ArtifactKinds]

VARIABLES
    chapterIndex,   \* current_chapter_index of the session
    chapters,       \* per chapter: its phase, pending segment and outline
    turns,          \* turns, each with the artifact it wrote
    progress,       \* outline progress materials, in order
    recall          \* artifacts ingested as accepted prose

chapterVars == <<chapterIndex, chapters, turns, progress, recall>>

ChapterIds == 1..MaxChapters
TurnIds == 1..MaxChapterTurns
BeatIds == 1..Beats
Phases == {"outline_drafting", "outline_review", "segment_drafting",
           "segment_review", "chapter_completed"}

\* A turn: whether its command is one that tells the story, whether the
\* artifact it wrote is its output (bound), and the beat the artifact names
\* (0: none).
Turn == [tells : BOOLEAN, bound : BOOLEAN, chapter : ChapterIds,
         settled : BOOLEAN, hidden : BOOLEAN, beat : 0..Beats,
         kind : ArtifactKinds \cup {"none"},
         art : {"none", "draft", "accepted", "superseded"}]

\* outline: how many beats the accepted outline has, 0 while there is none.
Chapter == [phase : Phases, pending : 0..MaxChapterTurns, outline : 0..Beats]

\* adopted: the artifact whose adoption is recorded, 0 at a new outline.
Progress == [turn : TurnIds, chapter : ChapterIds, covered : SUBSET BeatIds,
             adopted : 0..MaxChapterTurns]

ChapterTypeOK ==
    /\ chapterIndex \in ChapterIds
    /\ chapters \in [ChapterIds -> Chapter]
    /\ turns \in Seq(Turn) /\ Len(turns) <= MaxChapterTurns
    /\ \A k \in DOMAIN progress : progress[k] \in Progress
    /\ recall \subseteq TurnIds
    /\ \A t \in DOMAIN turns : turns[t].art = "none" <=> turns[t].kind = "none"

\* create_chapter_workspace, when the chapter is entered.
ChapterInit ==
    /\ chapterIndex = 1 /\ turns = <<>> /\ progress = <<>> /\ recall = {}
    /\ chapters = [i \in ChapterIds |->
                     [phase |-> "outline_drafting", pending |-> 0, outline |-> 0]]

Seen(t) == ~turns[t].hidden

\* build_chapter_snapshot: a pending segment of a hidden turn is no pending
\* segment, and a review of it no review.
PendingHidden(i) == chapters[i].pending # 0 /\ ~Seen(chapters[i].pending)
Pending(i) == IF PendingHidden(i) THEN 0 ELSE chapters[i].pending
Phase(i) ==
    IF PendingHidden(i) /\ chapters[i].phase = "segment_review"
      THEN "segment_drafting" ELSE chapters[i].phase

\* validate_story_command.
Allowed(cmd) ==
    LET phase == Phase(chapterIndex)
    IN  \/ cmd = "generate_outline" /\ phase = "outline_drafting"
        \/ cmd = "discuss_outline" /\ phase # "chapter_completed"
        \/ cmd = "accept_outline" /\ phase = "outline_review"
        \/ /\ cmd \in {"write_next_segment", "complete_chapter"}
           /\ phase = "segment_drafting"
        \/ /\ cmd \in {"rewrite_pending_segment", "accept_pending_segment"}
           /\ phase = "segment_review"

\* active_branch_accepted_story_segments, of turns ts in chapter i.
Told(ts, i) ==
    {t \in DOMAIN ts : /\ ts[t].chapter = i /\ ts[t].kind = "segment"
                       /\ ts[t].tells /\ ts[t].bound /\ ts[t].art = "accepted"
                       /\ ts[t].settled /\ ~ts[t].hidden}

\* The covered beats of effective_outline_progress, for an outline of n beats:
\* a segment that names no beat counts for the first one.
Covered(ts, i, n, excluded) ==
    {IF ts[t].beat = 0 THEN 1 ELSE ts[t].beat : t \in Told(ts, i) \ excluded}
       \cap 1..n

\* Its current beat: the first beat that is not covered, or 0.
CurrentBeat(covered, n) ==
    IF 1..n \subseteq covered THEN 0 ELSE Min(1..n \ covered)

Next1 == Len(turns) + 1
NewTurn(tells, bound, kind, beat) ==
    [tells |-> tells, bound |-> bound, chapter |-> chapterIndex,
     settled |-> FALSE, hidden |-> FALSE, beat |-> beat, kind |-> kind,
     art |-> IF kind = "none" THEN "none" ELSE "draft"]
ControlTurn == NewTurn(FALSE, FALSE, "none", 0)

SetChapter(phase, pending, outline) ==
    chapters' = [chapters EXCEPT ![chapterIndex] =
                   [phase |-> phase, pending |-> pending, outline |-> outline]]

-----------------------------------------------------------------------------
\* resolve_pending_artifact: what the request names, else the pending segment,
\* if it can be seen in this chapter, whatever kind of artifact it is; else 0.
Resolved(target) ==
    LET t == IF target = 0 THEN Pending(chapterIndex) ELSE target
    IN  IF /\ t \in DOMAIN turns /\ Seen(t)
           /\ turns[t].chapter = chapterIndex /\ turns[t].kind # "none"
          THEN t ELSE 0

\* _require_target_artifact of the rewrite constraints: a draft segment, of
\* any chapter, hidden or not.
Rewritable(target) ==
    LET t == IF target = 0 THEN Pending(chapterIndex) ELSE target
    IN  /\ t \in DOMAIN turns
        /\ turns[t].kind = "segment" /\ turns[t].art = "draft"

\* The beat of a new artifact: that of the artifact it is about, or the
\* current one.
BeatToWrite(target, kind) ==
    LET i == chapterIndex
        t == Resolved(target)
        n == chapters[i].outline
    IN  IF kind # "segment" THEN 0
        ELSE IF t # 0 /\ turns[t].beat # 0 THEN turns[t].beat
        ELSE CurrentBeat(Covered(turns, i, n, {}), n)

\* generate_outline, discuss_outline, write_next_segment and
\* rewrite_pending_segment, with _persist_generated_artifact_impl: the artifact
\* is of the kind the planner chose, and the chapter is written back as the
\* branch sees it.  The turn is not settled in what is committed (StoryTurns).
Write(cmd, target, kind) ==
    LET i == chapterIndex
        segment == kind = "segment"
    IN  /\ Len(turns) < MaxChapterTurns /\ Allowed(cmd)
        /\ kind \in Plans[cmd]
        /\ cmd = "rewrite_pending_segment" => Rewritable(target)
        /\ turns' = Append(turns,
             NewTurn(cmd \in {"write_next_segment", "rewrite_pending_segment"},
                     cmd # "rewrite_pending_segment",
                     kind, BeatToWrite(target, kind)))
        /\ SetChapter(CASE kind = "outline" -> "outline_review"
                        [] segment -> "segment_review"
                        [] OTHER -> Phase(i),
                      IF segment THEN Next1 ELSE Pending(i),
                      chapters[i].outline)
        /\ UNCHANGED <<chapterIndex, progress, recall>>

\* accept_outline, with normalize_outline_artifact, which makes n beats of the
\* text, and initialize_outline_progress.  What the request names is taken
\* unchecked (resolve_outline_artifact), so it may be any artifact; where it
\* names none, it is the last draft of an outline.
AcceptOutline(t, n) ==
    /\ Len(turns) < MaxChapterTurns /\ Allowed("accept_outline")
    /\ turns[t].kind # "none"
    /\ turns' = Append([turns EXCEPT ![t].art = "accepted"], ControlTurn)
    /\ SetChapter("segment_drafting", chapters[chapterIndex].pending, n)
    /\ progress' = Append(progress, [turn |-> Next1, chapter |-> chapterIndex,
                                     covered |-> {}, adopted |-> 0])
    /\ UNCHANGED <<chapterIndex, recall>>

\* The check of accept_pending_segment, and of the advance of the progress.
BeatMatches(beat, current) == current = 0 \/ beat = 0 \/ beat = current

\* The beat that an adoption advances the progress by: the one the artifact
\* names, or the current one.
AdvancedBeat(i, t, beat) ==
    IF beat # 0 THEN beat
    ELSE CurrentBeat(Covered(turns, i, chapters[i].outline, {t}),
                     chapters[i].outline)

\* Wrong: the segment that is accepted is counted before it is.
AdvancedProgressMutant(i, t, beat) ==
    Covered(turns, i, chapters[i].outline, {t})
\* What advance_outline_progress_for_adoption has covered then.
AdvancedProgress(i, t, beat) ==
    Covered(turns, i, chapters[i].outline, {t}) \cup {AdvancedBeat(i, t, beat)}

\* advance_outline_progress_for_adoption: fails where another beat is due, and
\* records nothing where the outline has no such beat.
AdvanceProgress(i, t, beat) ==
    LET n == chapters[i].outline
    IN  IF AdvancedBeat(i, t, beat) \notin 1..n THEN UNCHANGED progress
        ELSE /\ BeatMatches(beat, CurrentBeat(Covered(turns, i, n, {t}), n))
             /\ progress' = Append(progress,
                  [turn |-> Next1, chapter |-> i, adopted |-> t,
                   covered |-> AdvancedProgress(i, t, beat)])

\* Artifact t is accepted, becomes its turn's output and, if it is a segment,
\* settles it; the other drafts of ds are superseded.
Adopted(t, beat, ds) ==
    [u \in DOMAIN turns |->
       IF u = t
         THEN [turns[u] EXCEPT !.art = "accepted", !.bound = TRUE, !.beat = beat,
                               !.settled = @ \/ turns[u].kind = "segment"]
       ELSE IF u \in ds /\ turns[u].kind = "segment" /\ turns[u].art = "draft"
         THEN [turns[u] EXCEPT !.art = "superseded"]
       ELSE turns[u]]
InChapter(i) == {u \in DOMAIN turns : turns[u].chapter = i}

\* accept_pending_segment.
AcceptSegment(target) ==
    LET i == chapterIndex
        t == Resolved(target)
        n == chapters[i].outline
        current == CurrentBeat(Covered(turns, i, n, {}), n)
        beat == IF turns[t].beat # 0 THEN turns[t].beat ELSE current
    IN  /\ Len(turns) < MaxChapterTurns /\ Allowed("accept_pending_segment")
        /\ t # 0
        /\ BeatMatches(beat, current)
        /\ turns' = Append(Adopted(t, beat, {u \in InChapter(i) : Seen(u)}),
                           ControlTurn)
        /\ SetChapter("segment_drafting", 0, n)
        /\ AdvanceProgress(i, t, beat)
        /\ UNCHANGED <<chapterIndex, recall>>

\* _list_accepted_story_segments of the heavy regression, which ingests them.
Ingested(i) ==
    {t \in DOMAIN turns' : /\ turns'[t].chapter = i
                           /\ turns'[t].kind = "segment"
                           /\ turns'[t].art = "accepted"}

EnterChapter == chapterIndex' = chapterIndex + 1

\* _pending_segment_artifact.
PendingDraft(i) ==
    LET t == Pending(i)
    IN  t # 0 /\ turns[t].kind = "segment" /\ turns[t].art = "draft"

\* complete_chapter, with _resolve_transition_state: a draft that is pending is
\* adopted first, which needs a receipt of its review (DraftReview) and names
\* no beat for it; every other draft of the chapter is superseded with it.
CompleteChapter ==
    LET i == chapterIndex
        t == Pending(i)
    IN  /\ Len(turns) < MaxChapterTurns /\ i < MaxChapters
        /\ Allowed("complete_chapter")
        /\ IF PendingDraft(i)
             THEN /\ turns' = Append(Adopted(t, turns[t].beat, InChapter(i)),
                                     ControlTurn)
                  /\ AdvanceProgress(i, t, turns[t].beat)
             ELSE turns' = Append(turns, ControlTurn) /\ UNCHANGED progress
        /\ recall' = recall \cup Ingested(i)
        /\ SetChapter("chapter_completed",
                      IF PendingDraft(i) THEN 0 ELSE chapters[i].pending,
                      chapters[i].outline)
        /\ EnterChapter

\* rollback_to_turn: a turn whose output was accepted is settled first
\* (_settle_adopted_output_turn_if_visible), and the later ones are hidden.
RollBackTo(t) ==
    /\ Seen(t)
    /\ \/ turns[t].settled
       \/ turns[t].kind = "segment" /\ turns[t].bound /\ turns[t].art = "accepted"
    /\ turns' = [u \in DOMAIN turns |->
                   IF u = t THEN [turns[u] EXCEPT !.settled = TRUE]
                   ELSE IF u > t THEN [turns[u] EXCEPT !.hidden = TRUE]
                   ELSE turns[u]]
    /\ UNCHANGED <<chapterIndex, chapters, progress, recall>>

ChapterNext ==
    \/ \E cmd \in WritingCommands, kind \in ArtifactKinds,
          target \in 0..Len(turns) : Write(cmd, target, kind)
    \/ \E t \in DOMAIN turns, n \in BeatIds : AcceptOutline(t, n)
    \/ \E target \in 0..Len(turns) : AcceptSegment(target)
    \/ CompleteChapter
    \/ \E t \in DOMAIN turns : RollBackTo(t)

ChapterSpec == ChapterInit /\ [][ChapterNext]_chapterVars

-----------------------------------------------------------------------------
\* A command appends a turn, a rollback appends none.
CommandRan == Len(turns') > Len(turns)

\* The progress recorded when a segment that names its beat is adopted is the
\* one a reader would work out from the story itself afterwards; an artifact
\* that is no part of the story changes nothing of that.
RecordedIsEffective ==
    LET p == Last(progress')
        i == p.chapter
        n == chapters[i].outline
    IN  Len(progress') > Len(progress) /\ p.adopted # 0 =>
          IF p.adopted \in Told(turns', i)
            THEN turns'[p.adopted].beat # 0 =>
                   p.covered = Covered(turns', i, n, {})
            ELSE Told(turns', i) = Told(turns, i)

\* A command covers the beats of an outline in order: none at all, or the
\* first one that was not.
CoversInOrder ==
    \A i \in ChapterIds :
      LET n == chapters[i].outline
          before == Covered(turns, i, n, {})
      IN  CommandRan =>
            \/ Covered(turns', i, n, {}) = before
            \/ Covered(turns', i, n, {}) = before \cup {CurrentBeat(before, n)}

\* What a chapter tells that the session has left is changed by no command.
ClosedChapterIsFinal ==
    \A i \in 1..chapterIndex - 1 :
      CommandRan => Told(turns', i) = Told(turns, i) /\ chapters'[i] = chapters[i]

\* Whatever is written on whose behalf, accepted, rolled back, accepted again
\* or adopted as a chapter ends, beats are covered in order, the progress that
\* is recorded is what the story amounts to, and a chapter that was left is not
\* written on any more (longform_chapter_runtime_service.py).
ProgressIsEffective ==
    [][RecordedIsEffective /\ CoversInOrder /\ ClosedChapterIsFinal]_chapterVars
=============================================================================
