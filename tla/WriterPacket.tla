---------------------------- MODULE WriterPacket ----------------------------
(***************************************************************************)
(* What the writer of a longform story is told on a story with two         *)
(* branches (context_orchestration_service.py, writing_packet_builder.py,  *)
(* chapter_bridge_provider.py) and what a turn keeps of its answer         *)
(* (story_turn_domain_service.py).                                         *)
(*                                                                         *)
(* Some of what is told belongs to a branch (segments, bridges), some to   *)
(* the chapter, which the branches share (the discussion, the summaries,   *)
(* the draft that is pending).  A turn commits as a whole or leaves        *)
(* nothing (StoryTurns), so a command is one action.  Remarks, retrieval   *)
(* and the planner have modules of their own.                              *)
(***************************************************************************)
EXTENDS Naturals, SequencesExt, FiniteSetsExt

CONSTANTS
    MaxTurns, MaxChapters,
    WindowSize,     \* entries of the discussion the writer is told
    KeepLast,       \* segments a chapter's summary keeps
    Prompted,       \* commands the user says something with
    Plans           \* what the planner may make of each generating command

VARIABLES
    turns,      \* turns in the order of their creation
    origin,     \* the turn the side branch was forked from, 0 before
    current,    \* the active branch
    index,      \* current_chapter_index of the session
    chapters,   \* per chapter: its phase, pending segment, accepted outline
    said,       \* per chapter: the discussion, each entry with its turn
    summary,    \* per chapter: recent_segment_digest, as turns it tells of
    bridges,    \* chapter bridge materials
    packet      \* the last packet

packetVars ==
    <<turns, origin, current, index, chapters, said, summary, bridges, packet>>

Chapters == 1..MaxChapters
TurnIds == 1..MaxTurns
Sides == {"main", "side"}
Phases == {"outline_drafting", "outline_review", "segment_drafting",
           "segment_review", "chapter_completed"}
Generating == {"generate_outline", "discuss_outline", "write_next_segment",
               "rewrite_pending_segment"}
Commands == Generating \cup {"accept_outline", "accept_pending_segment",
                             "complete_chapter"}

Turn == [branch : Sides, chapter : Chapters, cmd : Commands, hidden : BOOLEAN,
         art : {"none", "outline", "outlined", "draft", "accepted", "superseded"}]

Entry == [turn : TurnIds, role : {"user", "assistant"}]

NoPacket == [turn |-> 0, window |-> <<>>, omitted |-> FALSE, digest |-> <<>>,
             segments |-> {}, bridge |-> 0, target |-> 0]

PacketTypeOK ==
    /\ turns \in Seq(Turn) /\ Len(turns) <= MaxTurns
    /\ origin \in 0..MaxTurns /\ current \in Sides /\ index \in Chapters
    /\ chapters \in [Chapters -> [phase : Phases, pending : 0..MaxTurns,
                                 outline : 0..MaxTurns]]
    /\ \A c \in Chapters : /\ said[c] \in Seq(Entry)
                           /\ summary[c] \in Seq(TurnIds)
    /\ bridges \in Seq([turn : TurnIds, branch : Sides, to : Chapters])
    /\ packet.turn \in 0..Len(turns)

NewTurn(cmd, art) ==
    [branch |-> current, chapter |-> index, cmd |-> cmd, hidden |-> FALSE,
     art |-> art]

\* The first chapter, with its outline accepted.
PacketInit ==
    /\ origin = 0 /\ current = "main" /\ index = 1 /\ packet = NoPacket
    /\ turns = <<NewTurn("generate_outline", "outlined"),
                 NewTurn("accept_outline", "none")>>
    /\ chapters = [c \in Chapters |->
                     [phase |-> IF c = 1 THEN "segment_drafting"
                                         ELSE "outline_drafting",
                      pending |-> 0, outline |-> IF c = 1 THEN 1 ELSE 0]]
    /\ said = [c \in Chapters |-> <<>>]
    /\ summary = [c \in Chapters |-> <<>>]
    /\ bridges = <<>>

-----------------------------------------------------------------------------
(* What a branch sees.                                                     *)

LineageOf(b) == IF b = "side" THEN Sides ELSE {"main"}

\* build_runtime_scope and is_visible: what was not rolled back, of the branch
\* itself and of its parent up to the fork point.
SeenOn(b, t) ==
    /\ ~turns[t].hidden
    /\ turns[t].branch \in LineageOf(b)
    /\ turns[t].branch # b => t <= origin

Seen(t) == SeenOn(current, t)

\* build_chapter_snapshot.
Pending == LET p == chapters[index].pending
           IN  IF p # 0 /\ Seen(p) THEN p ELSE 0
Phase == IF /\ chapters[index].phase = "segment_review"
            /\ chapters[index].pending # 0 /\ Pending = 0
            /\ chapters[index].outline # 0
           THEN "segment_drafting" ELSE chapters[index].phase

\* active_branch_accepted_segment_artifacts: not those of a discussion.
Accepted == {t \in DOMAIN turns :
               /\ turns[t].cmd \in {"write_next_segment", "rewrite_pending_segment"}
               /\ turns[t].chapter = index
               /\ turns[t].art = "accepted" /\ Seen(t)}

\* validate_story_command.
Allowed(cmd) ==
    \/ cmd = "generate_outline" /\ Phase = "outline_drafting"
    \/ cmd = "accept_outline" /\ Phase = "outline_review"
    \/ cmd = "discuss_outline" /\ Phase # "chapter_completed"
    \/ cmd \in {"write_next_segment", "complete_chapter"}
       /\ Phase = "segment_drafting"
    \/ cmd \in {"rewrite_pending_segment", "accept_pending_segment"}
       /\ Phase = "segment_review"

-----------------------------------------------------------------------------
(* The packet.                                                             *)

LastOf(s, n) == SubSeq(s, IF Len(s) > n THEN Len(s) - n + 1 ELSE 1, Len(s))

\* Wrong: only a fork makes it needed.
OmitsSummariesMutant == Cardinality(LineageOf(current)) > 1
\* _scope_requires_projection_omission: the summaries of a chapter are of all
\* branches; whoever has a parent or was rolled back is not told them.
OmitsSummaries ==
    \/ Cardinality(LineageOf(current)) > 1
    \/ \E t \in DOMAIN turns : turns[t].hidden /\ turns[t].branch \in LineageOf(current)

\* Wrong: a rolled-back completion still leads over.
BridgesMutant == {i \in DOMAIN bridges : /\ bridges[i].branch = current
                                         /\ bridges[i].to = index}
\* get_latest_bridge_material_for_target_chapter: of the branch itself only,
\* and not of a turn that was rolled back.
Bridges == {i \in DOMAIN bridges : /\ bridges[i].branch = current
                                   /\ bridges[i].to = index
                                   /\ Seen(bridges[i].turn)}

\* The latest of them is told in any packet of the chapter.
Bridge == IF Bridges = {} THEN 0 ELSE bridges[Max(Bridges)].turn

\* The discussion of the chapter, of whatever branch, at its end.
Window(entries) == LastOf(entries, WindowSize)

\* The chapter's progress is told of its accepted segments, to whoever writes
\* the next one.
Progress(cmd) == IF cmd = "write_next_segment" THEN Accepted ELSE {}

\* build_writing_packet for a command of turn n, where entries is the
\* discussion with what the user has just said.
PacketOf(n, cmd, entries) ==
    [turn |-> n,
     window |-> Window(entries),
     omitted |-> OmitsSummaries,
     digest |-> IF OmitsSummaries THEN <<>> ELSE summary[index],
     segments |-> Progress(cmd),
     bridge |-> Bridge,
     target |-> IF cmd = "rewrite_pending_segment" THEN Pending ELSE 0]

-----------------------------------------------------------------------------
(* Commands.                                                               *)

Turn1 == Len(turns) + 1
Ready(cmd) == Turn1 \in TurnIds /\ Allowed(cmd)
SetChapter(phase, pending) ==
    chapters' = [chapters EXCEPT ![index].phase = phase, ![index].pending = pending]

\* Wrong: the request is kept with the answer, when the packet is done.
WithRequestMutant(cmd) == said[index]
\* prepare_generation_inputs: what the user says is kept before anything else.
WithRequest(cmd) ==
    IF cmd \in Prompted
      THEN Append(said[index], [turn |-> Turn1, role |-> "user"])
      ELSE said[index]

\* A generating command up to the answer of the writer, which is kept as what
\* the planner has made of the command: its model may make anything of it.
Tell(cmd, kind, art) ==
    /\ Ready(cmd) /\ kind \in Plans[cmd]
    /\ packet' = PacketOf(Turn1, cmd, WithRequest(cmd))
    /\ turns' = Append(turns, NewTurn(cmd, art))
    /\ UNCHANGED <<origin, current, index, bridges>>

SayOnly(cmd) == said' = [said EXCEPT ![index] = WithRequest(cmd)]

\* _persist_generated_artifact_impl of an outline.  Whatever is kept, the
\* chapter is written back as the active branch sees it.
Outline(cmd) ==
    /\ Tell(cmd, "outline", "outline")
    /\ SetChapter("outline_review", Pending)
    /\ SayOnly(cmd)
    /\ UNCHANGED summary

\* Of a segment, with append_recent_segment.
Draft(cmd) ==
    /\ Tell(cmd, "segment", "draft")
    /\ SetChapter("segment_review", Turn1)
    /\ summary' = [summary EXCEPT ![index] = LastOf(Append(@, Turn1), KeepLast)]
    /\ SayOnly(cmd)

\* Of a reply.
Reply(cmd) ==
    /\ Tell(cmd, "message", "none")
    /\ SetChapter(Phase, Pending)
    /\ said' = [said EXCEPT ![index] =
         Append(WithRequest(cmd), [turn |-> Turn1, role |-> "assistant"])]
    /\ UNCHANGED summary

\* The last outline of the chapter that was not accepted yet, on whatever
\* branch it was written (resolve_outline_artifact).
AcceptOutline ==
    LET drafts == {t \in DOMAIN turns : /\ turns[t].chapter = index
                                        /\ turns[t].art = "outline"}
    IN  /\ Ready("accept_outline") /\ drafts # {}
        /\ turns' = Append([turns EXCEPT ![Max(drafts)].art = "outlined"],
                           NewTurn("accept_outline", "none"))
        /\ chapters' = [chapters EXCEPT ![index].phase = "segment_drafting",
                                        ![index].outline = Max(drafts)]
        /\ UNCHANGED <<origin, current, index, said, summary, bridges, packet>>

\* Other drafts that can be seen are superseded; the light regression puts
\* what the model makes of it in the place of the summaries, or nothing.
AcceptSegment(refreshed) ==
    /\ Ready("accept_pending_segment") /\ Pending # 0
    /\ turns' = Append(
         [t \in DOMAIN turns |->
            IF t = Pending THEN [turns[t] EXCEPT !.art = "accepted"]
            ELSE IF turns[t].chapter = index /\ turns[t].art = "draft" /\ Seen(t)
              THEN [turns[t] EXCEPT !.art = "superseded"]
            ELSE turns[t]], NewTurn("accept_pending_segment", "none"))
    /\ SetChapter("segment_drafting", 0)
    /\ summary' = [summary EXCEPT ![index] = IF refreshed THEN <<Turn1>> ELSE <<>>]
    /\ UNCHANGED <<origin, current, index, said, bridges, packet>>

\* With the bridge, the heavy regression and seed_next_chapter; a draft in
\* review would have to be adopted first.
CompleteChapter ==
    /\ Ready("complete_chapter") /\ index + 1 \in Chapters /\ Pending = 0
    /\ turns' = Append(turns, NewTurn("complete_chapter", "none"))
    /\ chapters' = [chapters EXCEPT ![index].phase = "chapter_completed"]
    /\ bridges' = Append(bridges, [turn |-> Turn1, branch |-> current,
                                   to |-> index + 1])
    /\ summary' = [summary EXCEPT ![index] = <<Turn1>>, ![index + 1] = <<>>]
    /\ index' = index + 1
    /\ UNCHANGED <<origin, current, said, packet>>

-----------------------------------------------------------------------------
(* Branches.                                                               *)

\* Accepting a segment settles the turn that wrote it.
Settled(t) == turns[t].art = "accepted"

\* create_branch_from_turn.
ForkAt(t) ==
    /\ origin = 0 /\ Settled(t) /\ Seen(t)
    /\ origin' = t /\ current' = "side"
    /\ UNCHANGED <<turns, index, chapters, said, summary, bridges, packet>>

\* switch_branch.
SwitchTo(b) ==
    /\ origin # 0 /\ b # current /\ current' = b
    /\ UNCHANGED <<turns, origin, index, chapters, said, summary, bridges, packet>>

\* rollback_to_turn, also to a turn of the parent: the fork point moves there.
RollBackTo(t) ==
    LET later == {u \in DOMAIN turns : turns[u].branch = current /\ u > t /\ Seen(u)}
    IN  /\ Settled(t) /\ Seen(t) /\ later # {}
        /\ turns' = [u \in DOMAIN turns |->
                       IF u \in later THEN [turns[u] EXCEPT !.hidden = TRUE]
                                      ELSE turns[u]]
        /\ origin' = IF turns[t].branch = current THEN origin ELSE t
        /\ UNCHANGED <<current, index, chapters, said, summary, bridges, packet>>

PacketNext ==
    \/ \E cmd \in Generating : Outline(cmd) \/ Draft(cmd) \/ Reply(cmd)
    \/ AcceptOutline \/ CompleteChapter
    \/ \E refreshed \in BOOLEAN : AcceptSegment(refreshed)
    \/ \E t \in DOMAIN turns : ForkAt(t) \/ RollBackTo(t)
    \/ \E b \in Sides : SwitchTo(b)

PacketSpec == PacketInit /\ [][PacketNext]_packetVars

-----------------------------------------------------------------------------
\* What a packet tells of the story is the story of its branch: the segments
\* and the bridge are of turns that can be seen there, a rewrite is of a draft
\* that can be, and a summary that is told tells of no turn the branch has
\* rolled back - although segments are kept in it as they are written, and
\* never taken out.
ToldOwnStory ==
    [][packet' # packet =>
         /\ packet'.segments \cup ({packet'.bridge, packet'.target} \ {0})
              \subseteq {t \in DOMAIN turns : Seen(t)}
         /\ \A t \in Range(packet'.digest) :
              turns[t].branch \in LineageOf(current) => Seen(t)
      ]_packetVars

\* Whatever was said on either branch before, the last thing the writer is told
\* of the discussion is what the user has just asked for, and all of it is of
\* the chapter that is written.
RequestIsTold ==
    [][packet' # packet =>
         LET cmd == turns'[packet'.turn].cmd
         IN  /\ cmd \in Prompted =>
                  /\ packet'.window # <<>>
                  /\ Last(packet'.window) = [turn |-> packet'.turn, role |-> "user"]
             /\ \A e \in Range(packet'.window) : turns'[e.turn].chapter = index
      ]_packetVars

\* The first packets of a chapter lead over from the one before: a branch that
\* completed it, and has not rolled that back, is told the bridge of its own
\* completion.
BridgeIsTold ==
    [][packet' # packet =>
         \A t \in DOMAIN turns :
           (/\ turns[t].cmd = "complete_chapter" /\ turns[t].chapter + 1 = index
            /\ turns[t].branch = current /\ Seen(t)) => packet'.bridge = t
      ]_packetVars

\* Of a branch there is at most one draft in review that can be adopted: two
\* branches share one place for it, a rewrite takes the place of another draft,
\* and a rollback may bring an older one back to light.
OneDraftInReview ==
    \A c \in Chapters : \A b \in Sides :
      LET p == chapters[c].pending
      IN  p # 0 /\ SeenOn(b, p) => turns[p].art = "draft" /\ turns[p].chapter = c
=============================================================================
