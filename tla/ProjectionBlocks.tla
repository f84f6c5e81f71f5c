-------------------------- MODULE ProjectionBlocks --------------------------
(***************************************************************************)
(* The settled summaries of a chapter and what the planner's prompt shows  *)
(* of them.  They are kept twice: in the chapter's own record (the mirror, *)
(* projection_state_service.py, projection_refresh_service.py) and, as the *)
(* configuration is rolled out, in the core state store with a history     *)
(* (core_state_dual_write_service.py, core_state_backfill_service.py).     *)
(* Readers see either as blocks (rp_block_read_service.py); a consumer of  *)
(* blocks records which revisions it has consumed, and a prompt made of    *)
(* them is kept until it has to be built anew                              *)
(* (story_block_consumer_state_service.py,                                 *)
(* story_block_prompt_compile_service.py).                                 *)
(*                                                                         *)
(* Each operation is a request that commits; one that fails changes        *)
(* nothing.  An item of a summary is a text with the chapter it was        *)
(* written in.                                                             *)
(***************************************************************************)
EXTENDS Naturals, Sequences, SequencesExt

CONSTANTS
    MaxChapters,
    Texts,
    KeepLast,       \* excerpts of recent segments
    Consumers,      \* of "planner", "writer"
    MaxRevision     \* bound: revisions of a summary in the store

VARIABLES
    rollout,        \* what of the store is switched on
    chapter,        \* the current chapter
    mirror,         \* per chapter: its summaries
    row,            \* per chapter and summary: the row of the store
    history,        \* ... and the items of its revisions
    consumer        \* per consumer: its record, and what it has seen

projectionVars == <<rollout, chapter, mirror, row, history, consumer>>

Chapters == 1..MaxChapters
Slots == {"outline", "segments"}

\* Nothing, the rows are written next to the mirror, they are read, they lead.
Rollouts == <<"off", "written", "read", "leading">>
Written == rollout # "off"
Reads == rollout \in {"read", "leading"}
Leading == rollout = "leading"

Item == [chapter : Chapters, text : Texts]
Items == UNION {[1..n -> Item] : n \in 0..KeepLast}
NoItems == [s \in Slots |-> <<>>]

NoRow == [revision |-> 0, items |-> <<>>, kind |-> "none"]
Kinds == {"none", "seed", "outline_accept", "segment_append", "chapter_seed",
          "refresh", "backfill"}

\* synced: the revisions consumed last, for which chapter, and, which only this
\* model keeps, the items they had.  compiled: what the kept prompt shows.
NoPrompt == [blocks |-> {}, chapter |-> 0, dirty |-> TRUE]
NewConsumer == [ever |-> FALSE, chapter |-> 0, synced |-> {}, seen |-> {},
                compiled |-> NoPrompt, resynced |-> FALSE]

ProjectionTypeOK ==
    /\ rollout \in {Rollouts[i] : i \in DOMAIN Rollouts} /\ chapter \in Chapters
    /\ \A c \in Chapters : \A s \in Slots :
         /\ mirror[c][s] \in Items /\ row[c][s].items \in Items
         /\ row[c][s].revision \in 0..MaxRevision /\ row[c][s].kind \in Kinds
         /\ history[c][s] \in Seq(Items)
    /\ DOMAIN consumer = Consumers
    /\ \A k \in Consumers :
         consumer[k].ever \in BOOLEAN /\ consumer[k].resynced \in BOOLEAN

-----------------------------------------------------------------------------
(* The two copies.                                                         *)

\* Wrong: a known row keeps its number.
SyncedRowMutant(r, items, kind) ==
    [revision |-> IF r = NoRow THEN 1 ELSE r.revision, items |-> items,
     kind |-> kind]

\* One summary of sync_projection_snapshot: an upsert of the row and of the
\* revision, unless nothing but the time has changed.
SyncedRow(r, items, kind) ==
    IF r # NoRow /\ r.items = items /\ r.kind = kind THEN r
    ELSE [revision |-> r.revision + 1, items |-> items, kind |-> kind]

\* upsert_projection_slot_revision: a revision there is already is replaced.
Recorded(h, r) == [i \in 1..(IF Len(h) < r.revision THEN r.revision ELSE Len(h)) |->
                     IF i = r.revision THEN r.items ELSE h[i]]

\* sync_mirror_snapshot and sync_projection_snapshot, in the order the leading
\* copy gives; both or neither.
Persist(c, snapshot, kind) ==
    LET next == [s \in Slots |-> SyncedRow(row[c][s], snapshot[s], kind)]
    IN  /\ mirror' = [mirror EXCEPT ![c] = snapshot]
        /\ IF Written
           THEN /\ \A s \in Slots : next[s].revision <= MaxRevision
                /\ row' = [row EXCEPT ![c] = next]
                /\ history' = [history EXCEPT ![c] =
                                 [s \in Slots |-> Recorded(@[s], next[s])]]
           ELSE UNCHANGED <<row, history>>

\* materialize_projection_snapshot, read_mirror_snapshot.
Snapshot(c) ==
    [s \in Slots |-> IF Leading /\ row[c][s] # NoRow THEN row[c][s].items
                                                     ELSE mirror[c][s]]

\* get_slot_items, for the current chapter.
SlotItems(s) ==
    IF Reads /\ row[chapter][s] # NoRow THEN row[chapter][s].items
                                        ELSE mirror[chapter][s]

ProjectionInit ==
    /\ rollout \in {"off", "leading"} /\ chapter = 1
    /\ mirror = [c \in Chapters |-> NoItems]
    /\ row = [c \in Chapters |-> [s \in Slots |->
                IF c = 1 /\ Written THEN SyncedRow(NoRow, <<>>, "seed")
                                    ELSE NoRow]]
    /\ history = [c \in Chapters |-> [s \in Slots |->
                    IF c = 1 /\ Written THEN <<<<>>>> ELSE <<>>]]
    /\ consumer = [k \in Consumers |-> NewConsumer]

\* The server is started with the next part of the store switched on.
RollOut ==
    /\ \E i \in 1..(Len(Rollouts) - 1) :
         rollout = Rollouts[i] /\ rollout' = Rollouts[i + 1]
    /\ UNCHANGED <<chapter, mirror, row, history, consumer>>

\* set_current_outline: an outline is written or accepted.
SetOutline(t) ==
    /\ Persist(chapter,
               [Snapshot(chapter) EXCEPT
                  !["outline"] = <<[chapter |-> chapter, text |-> t]>>],
               "outline_accept")
    /\ UNCHANGED <<rollout, chapter, consumer>>

\* The window of append_recent_segment.
WithSegment(items, t) ==
    LET all == Append(items, [chapter |-> chapter, text |-> t])
    IN  SubSeq(all, IF Len(all) > KeepLast THEN Len(all) - KeepLast + 1 ELSE 1,
               Len(all))

\* append_recent_segment: a segment is written.
AppendSegment(t) ==
    /\ Persist(chapter,
               [Snapshot(chapter) EXCEPT !["segments"] = WithSegment(@, t)],
               "segment_append")
    /\ UNCHANGED <<rollout, chapter, consumer>>

\* refresh_from_bundle: what the specialist returned, which may be nothing,
\* takes the place of every summary.
Refresh(texts) ==
    /\ LET digest == [i \in DOMAIN texts |-> [chapter |-> chapter, text |-> texts[i]]]
       IN  Persist(chapter, [s \in Slots |-> digest], "refresh")
    /\ UNCHANGED <<rollout, chapter, consumer>>

\* Wrong: the segments of the previous chapter are kept.
SeedMutant(snapshot) == [snapshot EXCEPT !["outline"] = <<>>]

\* What the next chapter starts with.
Seed(snapshot) == [snapshot EXCEPT !["outline"] = <<>>, !["segments"] = <<>>]

\* complete_chapter with seed_next_chapter.
NextChapter ==
    /\ chapter + 1 \in Chapters
    /\ Persist(chapter + 1, Seed(Snapshot(chapter)), "chapter_seed")
    /\ chapter' = chapter + 1
    /\ UNCHANGED <<rollout, consumer>>

\* backfill_projection_for_chapter, for a summary that is read and has no row.
\* Rows there are already are left as they are.
BackfillChapter ==
    /\ Reads /\ \E s \in Slots : row[chapter][s] = NoRow
    /\ row' = [row EXCEPT ![chapter] = [s \in Slots |->
                 IF @[s] # NoRow THEN @[s]
                 ELSE SyncedRow(NoRow, mirror[chapter][s], "backfill")]]
    /\ history' = [history EXCEPT ![chapter] = [s \in Slots |->
                     IF row[chapter][s] # NoRow THEN @[s]
                     ELSE <<mirror[chapter][s]>>]]
    /\ UNCHANGED <<rollout, chapter, mirror, consumer>>

-----------------------------------------------------------------------------
(* Blocks and their consumers.                                             *)

\* A row is a block of its own name and number; the mirror's block is named
\* after the chapter and always of revision 1.
StoreBlock(s) ==
    [id |-> <<"row", chapter, s>>, revision |-> row[chapter][s].revision,
     items |-> row[chapter][s].items]
MirrorBlock(s) ==
    [id |-> <<"mirror", chapter, s>>, revision |-> 1, items |-> SlotItems(s)]

\* list_projection_blocks: the rows, and of the mirror what has items.
Blocks ==
    LET inStore == {s \in Slots : Reads /\ row[chapter][s] # NoRow}
    IN  {StoreBlock(s) : s \in inStore}
          \cup {MirrorBlock(s) : s \in {s \in Slots \ inStore : SlotItems(s) # <<>>}}

\* _attached_blocks: the writer is shown only blocks with items.
Attached(k) ==
    IF k = "writer" THEN {b \in Blocks : b.items # <<>>} ELSE Blocks

Revisions(blocks) == {<<b.id, b.revision>> : b \in blocks}

\* The dirty_reasons of _build_view: never synced, another chapter, another
\* revision, a block that is no longer attached.
Dirty(k) ==
    \/ ~consumer[k].ever
    \/ consumer[k].chapter # chapter
    \/ consumer[k].synced # Revisions(Attached(k))

\* build_consumer_context and render_prompt_overlay.
Prompt(k) == [blocks |-> Attached(k), chapter |-> chapter, dirty |-> Dirty(k)]

\* Wrong: a consumer that was synced meanwhile is not looked for.
MustCompileMutant(k) ==
    \/ consumer[k].compiled = NoPrompt
    \/ Revisions(consumer[k].compiled.blocks) # Revisions(Attached(k))
    \/ consumer[k].compiled.chapter # chapter

\* The compile_reasons of compile_consumer_prompt.
MustCompile(k) ==
    \/ consumer[k].compiled = NoPrompt
    \/ Revisions(consumer[k].compiled.blocks) # Revisions(Attached(k))
    \/ consumer[k].compiled.chapter # chapter
    \/ consumer[k].resynced

\* compile_consumer_prompt, in front of a plan or an analysis.
Compile ==
    /\ "planner" \in Consumers /\ MustCompile("planner")
    /\ consumer' = [consumer EXCEPT !["planner"].compiled = Prompt("planner"),
                                    !["planner"].resynced = FALSE]
    /\ UNCHANGED <<rollout, chapter, mirror, row, history>>

\* mark_consumer_synced, behind the plan, the analysis or the writing: the
\* time is only noted where something changed.
MarkSynced(k) ==
    /\ Dirty(k)
    /\ consumer' = [consumer EXCEPT
         ![k].ever = TRUE, ![k].chapter = chapter,
         ![k].synced = Revisions(Attached(k)), ![k].resynced = TRUE,
         ![k].seen = {<<b.id, b.items>> : b \in Attached(k)}]
    /\ UNCHANGED <<rollout, chapter, mirror, row, history>>

ProjectionNext ==
    \/ \E t \in Texts : SetOutline(t) \/ AppendSegment(t) \/ Refresh(<<t>>)
    \/ Refresh(<<>>)
    \/ NextChapter \/ BackfillChapter \/ RollOut \/ Compile
    \/ \E k \in Consumers : MarkSynced(k)

-----------------------------------------------------------------------------
\* Both copies say the same, however far the store is rolled out: a row that
\* was backfilled or written before is never behind the mirror that readers
\* fell back to.
CopiesAgree ==
    \A c \in Chapters : \A s \in Slots :
      row[c][s] # NoRow => row[c][s].items = mirror[c][s]

\* A row is the last revision of its history.
RowIsLastRevision ==
    \A c \in Chapters : \A s \in Slots :
      /\ row[c][s].revision = Len(history[c][s])
      /\ row[c][s] # NoRow => Last(history[c][s]) = row[c][s].items

\* What was recorded as a revision stays as it was.
RevisionsStand ==
    [][\A c \in DOMAIN history : \A s \in Slots :
         IsPrefix(history[c][s], history'[c][s])]_projectionVars

\* Every block a consumer sees is a row.  One of the mirror has no revision that
\* would tell that its items changed.
SeesRows(k) == \A b \in Attached(k) : b.id[1] = "row"

\* Where the blocks are rows, a kept prompt that is used again shows them as
\* they are, and says rightly whether they are news to its consumer.
KeptPromptIsCurrent ==
    \A k \in Consumers \ {"writer"} :
      ~MustCompile(k) /\ SeesRows(k) => consumer[k].compiled = Prompt(k)

\* Where the blocks are rows, a consumer that is told nothing is new has seen
\* the items of them all.
NothingNewIsSeen ==
    \A k \in Consumers :
      ~Dirty(k) /\ SeesRows(k) =>
        consumer[k].seen = {<<b.id, b.items>> : b \in Attached(k)}

\* The outline and the recent segments of a chapter are its own.
ChaptersAreApart ==
    \A c \in Chapters : \A s \in {"outline", "segments"} :
      \A i \in DOMAIN mirror[c][s] : mirror[c][s][i].chapter = c
=============================================================================
