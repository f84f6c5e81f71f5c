-------------------------- MODULE WriterRetrieval --------------------------
(***************************************************************************)
(* The retrieval loop of the writer, for one turn                          *)
(* (writing_worker_retrieval_loop_service.py): the model that writes may   *)
(* search the memory, expand what it found, and has to record what of it   *)
(* it used before its text is taken.                                       *)
(*                                                                         *)
(* What the tools find is kept as materials of the turn, of four kinds:    *)
(* cards (R1, R2, ...), expanded chunks (X1, ...), misses (M1, ...) and    *)
(* usage records (U1, ...).  A material is never deleted, so its short id  *)
(* is its place in the sequence of its kind; of a card only the hit        *)
(* matters, of a chunk its card, of a miss nothing.                        *)
(***************************************************************************)
EXTENDS Naturals, Sequences, FiniteSets, SequencesExt, Functions

CONSTANTS
    RecallHits, ArchivalHits,   \* what the two indexes hold, no hit in both
    Anchors,                    \* a sequence: the anchors of a relation query
    Mentions,                   \* hit -> the anchors its text mentions
    TopK,                       \* results a search shows
    MaxAttempts,                \* searches and expansions of a turn
    MaxCalls,                   \* bound: tool calls in one answer
    MaxCards, MaxChunks, MaxRecords   \* bounds on the materials

VARIABLES
    writer,   \* the loop: its state, limits and generations
    cards,    \* sequence of hits
    chunks,   \* sequence of card numbers: the card a chunk expands
    misses,   \* how many searches found nothing
    records   \* sequence of usage records

writerVars == <<writer, cards, chunks, misses, records>>

Hits == RecallHits \cup ArchivalHits

MaxRounds == IF 3 * MaxAttempts + 1 > 4 THEN 3 * MaxAttempts + 1 ELSE 4

CardNumbers == 1..Len(cards)

-----------------------------------------------------------------------------
(* One search.  It asks both indexes once per variant of the query: as it  *)
(* is, and, of a relation, again for each anchor.  A route is the answer   *)
(* of one index to one variant.                                            *)

\* The routes of a query: of each variant the recall route, then the
\* archival one.  One variant, and one for each of two or more anchors.
Variants(mode) ==
    IF mode = "relation" /\ Len(Anchors) >= 2 THEN 1 + Len(Anchors) ELSE 1

RecallLists == {s \in SeqOf(RecallHits, TopK) : IsInjective(s)}
ArchivalLists == {s \in SeqOf(ArchivalHits, TopK) : IsInjective(s)}

\* What may be found: for each variant a pair of hit lists.
Findings(mode) == [1..Variants(mode) -> RecallLists \X ArchivalLists]

Routes(found) == FlattenSeq(found)

\* The cards of the routes, numbered as they are recorded.
Numbered(routes) ==
    [i \in DOMAIN routes |->
       LET before == Len(cards) + Len(FlattenSeq(SubSeq(routes, 1, i - 1)))
       IN  [k \in DOMAIN routes[i] |->
              [card |-> before + k, hit |-> routes[i][k]]]]

\* Best rank first, among equals the earlier route.
RankMaterials(routes) ==
    FlattenSeq([rank \in 1..TopK |->
      FlattenSeq([i \in DOMAIN routes |->
        IF rank <= Len(routes[i]) THEN <<routes[i][rank]>> ELSE <<>>])])

\* The first of the items with the same hit.
Dedupe(items) ==
    FoldLeft(LAMBDA kept, item :
               IF \E k \in DOMAIN kept : kept[k].hit = item.hit
               THEN kept ELSE Append(kept, item),
             <<>>, items)

IsCovered(anchor, items) ==
    \E k \in DOMAIN items : anchor \in Mentions[items[k].hit]

\* The bug: the last one goes, whatever it covers.
ReplacementIndexMutant(items) == Len(items)

\* The place of a shown item that can go: the last whose anchors are all
\* mentioned by others, or the last of all.
ReplacementIndex(items) ==
    LET spare == {k \in DOMAIN items :
                    \A a \in Range(Anchors) :
                      IsCovered(a, items) => IsCovered(a, RemoveAt(items, k))}
    IN  IF spare = {} THEN Len(items) ELSE CHOOSE k \in spare :
                                             \A j \in spare : j <= k

\* The first candidate, not shown yet, that mentions the anchor.
FirstCandidate(anchor, candidates, shown) ==
    SelectSeq(candidates,
              LAMBDA c : /\ anchor \in Mentions[c.hit]
                         /\ \A k \in DOMAIN shown : shown[k].hit # c.hit)

\* Every anchor in turn that no shown item mentions gets one that does, from
\* the anchors' own routes or else from the primary ones, in the place of an
\* item that can go.
CoverageGuard(primary, anchored) ==
    FoldLeft(LAMBDA shown, anchor :
               LET found == FirstCandidate(anchor, anchored, shown)
                            \o FirstCandidate(anchor, primary, shown)
                   room  == IF Len(shown) < TopK THEN shown
                            ELSE RemoveAt(shown, ReplacementIndex(shown))
               IN  IF IsCovered(anchor, shown) \/ found = <<>> THEN shown
                   ELSE Append(room, found[1]),
             SubSeq(primary, 1, IF Len(primary) < TopK THEN Len(primary)
                                                       ELSE TopK),
             Anchors)

\* What a search shows: of a relation query the guarded results, then what
\* else was found.
Ranked(mode, routes) ==
    LET numbered == Numbered(routes)
        primary  == Dedupe(RankMaterials(SubSeq(numbered, 1, 2)))
        anchored == Dedupe(RankMaterials(SubSeq(numbered, 3, Len(routes))))
        ranked   == IF Variants(mode) = 1 THEN primary
                    ELSE Dedupe(CoverageGuard(primary, anchored)
                                \o primary \o anchored)
    IN  SubSeq(ranked, 1, IF Len(ranked) < TopK THEN Len(ranked) ELSE TopK)

-----------------------------------------------------------------------------
(* The materials.                                                          *)

\* References are to materials of the kind, else the call fails.
Resolves(refs, list) == refs \subseteq DOMAIN list

\* References a model may give: at most one, which may not exist.
References(count) == {{}} \cup {{i} : i \in 1..(count + 1)}

\* The cards whose expansion is used.
ParentCards(used) == {chunks[x] : x \in used}

\* What the writer could see and did not use.
UnusedCards(usedCards, parents) == CardNumbers \ (usedCards \cup parents)

UsagePayload(usedCards, usedChunks, missed) ==
    [used |-> usedCards, chunks |-> usedChunks, missed |-> missed,
     parents |-> ParentCards(usedChunks),
     unused |-> UnusedCards(usedCards, ParentCards(usedChunks))]

\* Two usages that say the same; the bug: that cite the same.
SameUsageMutant(record, payload) ==
    /\ record.used = payload.used
    /\ record.chunks = payload.chunks
    /\ record.missed = payload.missed

SameUsage(record, payload) == record = payload

\* A record that says the same is taken again.
RecordUsage(payload) ==
    IF \E u \in DOMAIN records : SameUsage(records[u], payload)
    THEN records ELSE Append(records, payload)

-----------------------------------------------------------------------------
(* The loop.                                                               *)

Ends(how) == [writer EXCEPT !.state = how, !.pending = 0]

\* What is asked of the cards before the text is taken.
FinalOutputAllowed ==
    \/ writer.generation = 0
    \/ /\ writer.usageGeneration >= writer.generation
       /\ writer.usage # 0

\* The model answers: with its text, with calls, or not at all.
Answer ==
    /\ writer.state = "running" /\ writer.pending = 0
    /\ writer.rounds < MaxRounds
    /\ \/ \E n \in 1..MaxCalls :
            writer' = [writer EXCEPT !.rounds = @ + 1, !.pending = n]
       \/ writer' = Ends(IF FinalOutputAllowed THEN "done" ELSE "failed")
       \/ writer' = Ends("failed")
    /\ UNCHANGED <<cards, chunks, misses, records>>

OutOfRounds ==
    /\ writer.state = "running" /\ writer.pending = 0
    /\ writer.rounds = MaxRounds
    /\ writer' = Ends("failed")
    /\ UNCHANGED <<cards, chunks, misses, records>>

Calling == writer.state = "running" /\ writer.pending > 0

\* A search records a card for each hit and a miss for each route without one.
HandleSearch(mode, routes) ==
    LET hits  == FlattenSeq(routes)
        empty == {i \in DOMAIN routes : routes[i] = <<>>}
        shown == Ranked(mode, routes)
    IN  /\ Len(cards) + Len(hits) <= MaxCards
        /\ cards' = cards \o hits
        /\ misses' = misses + Cardinality(empty)
        /\ writer' = [writer EXCEPT
             !.pending = @ - 1, !.attempts = @ + 1, !.asked = mode,
             !.seen = @ \cup {shown[k].card : k \in DOMAIN shown},
             !.generation = IF hits # <<>> \/ empty # {} THEN @ + 1 ELSE @,
             !.usage = 0]
        /\ UNCHANGED <<chunks, records>>

Search ==
    /\ Calling /\ writer.attempts < MaxAttempts
    /\ \E mode \in {"direct", "relation"} : \E found \in Findings(mode) :
         HandleSearch(mode, Routes(found))

\* A search that raises keeps the cards of the routes before.
SearchBreaks ==
    /\ Calling /\ writer.attempts < MaxAttempts
    /\ \E hits \in RecallLists :
         /\ Len(cards) + Len(hits) <= MaxCards
         /\ cards' = cards \o hits
    /\ writer' = Ends("failed")
    /\ UNCHANGED <<chunks, misses, records>>

\* Expand the cards named; none named is an attempt all the same.
HandleExpand ==
    /\ Calling /\ writer.attempts < MaxAttempts
    /\ \E refs \in References(Len(cards)) :
         IF Resolves(refs, cards)
         THEN /\ Len(chunks) + Cardinality(refs) <= MaxChunks
              /\ chunks' = chunks \o SetToSeq(refs)
              /\ writer' = [writer EXCEPT
                   !.pending = @ - 1, !.attempts = @ + 1,
                   !.generation = IF refs # {} THEN @ + 1 ELSE @,
                   !.usage = IF refs # {} THEN 0 ELSE @]
         ELSE writer' = Ends("failed") /\ UNCHANGED chunks
    /\ UNCHANGED <<cards, misses, records>>

\* Record what was used.
HandleUsage ==
    /\ Calling
    /\ \E usedCards \in References(Len(cards)),
          usedChunks \in References(Len(chunks)),
          missed \in References(IF misses = 0 THEN 0 ELSE 1) :
         IF /\ Resolves(usedCards, cards) /\ Resolves(usedChunks, chunks)
            /\ missed \subseteq 1..misses
         THEN LET kept == RecordUsage(
                            UsagePayload(usedCards, usedChunks, missed))
              IN  /\ Len(kept) <= MaxRecords
                  /\ records' = kept
                  /\ writer' = [writer EXCEPT
                       !.pending = @ - 1,
                       !.usageGeneration = writer.generation,
                       !.usage = CHOOSE u \in DOMAIN kept :
                                   SameUsage(kept[u],
                                             UsagePayload(usedCards,
                                                          usedChunks, missed))]
         ELSE writer' = Ends("failed") /\ UNCHANGED records
    /\ UNCHANGED <<cards, chunks, misses>>

\* A search or an expansion too many, a tool that is none, a chunk that
\* cannot be read.
CallFails ==
    /\ Calling
    /\ writer' = Ends("failed")
    /\ UNCHANGED <<cards, chunks, misses, records>>

WriterInit ==
    /\ writer = [state |-> "running", rounds |-> 0, pending |-> 0,
                 attempts |-> 0, generation |-> 0, usageGeneration |-> 0,
                 usage |-> 0, asked |-> "none", seen |-> {}]
    /\ cards \in SeqOf(Hits, 1)   \* the workers may have searched before
    /\ chunks = <<>> /\ misses = 0 /\ records = <<>>

WriterNext ==
    \/ Answer
    \/ OutOfRounds
    \/ Search
    \/ SearchBreaks
    \/ HandleExpand
    \/ HandleUsage
    \/ CallFails

WriterSpec == WriterInit /\ [][WriterNext]_writerVars

-----------------------------------------------------------------------------

WriterTypeOK ==
    /\ writer \in [state : {"running", "done", "failed"},
                   rounds : 0..MaxRounds, pending : 0..MaxCalls,
                   attempts : 0..MaxAttempts, generation : 0..MaxAttempts,
                   usageGeneration : 0..MaxAttempts,
                   usage : 0..Len(records),
                   asked : {"none", "direct", "relation"},
                   seen : SUBSET CardNumbers]
    /\ cards \in SeqOf(Hits, MaxCards)
    /\ \A x \in DOMAIN chunks : chunks[x] \in CardNumbers
    /\ \A u \in DOMAIN records :
         records[u] \in [used : SUBSET CardNumbers, parents : SUBSET CardNumbers,
                         unused : SUBSET CardNumbers,
                         chunks : SUBSET (DOMAIN chunks),
                         missed : SUBSET (1..misses)]

\* The text of a writer that retrieved anything is only taken with a usage
\* record that accounts for every card there is: used, used through its
\* expansion, or not used - also when a record made earlier is taken again
\* (ensure_final_output_allowed, record_writer_usage).
RetrievalIsAccounted ==
    writer.state = "done" /\ writer.generation > 0 =>
        /\ writer.usage # 0
        /\ LET u == records[writer.usage] IN
             /\ u.used \cup u.parents \cup u.unused = CardNumbers
             /\ (u.used \cup u.parents) \cap u.unused = {}

\* Whenever a search asks for a relation, every anchor that anything found
\* mentions is mentioned by something shown, though fewer results are shown
\* than found (_apply_anchor_coverage_guard).
RelationIsCovered ==
    [][LET new(numbers) == {cards'[c] : c \in numbers}
           found == (1..Len(cards')) \ CardNumbers
           shown == writer'.seen \ writer.seen
       IN  writer'.asked = "relation" /\ writer'.attempts > writer.attempts
             /\ writer'.seen # writer.seen
           => \A a \in Range(Anchors) :
                (\E h \in new(found) : a \in Mentions[h]) =>
                  \E h \in new(shown) : a \in Mentions[h]]_writerVars
=============================================================================
