----------------------------- MODULE MCDrafting -----------------------------
(***************************************************************************)
(* The parts of a story that are worked on between its turns, for TLC: its *)
(* runtime profiles, its chapters, the brainstorms, what the writer        *)
(* retrieves, the archival sources and the graph of them, the review of a  *)
(* draft, and the core state, once with the store leading (primary) and    *)
(* once without it (legacy, the default configuration).                    *)
(*                                                                         *)
(* A behaviour is one of any one part, the others stay as they are.        *)
(***************************************************************************)
EXTENDS RuntimeProfiles, ChapterRuntime, Brainstorm, DraftReview,
        MemoryIndex, TLC

CONSTANTS
    f1, f2,                               \* profiles: fields
    first, second,                        \* review: texts of a draft
    objects, proposals                    \* core state

VARIABLES
    part,    \* the part that runs
    graphConfig, chunk, chunkCount, graphJobs, nodes, edges, evidence,
    writer, cards, chunks, misses, records,
    story, core, work, save, req

\* One field is set plainly, in a section or nulled there, the other, which
\* edits do not write, plainly; newer defaults decide both.
SomeConfigs ==
    {f1 :> [plain |-> one[1], section |-> one[2]]
       @@ f2 :> [plain |-> v, section |-> 0] :
     one \in {<<0, 0>>, <<1, 0>>, <<1, 2>>, <<1, 3>>}, v \in {0, 1}}
SomeGovern ==
    0 :> (f1 :> "open" @@ f2 :> "open") @@ 1 :> (f1 :> "mode" @@ f2 :> "registry")

\* Two versions of a draft that share a block.
SomeBlocks == first :> <<"a", "b">> @@ second :> <<"a", "c">>

\* The planner may have written anything, whatever was asked of it.
AnyPlans == [cmd \in WritingCommands |-> ArtifactKinds]

\* One search for the relation of two anchors, in two indexes.
Relation == INSTANCE WriterRetrieval WITH
    RecallHits <- {"h1", "h2"}, ArchivalHits <- {"h3"},
    Anchors <- <<"a", "b">>,
    Mentions <- [h1 |-> {"a"}, h2 |-> {}, h3 |-> {"b"}], TopK <- 2,
    MaxAttempts <- 1, MaxCalls <- 1, MaxCards <- 4, MaxChunks <- 0,
    MaxRecords <- 1

\* Two searches or expansions, and usages between them.
Writer == INSTANCE WriterRetrieval WITH
    RecallHits <- {"h1"}, ArchivalHits <- {}, Anchors <- <<>>,
    Mentions <- [h1 |-> {}], TopK <- 1, MaxAttempts <- 2, MaxCalls <- 2,
    MaxCards <- 2, MaxChunks <- 1, MaxRecords <- 2

Entity(n, k) == [name |-> n, key |-> k]

\* Three names; an answer that calls two of them by the key of a third, one
\* that calls one by another's, and one with a relation of no entity.
GraphOf == INSTANCE MemoryGraph WITH
    config <- graphConfig, chunks <- chunkCount,
    Names <- {"a", "b", "c"}, MaxJobs <- 3, MaxChunks <- 2,
    Answers <- {
        [entities |-> <<Entity("a", "a"), Entity("b", "b")>>,
         relations |-> <<<<"a", "b">>>>],
        [entities |-> <<Entity("b", "b"), Entity("c", "c")>>,
         relations |-> <<<<"b", "c">>>>],
        [entities |-> <<Entity("a", "b"), Entity("c", "b")>>,
         relations |-> <<<<"c", "a">>>>],
        [entities |-> <<Entity("c", "a")>>, relations |-> <<>>],
        [entities |-> <<Entity("a", "a")>>, relations |-> <<<<"a", "b">>>>]}

channels == {"edit", "block", "review", "regression", "tool"}

\* Two proposals from any source, the store leading.
Primary == INSTANCE CoreMutations WITH
    Branches <- {Trunk}, Default <- Trunk, None <- Nobody, MaxTurns <- 1,
    Objects <- objects, Proposals <- proposals, StoreWrite <- TRUE,
    StorePrimary <- TRUE, Channels <- channels, Bases <- 0..2

\* Two of them, on the mirror alone.
Legacy == INSTANCE CoreMutations WITH
    Branches <- {Trunk}, Default <- Trunk, None <- Nobody, MaxTurns <- 1,
    Objects <- objects, Proposals <- proposals, StoreWrite <- FALSE,
    StorePrimary <- FALSE, Channels <- channels, Bases <- 0..2

graphVars == <<graphConfig, chunk, chunkCount, graphJobs, nodes, edges,
               evidence>>
writerVars == <<writer, cards, chunks, misses, records>>
coreVars == <<story, core, work, save, req>>

Init ==
    /\ part \in {"profiles", "chapter", "review",
                  "talk", "memory", "graph", "relation", "writer", "primary",
                  "legacy"}
    /\ ProfilesInit
    /\ ChapterInit /\ ReviewInit /\ BrainstormInit
    /\ MemoryInit /\ GraphOf!GraphInit
    /\ IF part = "relation" THEN Relation!WriterInit ELSE Writer!WriterInit
    /\ part \notin {"relation", "writer"} => cards = <<>>
    /\ part # "graph" => graphConfig = "on" /\ chunk = 1
    /\ part # "profiles" => config[f1].plain = 1 /\ config[f2].plain = 1
    /\ part # "review" => text = first
    /\ CASE part = "primary" -> Primary!Init
         [] part = "legacy" -> Legacy!Init
         [] OTHER -> /\ story = 0 /\ core = 0 /\ work = 0 /\ save = 0
                     /\ req = 0

Next ==
    /\ part' = part
    /\ \/ /\ part = "profiles" /\ ProfilesNext
          /\ UNCHANGED <<chapterVars, reviewVars, brainstormVars, memoryVars,
                         graphVars, writerVars, coreVars>>
       \/ /\ part = "chapter" /\ ChapterNext
          /\ UNCHANGED <<profileVars, reviewVars, brainstormVars, memoryVars,
                         graphVars, writerVars, coreVars>>
       \/ /\ part = "review" /\ ReviewNext
          /\ UNCHANGED <<profileVars, chapterVars, brainstormVars, memoryVars,
                         graphVars, writerVars, coreVars>>
       \/ /\ part = "talk" /\ BrainstormNext
          /\ UNCHANGED <<profileVars, chapterVars, reviewVars, memoryVars,
                         graphVars, writerVars, coreVars>>
       \/ /\ part = "memory" /\ MemoryNext
          /\ UNCHANGED <<profileVars, chapterVars, reviewVars, brainstormVars,
                         graphVars, writerVars, coreVars>>
       \/ /\ part = "graph" /\ GraphOf!GraphNext
          /\ UNCHANGED <<profileVars, chapterVars, reviewVars, brainstormVars,
                         memoryVars, writerVars, coreVars>>
       \/ /\ \/ part = "relation" /\ Relation!WriterNext
             \/ part = "writer" /\ Writer!WriterNext
          /\ UNCHANGED <<profileVars, chapterVars, reviewVars, brainstormVars,
                         memoryVars, graphVars, coreVars>>
       \/ /\ \/ part = "primary" /\ Primary!Next
             \/ part = "legacy" /\ Legacy!Next
          /\ UNCHANGED <<profileVars, chapterVars, reviewVars, brainstormVars,
                         memoryVars, graphVars, writerVars>>

vars == <<part, profileVars, chapterVars, reviewVars, brainstormVars, memoryVars,
          graphVars, writerVars, coreVars>>

Spec == Init /\ [][Next]_vars

-----------------------------------------------------------------------------
(* The properties of the parts.                                           *)

\* The variables of every part keep their types.
TypeOK ==
    /\ part = "profiles" => ProfilesTypeOK
    /\ part = "chapter" => ChapterTypeOK
    /\ part = "review" => ReviewTypeOK
    /\ part = "talk" => BrainstormTypeOK
    /\ part = "memory" => MemoryTypeOK
    /\ part = "graph" => GraphOf!GraphTypeOK
    /\ part = "relation" => Relation!WriterTypeOK
    /\ part = "writer" => Writer!WriterTypeOK
    /\ part = "primary" => Primary!TypeOK
    /\ part = "legacy" => Legacy!TypeOK

\* Whatever jobs fail, are retried or rebuilt, the graph holds only what
\* completed jobs told, whole: no edge without its nodes and its evidence; an
\* answer takes no name from a node while keys are kept, an untruncated
\* neighborhood is all of it, and a search for a relation loses none of its
\* own hits but for want of room (memory_graph_extraction_service.py,
\* memory_graph_projection_service.py, graph_expansion.py).
GraphIsSound ==
    /\ [](part = "graph" => /\ GraphOf!GraphIsClosed
                            /\ GraphOf!NeighborhoodIsWhole
                            /\ GraphOf!RelationHitsAreKept)
    /\ GraphOf!NamesAreKept

\* A text that rests on retrieval comes with a record that accounts for every
\* card there is, and the results of a relation query mention every anchor
\* that anything found mentions (writing_worker_retrieval_loop_service.py,
\* runtime_retrieval_search_service.py).
RetrievalIsAccounted ==
    /\ [](part = "writer" => Writer!RetrievalIsAccounted)
    /\ [](part = "relation" => Relation!RetrievalIsAccounted)
    /\ Relation!RelationIsCovered

\* No change without a turn of its own is lost or doubled in the copy that
\* leads, a seeded row keeps its seed as its first revision, and a proposal that
\* is applied by hand after a failure, through a review or twice in a row has one
\* receipt and wrote all of it or nothing (begin_nested,
\* ensure_authoritative_targets_seed, apply_proposal, apply_block_proposal).
ChangesAddUp ==
    /\ part = "primary" => /\ Primary!ChangesAddUp /\ Primary!FirstRevisionIsSeed
                           /\ Primary!AppliedOnce /\ Primary!AppliedIsWhole
    /\ part = "legacy" => Legacy!ChangesAddUp /\ Legacy!AppliedOnce
=============================================================================
