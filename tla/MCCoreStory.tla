---------------------------- MODULE MCCoreStory ----------------------------
(***************************************************************************)
(* The core state of a story and what its models are told, for TLC:        *)
(* proposals that change the core state over turns and branches, the       *)
(* summaries of a chapter as the planner and the writer are shown them,    *)
(* the writer's packet on two branches, and searches of the memory.        *)
(*                                                                         *)
(* A behaviour is one of any one part, the others stay as they are.        *)
(***************************************************************************)
EXTENDS CoreMutations, TLC

VARIABLES
    part,    \* the part that runs
    rollout, chapter, mirror, row, history, consumer,
    indexed, live, registry, setting, pinned, lineage, search, changes,
    turns, origin, current, index, chapters, said, summary, bridges, packet

Symmetry == Permutations(Proposals) \cup Permutations(Objects)

\* One chapter and its planner, which keeps a prompt.
Planned == INSTANCE ProjectionBlocks WITH
    MaxChapters <- 1, Texts <- {"a"}, KeepLast <- 2, Consumers <- {"planner"},
    MaxRevision <- 2

\* Two chapters and the writer.
Shown == INSTANCE ProjectionBlocks WITH
    MaxChapters <- 2, Texts <- {"a"}, KeepLast <- 2, Consumers <- {"writer"},
    MaxRevision <- 2

\* A turn on the main branch, or no turn, searches what three chunks tell: one
\* of its branch, one of another and one of the story.
Query(identity, top, pool, policy, branches, weight) ==
    [kind |-> "recall", identity |-> identity, top |-> top, pool |-> pool,
     policy |-> policy, branches |-> branches, weight |-> weight]

Searched == INSTANCE RetrievalSearch WITH
    Chunks <- {"c1", "c2", "c3"},
    Kind <- [c \in {"c1", "c2", "c3"} |-> "recall"],
    Owner <- [c1 |-> "main", c2 |-> "side", c3 |-> "story"],
    Branches <- {"main", "side"},
    Models <- <<"m1", "m2">>,
    Provider <- [m1 |-> "p1", m2 |-> "p2"],
    Providers <- <<"p1", "p2">>,
    Default <- [p1 |-> "d1", p2 |-> "none"],
    Size <- [m1 |-> 2, m2 |-> 3, d1 |-> 2, local |-> 1],
    Registries <- {[models |-> ms, providers |-> ps] :
                     ms \in {{"m2"}, {}}, ps \in {{"p1", "p2"}, {"p1"}, {"p2"}}},
    Asked <- {Query(TRUE, 1, 0, "auto", {}, 1), Query(TRUE, 2, 0, "on", {"side"}, 2),
              Query(FALSE, 2, 1, "auto", {"side"}, 1)},
    MaxTop <- 2, MaxChanges <- 1

\* Two chapters and two branches; the first chapter has its outline, five more
\* turns are taken.
Packed == INSTANCE WriterPacket WITH
    MaxTurns <- 7, MaxChapters <- 2, WindowSize <- 2, KeepLast <- 2,
    Prompted <- {"discuss_outline", "rewrite_pending_segment"},
    Plans <- [generate_outline |-> {"outline"},
              discuss_outline |-> {"message", "segment"},
              write_next_segment |-> {"segment"},
              rewrite_pending_segment |-> {"segment", "message"}]

blockVars == <<rollout, chapter, mirror, row, history, consumer>>

searchedVars == <<indexed, live, registry, setting, pinned, lineage, search, changes>>

packedVars ==
    <<turns, origin, current, index, chapters, said, summary, bridges, packet>>

ToldInit ==
    /\ part \in {"core", "planned", "shown", "searched", "packed"}
    /\ Init
    /\ Searched!SearchInit
    /\ Packed!PacketInit
    /\ IF part = "planned" THEN Planned!ProjectionInit ELSE Shown!ProjectionInit
    /\ part \notin {"planned", "shown"} => rollout = "off"
    /\ part # "core" => core = EmptyCore

ToldNext ==
    /\ part' = part
    /\ \/ part = "core" /\ Next /\ UNCHANGED <<blockVars, searchedVars, packedVars>>
       \/ /\ \/ part = "planned" /\ Planned!ProjectionNext
             \/ part = "shown" /\ Shown!ProjectionNext
          /\ UNCHANGED <<vars, searchedVars, packedVars>>
       \/ /\ part = "searched" /\ Searched!SearchNext
          /\ UNCHANGED <<vars, blockVars, packedVars>>
       \/ /\ part = "packed" /\ Packed!PacketNext
          /\ UNCHANGED <<vars, blockVars, searchedVars>>

ToldSpec ==
    ToldInit /\ [][ToldNext]_<<part, vars, blockVars, searchedVars, packedVars>>

-----------------------------------------------------------------------------
(* The properties of the parts that tell.                                  *)

\* What the models of a turn are told is what is there: the two copies of a
\* chapter's summaries agree however far the store is rolled out, a prompt that
\* is kept shows them as they are, a consumer told that nothing is new has seen
\* them, no chapter is told of another's segments; a search tells all it may
\* and nothing else, or says so; and the writer is told the story of its own
\* branch and the request it answers (projection_state_service.py,
\* story_block_prompt_compile_service.py, retrieval_broker.py,
\* context_orchestration_service.py).
ToldAsItIs ==
    /\ [](part = "planned" => /\ Planned!ProjectionTypeOK
                              /\ Planned!CopiesAgree
                              /\ Planned!RowIsLastRevision
                              /\ Planned!KeptPromptIsCurrent)
    /\ [](part = "shown" => /\ Shown!ProjectionTypeOK
                            /\ Shown!CopiesAgree
                            /\ Shown!RowIsLastRevision
                            /\ Shown!NothingNewIsSeen
                            /\ Shown!ChaptersAreApart)
    /\ Shown!RevisionsStand
    /\ [](part = "searched" => /\ Searched!SearchTypeOK
                               /\ Searched!OnlyWhatMayBeSeen
                               /\ Searched!ShortAnswersSaySo
                               /\ Searched!FusionIsFair
                               /\ Searched!PinnedModelSearches)
    /\ Searched!RerankKeepsTheHits
    /\ [](part = "packed" => Packed!PacketTypeOK /\ Packed!OneDraftInReview)
    /\ Packed!ToldOwnStory
    /\ Packed!RequestIsTold
    /\ Packed!BridgeIsTold
=============================================================================
