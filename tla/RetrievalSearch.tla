-------------------------- MODULE RetrievalSearch --------------------------
(***************************************************************************)
(* One search of the recall or archival memory: the broker turns a request *)
(* into a query (retrieval_broker.py), the service lets two retrievers     *)
(* rank chunks, fuses the rankings, has them reranked and cuts them        *)
(* (retrieval_service.py), and the broker takes out what the branch of a   *)
(* turn may not see.                                                       *)
(*                                                                         *)
(* Scores are data: a retriever finds any of the chunks it may, in any     *)
(* order, and a reranker orders as it likes.  Nothing here waits on        *)
(* another task, so the index and the settings change between searches     *)
(* only.  How chunks get into the index is MemoryIndex, what the graph     *)
(* adds to a search is MemoryGraph.                                        *)
(***************************************************************************)
EXTENDS Naturals, FiniteSets, SequencesExt

CONSTANTS
    Chunks,
    Kind,       \* of a chunk: the collection it is in, "recall" or "archival"
    Owner,      \* of a chunk: the branch it was written on, or "story"
    Branches,
    Models,     \* the registry's models that can embed, in its order
    Provider,   \* of a model
    Providers,  \* the registry's providers, in its order
    Default,    \* of a provider: the model it embeds with if no other is
                \* named, or "none"
    Size,       \* of a model's vectors, and of the "local" ones
    Registries, \* what of the registry may be enabled
    Asked,      \* the requests that are made
    MaxTop,     \* the most hits a request asks for
    MaxChanges  \* bound: changes of the index, the settings and the turn

\* What a request says.  The pool is search_policy.hybrid.candidate_top_k, 0 if
\* it is not given; weight is 2 if the query has names or intents in it.
SearchRequests == [kind : {"recall", "archival"}, identity : BOOLEAN, top : 1..MaxTop,
             pool : 0..MaxTop, policy : {"on", "off", "auto"},
             branches : SUBSET Branches, weight : 1..2]

VARIABLES
    indexed,    \* of a chunk: the model of its active embedding, or "none"
    live,       \* the active chunks
    registry,   \* the models and the providers that are enabled
    setting,    \* the retrieval settings of the story, as they are now
    pinned,     \* those of the turn's profile snapshot
    lineage,    \* the branches the turn sees; none when its scope is not resolved
    search,     \* the search that runs
    changes     \* counts towards MaxChanges

known == <<indexed, live, registry, setting, pinned, lineage, changes>>

searchVars == <<known, search>>

\* The models a text may be embedded by; "local" is deterministic and of none.
Spaces == ToSet(Models) \cup ({Default[p] : p \in ToSet(Providers)} \ {"none"})
            \cup {"local"}

\* A setting may name a model, a provider, both or neither.
Settings == [embedding : ToSet(Models) \cup {"none"},
             provider : ToSet(Providers) \cup {"none"}, rerank : BOOLEAN]

NoSearch == [stage |-> "idle"]

Injective(S) == {s \in SeqOf(S, Cardinality(S)) : IsInjective(s)}

-----------------------------------------------------------------------------
(* The query.                                                              *)

\* Bug: the profile of the turn is not looked at.
SettingOfMutant(r) == setting

\* Bug: what the model named is not taken out of the rest.
ByModelMutant(hits, items) == items \o hits

\* Bug: the branches a request names count also for a turn.
SeenMutant(hits, r) ==
    IF r.identity /\ lineage = {} /\ r.branches = {} THEN <<>>
    ELSE SelectSeq(hits, LAMBDA c : Owner[c] \in lineage \cup r.branches \cup {"story"})

\* A turn's identity decides about branches: a request may not.
BranchFilter(r) == IF r.identity THEN {} ELSE r.branches

IgnoredFilters(r) == r.identity /\ r.branches # {}

\* The settings a query runs under: those the turn was pinned to, if it has one.
SettingOf(r) == IF r.identity THEN pinned ELSE setting

RerankWanted(r) ==
    \/ r.policy = "on"
    \/ r.policy = "auto" /\ SettingOf(r).rerank

\* How many candidates are fetched for r.top hits: five times as many, at least
\* twenty, which is more than there are chunks here, unless the policy says.
PoolOf(r) ==
    IF r.pool = 0 THEN 20 ELSE IF r.pool > r.top THEN r.pool ELSE r.top

\* The rows a query may find at all.
Matches(c, r) ==
    /\ c \in live
    /\ Kind[c] = r.kind
    /\ (r.kind = "recall" /\ BranchFilter(r) # {}) => Owner[c] \in BranchFilter(r)

\* Bug: vectors are compared whatever their sizes are.
ComparableMutant(c, space) == indexed[c] # "none"

\* Vectors are compared if they are of one size, whichever models they are of.
Comparable(c, space) == indexed[c] # "none" /\ Size[indexed[c]] = Size[space]

\* What the retrievers may come up with: rankings of rows that match.
SparseFinds(r) == Injective({c \in Chunks : Matches(c, r)})

DenseFinds(r, space) ==
    Injective({c \in Chunks : Matches(c, r) /\ Comparable(c, space)})

\* A model is there if it and its provider are enabled.
Available(m) ==
    /\ m \in registry.models
    /\ Provider[m] \in registry.providers

\* _resolve_target: the model the settings name; else, and nobody is told, the
\* first other one, unless that one's provider is disabled; else the default
\* of the first provider the settings allow.
Target(s) ==
    LET others == SelectSeq(Models, LAMBDA m : m \in registry.models)
        defaults == SelectSeq(Providers, LAMBDA p :
                      /\ p \in registry.providers /\ Default[p] # "none"
                      /\ s.provider \in {"none", p})
    IN  IF s.embedding # "none" /\ Available(s.embedding) THEN s.embedding
        ELSE IF others # <<>> /\ Available(Head(others)) THEN Head(others)
        ELSE IF defaults # <<>> THEN Default[Head(defaults)]
        ELSE "local"

\* A text whose model does not answer is embedded locally.
EmbeddedBy(s) == {Target(s), "local"}

-----------------------------------------------------------------------------
(* Fusion.                                                                 *)

Upto(s, n) == SubSeq(s, 1, IF Len(s) < n THEN Len(s) ELSE n)

Position(s, c) == CHOOSE i \in DOMAIN s : s[i] = c

\* 1 / (60 + i) as an integer, exact for the first three ranks.
Share(i) == (61 * 62 * 63) \div (60 + i)

Score(c, sparse, dense, weight) ==
    (IF c \in ToSet(sparse) THEN weight * Share(Position(sparse, c)) ELSE 0)
        + (IF c \in ToSet(dense) THEN Share(Position(dense, c)) ELSE 0)

\* Those found first stay first among equals: the sparse ones, then the rest.
Fused(sparse, dense, weight) ==
    LET found == sparse \o SelectSeq(dense, LAMBDA c : c \notin ToSet(sparse))
        Before(a, b) ==
            LET sa == Score(a, sparse, dense, weight)
                sb == Score(b, sparse, dense, weight)
            IN  \/ sa > sb
                \/ sa = sb /\ Position(found, a) < Position(found, b)
    IN  IF sparse = <<>> \/ dense = <<>>
        THEN found
        ELSE SortSeq(found, Before)

-----------------------------------------------------------------------------
(* Reranking.                                                              *)

\* Hits with the better metadata first: these weigh more than fused scores do.
ByMetadata(hits, lifted) ==
    SelectSeq(hits, LAMBDA c : c \in lifted)
        \o SelectSeq(hits, LAMBDA c : c \notin lifted)

\* The order of a model, and after it what the model did not name.
ByModel(hits, items) ==
    items \o SelectSeq(hits, LAMBDA c : c \notin ToSet(items))

\* What a rerank model, hosted or local, makes of the hits it is given: it is
\* taken to name none of them twice.
ModelAnswers(hits) == Injective(ToSet(hits))

\* An answer that names fewer hits than it was given is not used.
Usable(hits, items) == Len(items) > 0 /\ Len(items) >= Len(hits)

-----------------------------------------------------------------------------
(* Branches.                                                               *)

\* What the identity of a request may see.
Visible(c, r) == r.identity => (Owner[c] = "story" \/ Owner[c] \in lineage)

Seen(hits, r) ==
    IF r.identity /\ lineage = {} THEN <<>>
    ELSE SelectSeq(hits, LAMBDA c : Visible(c, r))

Answered(r, hits, warnings) ==
    LET seen == Seen(hits, r)
    IN  [stage |-> "answered", request |-> r, found |-> ToSet(search.hits),
         cut |-> hits, hits |-> seen,
         warnings |-> warnings
            \cup (IF IgnoredFilters(r) THEN {"branch_filters_ignored"} ELSE {})
            \cup (IF r.identity /\ lineage = {} THEN {"branch_scope_unresolved"}
                  ELSE IF seen # hits THEN {"branch_visibility_filtered"} ELSE {})]

-----------------------------------------------------------------------------
(* Actions.                                                                *)

\* The chunks were indexed under the settings the turn was pinned to; the story
\* has other ones since.
SearchInit ==
    /\ live = Chunks
    /\ registry = [models |-> ToSet(Models), providers |-> ToSet(Providers)]
    /\ pinned = [embedding |-> Head(Models), provider |-> "none", rerank |-> FALSE]
    /\ setting = [embedding |-> Last(Models), provider |-> "none", rerank |-> TRUE]
    /\ indexed = [c \in Chunks |-> pinned.embedding]
    /\ lineage = Branches
    /\ search = NoSearch
    /\ changes = 0

\* Nothing changes under a search.
Changing == search.stage = "idle" /\ changes < MaxChanges /\ changes' = changes + 1

\* A chunk is indexed under the settings of the story as they are, or locally
\* when the model does not answer; reindexing gives it another embedding.
Index(c, space) ==
    /\ Changing
    /\ space \in EmbeddedBy(setting)
    /\ indexed' = [indexed EXCEPT ![c] = space]
    /\ live' = live \cup {c}
    /\ UNCHANGED <<registry, setting, pinned, lineage, search>>

\* A chunk, or its embedding, is no longer active.
Deactivate(c) ==
    /\ Changing
    /\ indexed' = [indexed EXCEPT ![c] = "none"]
    /\ live' = live \ {c}
    /\ UNCHANGED <<registry, setting, pinned, lineage, search>>

\* Models and providers are enabled and disabled for all stories.
Register(enabled) ==
    /\ Changing
    /\ registry' = enabled
    /\ UNCHANGED <<indexed, live, setting, pinned, lineage, search>>

\* The settings change; a turn keeps those of its snapshot, the next one gets
\* these, and may be of another branch, or of one that is gone.
Configure(s) ==
    /\ Changing
    /\ setting' = s
    /\ UNCHANGED <<indexed, live, registry, pinned, lineage, search>>

NextTurn(branches) ==
    /\ Changing
    /\ pinned' = setting
    /\ lineage' = branches
    /\ UNCHANGED <<indexed, live, registry, setting, search>>

Ask(r) ==
    /\ search.stage = "idle"
    /\ search' = [stage |-> "asked", request |-> r]
    /\ UNCHANGED known

\* Both retrievers run one after the other, then their rankings are fused and
\* each cut to the size of the pool.  Where the store cannot compare vectors,
\* the process does, and that is what is said even if it finds nothing.
Retrieve(sparse, dense, space, failing) ==
    LET r == search.request
        pool == PoolOf(r)
    IN  /\ search.stage = "asked"
        /\ space \in EmbeddedBy(SettingOf(r))
        /\ sparse \in SparseFinds(r)
        /\ dense \in DenseFinds(r, space)
        /\ search' =
             [stage |-> "fused", request |-> r,
              sparse |-> Upto(sparse, pool), dense |-> Upto(dense, pool),
              space |-> space,
              hits |-> Upto(Fused(Upto(sparse, pool), Upto(dense, pool), r.weight), pool),
              warnings |->
                (IF space = "local" THEN {"embedding_fallback"} ELSE {})
                  \cup (IF failing THEN {"pgvector_unavailable"}
                        ELSE IF dense = <<>> THEN {"dense_unavailable"} ELSE {})]
        /\ UNCHANGED known

\* Without a use for it, or with one hit, the order stays; else a model's answer
\* is taken, or the metadata decide and the answer says why.
Rerank(items, lifted) ==
    LET r == search.request
        hits == search.hits
        none == ~RerankWanted(r) \/ Len(hits) <= 1
    IN  /\ search.stage = "fused"
        /\ none => items = <<>> /\ lifted = {}
        /\ search' =
             [search EXCEPT
                !.stage = "ranked",
                !.hits = IF none THEN hits
                         ELSE IF Usable(hits, items) THEN ByModel(hits, items)
                         ELSE ByMetadata(hits, lifted),
                !.warnings = IF none \/ Usable(hits, items) THEN @
                             ELSE @ \cup {"rerank_backend"}]
        /\ UNCHANGED known

\* The hits are cut to what was asked for, and only then filtered.
Answer ==
    /\ search.stage = "ranked"
    /\ search' = Answered(search.request, Upto(search.hits, search.request.top),
                          search.warnings)
    /\ UNCHANGED known

\* A failing store is an answer without hits; any other failure is none at all.
StoreFails ==
    /\ search.stage \in {"asked", "fused", "ranked"}
    /\ search' = [stage |-> "answered", request |-> search.request, found |-> {},
                  cut |-> <<>>, hits |-> <<>>, warnings |-> {"store_unavailable"}]
    /\ UNCHANGED known

Close ==
    /\ search.stage # "idle"
    /\ search' = NoSearch
    /\ UNCHANGED known

SearchNext ==
    \/ \E c \in Chunks : Deactivate(c) \/ \E space \in Spaces : Index(c, space)
    \/ \E enabled \in Registries : Register(enabled)
    \/ \E s \in Settings : Configure(s)
    \/ \E branches \in SUBSET Branches : NextTurn(branches)
    \/ \E r \in Asked : Ask(r)
    \/ /\ search.stage = "asked"
       /\ \E space \in EmbeddedBy(SettingOf(search.request)),
             sparse \in SparseFinds(search.request) :
             \E dense \in DenseFinds(search.request, space),
                failing \in BOOLEAN : Retrieve(sparse, dense, space, failing)
    \/ /\ search.stage = "fused"
       /\ \E items \in ModelAnswers(search.hits),
             lifted \in SUBSET ToSet(search.hits) : Rerank(items, lifted)
    \/ Answer
    \/ StoreFails
    \/ Close

-----------------------------------------------------------------------------
(* Properties.                                                             *)

SearchTypeOK ==
    /\ indexed \in [Chunks -> Spaces \cup {"none"}]
    /\ live \subseteq Chunks
    /\ registry \in [models : SUBSET ToSet(Models),
                     providers : SUBSET ToSet(Providers)]
    /\ {setting, pinned} \subseteq Settings
    /\ lineage \subseteq Branches
    /\ changes \in 0..MaxChanges
    /\ search.stage \in {"idle", "asked", "fused", "ranked", "answered"}

\* An answer has each chunk once, only active ones of the kind that was asked
\* for, and for a turn none of a branch it does not see, whatever the request
\* says about branches (retrieval_broker.py:887).
OnlyWhatMayBeSeen ==
    search.stage = "answered" =>
        /\ IsInjective(search.hits)
        /\ Len(search.hits) <= search.request.top
        /\ \A c \in ToSet(search.hits) :
              /\ c \in live
              /\ Kind[c] = search.request.kind
              /\ search.request.identity => Owner[c] \in lineage \cup {"story"}

\* A search that found something it may show says so when it shows less than it
\* was asked for, and one that shows nothing at all says why: hits of other
\* branches take the places of hits of one's own (result_builder.py:83).
ShortAnswersSaySo ==
    search.stage = "answered" =>
        /\ search.hits = <<>> => search.warnings # {}
        /\ \/ Len(search.hits) = search.request.top
           \/ \A c \in search.found :
                 Visible(c, search.request) => c \in ToSet(search.hits)
           \/ search.warnings \cap {"branch_visibility_filtered",
                                    "branch_scope_unresolved"} # {}

\* A chunk that neither retriever puts after another, and one puts first, stays
\* before it, and nothing found is dropped for the size of the pool while there
\* is room (rrf_fusion.py:9, fusion_strategy.py:60).
FusionIsFair ==
    search.stage = "fused" =>
        LET Ahead(s, a, b) ==
                a \in ToSet(s) /\ (b \in ToSet(s) => Position(s, a) < Position(s, b))
            both == {search.sparse, search.dense}
            all == ToSet(search.sparse) \cup ToSet(search.dense)
        IN  \A a, b \in all :
              (/\ \E s \in both : Ahead(s, a, b)
               /\ \A s \in both : Ahead(s, a, b) \/ b \notin ToSet(s))
                  => /\ b \in ToSet(search.hits) => a \in ToSet(search.hits)
                     /\ b \in ToSet(search.hits) =>
                          Position(search.hits, a) < Position(search.hits, b)

\* A turn's query is embedded by the model that its profile was pinned to while
\* that one is there, however the settings have changed since, or else locally,
\* and then it says so.  If no vector there is has the size of its own, the
\* search says that it compared none (retrieval_broker.py:1083, embedder.py:92,
\* semantic_retriever.py:118).
PinnedModelSearches ==
    search.stage \in {"fused", "ranked"} =>
        /\ (/\ search.request.identity /\ pinned.embedding # "none"
            /\ Available(pinned.embedding))
              => search.space \in {pinned.embedding, "local"}
        /\ search.space = "local" => "embedding_fallback" \in search.warnings
        /\ (\A c \in live : Size[indexed[c]] # Size[search.space])
              => search.warnings \cap {"dense_unavailable", "pgvector_unavailable"}
                   # {}

\* Reranking orders the hits: it neither loses one nor shows one twice
\* (reranker.py:446).
RerankKeepsTheHits ==
    [][(search.stage = "fused" /\ search'.stage = "ranked") =>
            /\ ToSet(search'.hits) = ToSet(search.hits)
            /\ Len(search'.hits) = Len(search.hits)]_searchVars
=============================================================================
