---------------------------- MODULE MemoryGraph ----------------------------
(***************************************************************************)
(* The graph of a story's archival sources: the extraction jobs that are   *)
(* queued when a source is ingested, rebuilt or retried                    *)
(* (memory_graph_projection_service.py), what a job makes of the model's   *)
(* answer (memory_graph_extraction_service.py), the upserts that merge it  *)
(* into nodes, edges and evidence (memory_graph_projection_repository.py), *)
(* the neighborhood that is inspected, and what a search for a relation    *)
(* adds to its hits (graph_expansion.py).                                  *)
(*                                                                         *)
(* One source, whose text is one chunk that reindexing replaces by another *)
(* one; entities of one type; relations of one type.  A job is one         *)
(* transaction: it is taken, waits for the model and merges in one session *)
(* that its caller commits, and a crash leaves it queued.                  *)
(***************************************************************************)
EXTENDS Naturals, SequencesExt, FiniteSetsExt

CONSTANTS
    Names,       \* of entities; a normalization key is the slug of a name
    Answers,     \* what the model may answer, as Answer below
    MaxJobs,
    MaxChunks    \* how often the source is indexed

VARIABLES
    config,     \* RetrievalRuntimeConfig: graph extraction of the story
    chunk,      \* the active chunk of the source, or NoChunk
    chunks,     \* how many chunks it has had
    graphJobs,  \* MemoryGraphExtractionJobRecord, in the order of creation
    nodes,      \* MemoryGraphNodeRecord, the last updated one last
    edges,      \* MemoryGraphEdgeRecord: its id is hashed from its endpoints
    evidence    \* MemoryGraphEvidenceRecord: an edge, and the chunk it is of

graphVars == <<config, chunk, chunks, graphJobs, nodes, edges, evidence>>

NoChunk == 0

\* An entity is called by a name and given the key of one; a relation is
\* between two names.
Answer == [entities : Seq([name : Names, key : Names]),
           relations : Seq(Names \X Names)]

Job == [of : 0..MaxChunks, status : {"queued", "completed", "failed"},
        attempt : 0..MaxJobs]

\* A node is found by its id, the hash of the key it was made with.
Node == [id : Names, key : Names, name : Names, aliases : SUBSET Names]

GraphTypeOK ==
    /\ config \in {"off", "unconfigured", "on"}
    /\ chunk \in 0..chunks /\ chunks \in 0..MaxChunks
    /\ graphJobs \in Seq(Job) /\ Len(graphJobs) <= MaxJobs
    /\ nodes \in Seq(Node) /\ edges \subseteq Names \X Names
    /\ evidence \subseteq [edge : Names \X Names, chunk : 0..MaxChunks]

GraphInit ==
    /\ config \in {"off", "unconfigured", "on"}
    /\ chunk \in {NoChunk, 1} /\ chunks = 1
    /\ graphJobs = <<>> /\ nodes = <<>> /\ edges = {} /\ evidence = {}

-----------------------------------------------------------------------------
(* Jobs.                                                                   *)

\* _queue_candidate_job: without a model the job is born failed.
QueuedJob(c, attempt) ==
    [of |-> c, attempt |-> attempt,
     status |-> IF config = "unconfigured" THEN "failed" ELSE "queued"]

\* queue_archival_extraction_jobs, rebuild_story_graph: the active chunk, or
\* the source itself when it has none.
QueueJobs ==
    /\ config # "off" /\ Len(graphJobs) < MaxJobs
    /\ graphJobs' = Append(graphJobs, QueuedJob(chunk, 0))
    /\ UNCHANGED <<config, chunk, chunks, nodes, edges, evidence>>

Failed == {j \in DOMAIN graphJobs : graphJobs[j].status = "failed"}

\* retry_failed_jobs: a row for each failed one, of the chunk that one was of,
\* whether that is the active one or not; the switch is not looked at, and
\* "off" has a model.  The failed ones stay as they are.
RetryFailedJobs ==
    /\ Failed # {} /\ Len(graphJobs) + Cardinality(Failed) <= MaxJobs
    /\ \E order \in SetToAllKPermutations(Failed) :
         /\ Len(order) = Cardinality(Failed)
         /\ graphJobs' = graphJobs \o
              [i \in DOMAIN order |->
                 QueuedJob(graphJobs[order[i]].of,
                           graphJobs[order[i]].attempt + 1)]
    /\ UNCHANGED <<config, chunk, chunks, nodes, edges, evidence>>

-----------------------------------------------------------------------------
(* What an answer is merged into.                                          *)

NamesOf(n) == {n.name} \cup n.aliases

\* find_node_by_normalization_key, find_node_by_canonical_name: the one
\* updated last.
FindNode(e) ==
    LET byKey == {i \in DOMAIN nodes : nodes[i].key = e.key}
        byName == {i \in DOMAIN nodes : nodes[i].name = e.name}
    IN  IF byKey # {} THEN {Max(byKey)}
        ELSE IF byName # {} THEN {Max(byName)} ELSE {}

\* Wrong: the aliases of the answer replace those the node has.
NodeFromEntityMutant(e) ==
    IF FindNode(e) = {}
    THEN [id |-> e.key, key |-> e.key, name |-> e.name, aliases |-> {}]
    ELSE LET n == nodes[CHOOSE i \in FindNode(e) : TRUE]
         IN  [n EXCEPT !.key = e.key,
                       !.aliases = {e.name} \ {n.name}]

\* _node_from_entity: a known node keeps its id and its name and takes the key.
NodeFromEntity(e) ==
    IF FindNode(e) = {}
    THEN [id |-> e.key, key |-> e.key, name |-> e.name, aliases |-> {}]
    ELSE LET n == nodes[CHOOSE i \in FindNode(e) : TRUE]
         IN  [n EXCEPT !.key = e.key,
                       !.aliases = @ \cup ({e.name} \ {n.name})]

\* _merge_node_upserts: an answer that has a node twice keeps the first key.
MergeNodeUpserts(ns, n) ==
    IF \E i \in DOMAIN ns : ns[i].id = n.id
    THEN [i \in DOMAIN ns |->
            IF ns[i].id # n.id THEN ns[i]
            ELSE [ns[i] EXCEPT !.aliases =
                    @ \cup (NamesOf(n) \ {ns[i].name})]]
    ELSE Append(ns, n)

\* _prepare_merge: the nodes of the first k entities of an answer.
NodeUpserts(a, k) ==
    FoldLeft(MergeNodeUpserts, <<>>,
             [i \in 1..k |-> NodeFromEntity(a.entities[i])])

\* node_by_lookup, _resolve_relation_node: the entities a name stands for; the
\* last one takes it.
Meant(a, name) ==
    {k \in DOMAIN a.entities :
       \E n \in Range(NodeUpserts(a, k)) :
         n.id = NodeFromEntity(a.entities[k]).id /\ name \in NamesOf(n)}
ResolveNode(a, name) == NodeFromEntity(a.entities[Max(Meant(a, name))]).id

\* Graph relation endpoint is missing from entities.
Resolvable(a) == \A i \in DOMAIN a.relations :
    Meant(a, a.relations[i][1]) # {} /\ Meant(a, a.relations[i][2]) # {}

EdgeUpserts(a) == {<<ResolveNode(a, r[1]), ResolveNode(a, r[2])>> :
                     r \in Range(a.relations)}

\* upsert_node: inserted, or overwritten whole, by id.
UpsertNode(ns, n) == Append(SelectSeq(ns, LAMBDA m : m.id # n.id), n)

MergedNodes(a) ==
    FoldLeft(UpsertNode, nodes, NodeUpserts(a, Len(a.entities)))

-----------------------------------------------------------------------------
(* process_job: of a job that is still queued.                             *)

\* _fail_job: an attempt counts from one.
Ended(j, status) ==
    graphJobs' = [graphJobs EXCEPT
        ![j].status = status, ![j].attempt = IF @ = 0 THEN 1 ELSE @]

Queued(j) == j \in DOMAIN graphJobs /\ graphJobs[j].status = "queued"

\* The source's text is empty; the model is late or not there; its answer is
\* no JSON of the schema; or the graph cannot be written, and what was is
\* taken back.
JobFails(j) ==
    /\ Queued(j)
    /\ Ended(j, "failed")
    /\ UNCHANGED <<config, chunk, chunks, nodes, edges, evidence>>

\* A relation of something that is no entity of the answer.
JobIsInvalid(j, a) ==
    /\ Queued(j) /\ ~Resolvable(a)
    /\ Ended(j, "failed")
    /\ UNCHANGED <<config, chunk, chunks, nodes, edges, evidence>>

JobCompletes(j, a) ==
    /\ Queued(j) /\ Resolvable(a)
    /\ nodes' = MergedNodes(a)
    /\ edges' = edges \cup EdgeUpserts(a)
    /\ evidence' = evidence \cup
         {[edge |-> e, chunk |-> graphJobs[j].of] : e \in EdgeUpserts(a)}
    /\ Ended(j, "completed")
    /\ UNCHANGED <<config, chunk, chunks>>

\* resolve_story_config: what the story's last session says, or its setup.
Configure(c) ==
    /\ c # config
    /\ config' = c
    /\ UNCHANGED <<chunk, chunks, graphJobs, nodes, edges, evidence>>

\* _process_asset: the chunk is replaced by one with an id of its own.
Reindex ==
    /\ chunks < MaxChunks
    /\ chunks' = chunks + 1 /\ chunk' = chunks + 1
    /\ UNCHANGED <<config, graphJobs, nodes, edges, evidence>>

GraphNext ==
    \/ QueueJobs \/ RetryFailedJobs \/ Reindex
    \/ \E c \in {"off", "unconfigured", "on"} : Configure(c)
    \/ \E j \in 1..MaxJobs : JobFails(j)
    \/ \E j \in 1..MaxJobs, a \in Answers :
         JobIsInvalid(j, a) \/ JobCompletes(j, a)

GraphSpec == GraphInit /\ [][GraphNext]_graphVars

-----------------------------------------------------------------------------
(* What is read of the graph.                                              *)

NodeIds == {nodes[i].id : i \in DOMAIN nodes}
Touching(es, ns) == {e \in es : e[1] \in ns \/ e[2] \in ns}

\* get_neighborhood, the edges of one round: each is selected, as long as the
\* cap allows it, and its nodes are visited, as long as theirs does.
SelectEdge(w, e, nodeCap, edgeCap) ==
    IF w.full \/ e \in w.selected THEN w
    ELSE IF Cardinality(w.selected) >= edgeCap
    THEN [w EXCEPT !.full = TRUE, !.truncated = TRUE]
    ELSE FoldLeft(LAMBDA v, n :
             IF n \in v.visited THEN v
             ELSE IF Cardinality(v.visited) >= nodeCap
             THEN [v EXCEPT !.truncated = TRUE]
             ELSE [v EXCEPT !.visited = @ \cup {n}, !.frontier = @ \cup {n}],
         [w EXCEPT !.selected = @ \cup {e}], e)

Round(w, nodeCap, edgeCap) ==
    IF w.frontier = {} \/ Cardinality(w.selected) >= edgeCap THEN w
    ELSE FoldLeft(LAMBDA v, e : SelectEdge(v, e, nodeCap, edgeCap),
                  [w EXCEPT !.frontier = {}, !.full = FALSE],
                  SetToSeq(Touching(edges, w.frontier)))

\* What it returns: no edge but between nodes it returns.
Neighborhood(n, depth, nodeCap, edgeCap) ==
    LET w == FoldLeft(LAMBDA v, i : Round(v, nodeCap, edgeCap),
                      [visited |-> {n}, selected |-> {}, frontier |-> {n},
                       full |-> FALSE, truncated |-> FALSE],
                      [i \in 1..depth |-> i])
    IN  [nodes |-> w.visited, truncated |-> w.truncated,
         edges |-> {e \in w.selected : e[1] \in w.visited /\ e[2] \in w.visited}]

\* _matched_nodes, _load_graph_evidence_rows, _build_hits: the active chunks
\* that are evidence of an edge of a node the query names.
GraphHits(name) ==
    LET ns == {n.id : n \in {m \in Range(nodes) : name \in NamesOf(m)}}
    IN  {v.chunk : v \in {x \in evidence : /\ x.edge \in Touching(edges, ns)
                                           /\ x.chunk # NoChunk}}
        \cap {chunk}

\* merge_graph_expansion_result: the hits of the graph take the last places of
\* the topK; what the base found stays in its order.
Upto(s, k) == SubSeq(s, 1, Min({k, Len(s)}))
MergeHits(base, more, topK) ==
    LET supplemental ==
            Upto(SelectSeq(more, LAMBDA h : h \notin Range(base)), topK)
    IN  Upto(base, topK - Len(supplemental)) \o supplemental

-----------------------------------------------------------------------------
(* Properties.                                                             *)

\* Whatever jobs failed, and at which step, an edge is between nodes there
\* are and has evidence, and what the graph tells was told by a job that
\* completed (begin_nested in process_job).
GraphIsClosed ==
    /\ \A e \in edges : /\ e[1] \in NodeIds /\ e[2] \in NodeIds
                       /\ \E v \in evidence : v.edge = e
    /\ \A v \in evidence :
         /\ v.edge \in edges
         /\ \E j \in DOMAIN graphJobs : /\ graphJobs[j].status = "completed"
                                       /\ graphJobs[j].of = v.chunk

\* As long as every node has the key it was made with, no answer takes a name
\* from a node (_node_from_entity, _merge_node_upserts).  Once an answer has
\* given a known name another key, an entity with the old one overwrites it.
NamesAreKept == [][
    (\A n \in Range(nodes) : n.id = n.key)
      => \A n \in Range(nodes) : \E m \in Range(nodes') :
            m.id = n.id /\ NamesOf(n) \subseteq NamesOf(m)]_graphVars

\* Who a node is within d edges of.
Within(n, d) ==
    FoldLeft(LAMBDA ns, i : ns \cup UNION {{e[1], e[2]} :
                                             e \in Touching(edges, ns)},
             {n}, [i \in 1..d |-> i])

\* A neighborhood that is not marked truncated, and has not as many edges as
\* it may have, is the whole neighborhood (get_neighborhood).  One that was
\* full after a round is returned without the mark.
NeighborhoodIsWhole ==
    \A n \in NodeIds, depth \in 1..2, nodeCap, edgeCap \in 2..3 :
      LET nb == Neighborhood(n, depth, nodeCap, edgeCap)
      IN  ~nb.truncated /\ Cardinality(nb.edges) < edgeCap =>
            /\ nb.nodes = Within(n, depth)
            /\ nb.edges = Touching(edges, Within(n, depth - 1))

\* A search for a relation returns the active chunk the graph has evidence of,
\* and as much of what it found itself as there is room for, in its order
\* (merge_graph_expansion_result).
RelationHitsAreKept ==
    \A name \in Names, topK \in 1..2, base \in {<<>>, <<1>>, <<0, 1>>} :
      LET hits == MergeHits(base, SetToSeq(GraphHits(name)), topK)
      IN  /\ IsInjective(hits) /\ Len(hits) <= topK
          /\ IsPrefix(SelectSeq(hits, LAMBDA h : h \in Range(base)), base)
          /\ GraphHits(name) \subseteq Range(hits) \cup Range(base)
          /\ Len(hits) = Min({topK, Cardinality(Range(base) \cup GraphHits(name))})
=============================================================================
