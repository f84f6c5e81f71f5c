-------------------------- MODULE ConversationTree --------------------------
(***************************************************************************)
(* The source thread of one conversation (conversation_source.py): a tree  *)
(* of messages with a selected branch, and beside it immutable             *)
(* checkpoints, each the message list up to one message.  An operation     *)
(* loads both, changes them, and saves them in two commits: the tree with  *)
(* its checkpoints first, then the conversation record that says which     *)
(* checkpoint is shown.  A crash can fall between the two.                 *)
(*                                                                         *)
(* Clients choose the ids of their messages.  One that the tree has is     *)
(* hung below the message it is sent at, and its old parent lists it       *)
(* still: parents make a tree, lists of children may meet again.  Where    *)
(* an operation would go round a cycle it fails or never ends, and saves   *)
(* nothing.                                                                *)
(***************************************************************************)
EXTENDS Naturals, SequencesExt

CONSTANTS
    MaxMessages,     \* messages are 1..MaxMessages in the order of writing
    MaxCheckpoints   \* checkpoints are 1..MaxCheckpoints likewise

VARIABLES
    graph,        \* the source graph record exists
    thread,       \* its tree
    text,         \* per node: 0 as written, 1 edited
    checkpoints,  \* newest first
    bound,        \* checkpoint_by_message_id
    current,      \* current_message_id
    shown,        \* of the conversation record: selected and latest checkpoint
    saving,       \* what the operation under way has yet to write to it
    made,         \* how many messages and checkpoints were ever made
    moved,        \* a message of the tree was sent again below another one
    torn          \* a crash has left the record behind the tree, and no
                  \* operation has written both of its fields to one since

treeVars == <<graph, thread, text, checkpoints, bound, current, shown, saving,
              made, moved, torn>>

Messages == 1..MaxMessages
MaybeMessage == 0..MaxMessages
MaybeCheckpoint == 0..MaxCheckpoints
Shown == [selected : MaybeCheckpoint, latest : MaybeCheckpoint]
Nothing == [selected |-> 0, latest |-> 0]

Nodes(t) == DOMAIN t.parent
EmptyTree == [root |-> 0, parent |-> <<>>, kids |-> <<>>, picked |-> <<>>]

TreeTypeOK ==
    /\ {graph, moved, torn} \subseteq BOOLEAN
    /\ thread.root \in MaybeMessage
    /\ thread.parent \in [Nodes(thread) -> MaybeMessage]
    /\ thread.kids \in [Nodes(thread) -> Seq(Messages)]
    /\ DOMAIN thread.picked \cup Range(thread.picked) \subseteq Messages
    /\ text \in [Nodes(thread) -> {0, 1}]
    /\ \A i \in DOMAIN checkpoints :
         checkpoints[i] \in [id : 1..MaxCheckpoints,
                             list : Seq(Messages \X {0, 1})]
    /\ DOMAIN bound \subseteq Messages /\ Range(bound) \subseteq Nat
    /\ current \in MaybeMessage /\ shown \in Shown
    /\ saving \in [on : BOOLEAN, record : Shown]
    /\ made \in [messages : MaybeMessage, checkpoints : MaybeCheckpoint]

-----------------------------------------------------------------------------
\* The tree.

\* build_chain_to: the messages from the root down to m.
PathTo(t, m) ==
    LET path[x \in Nodes(t)] ==
          IF t.parent[x] = 0 THEN <<x>> ELSE Append(path[t.parent[x]], x)
    IN  path[m]

\* The child the selected branch takes at x: the picked one, else the last.
Pick(t, x) ==
    IF x \in DOMAIN t.picked /\ t.picked[x] \in Range(t.kids[x])
      THEN t.picked[x] ELSE Last(t.kids[x])

\* The selected branch below x, until it ends or has come round.
Down(t, x) ==
    LET way[n \in 1..Cardinality(Nodes(t))] ==
          IF n = 1 THEN <<x>>
          ELSE LET sofar == way[n - 1]
                   last == Last(sofar)
               IN  IF t.kids[last] = <<>> THEN sofar
                                          ELSE Append(sofar, Pick(t, last))
    IN  way[Cardinality(Nodes(t))]

\* resolve_selected_leaf keeps the way it took.
SelectedBranch(t) == IF Nodes(t) = {} THEN <<>> ELSE Down(t, t.root)

SelectedLeaf(t) == IF Nodes(t) = {} THEN 0 ELSE Last(SelectedBranch(t))

\* The selected branch ends: normalize does.
Settles(t) == Nodes(t) = {} \/ t.kids[SelectedLeaf(t)] = <<>>

\* normalize: a root there is, picks that lead nowhere go, those of the branch
\* are filled in.
Normalized(t) ==
    LET rooted == [t EXCEPT !.root = IF @ \in Nodes(t) THEN @ ELSE Min(Nodes(t))]
        sound == {x \in DOMAIN t.picked \cap Nodes(t) :
                    t.picked[x] \in Range(t.kids[x])}
        inner == {x \in Range(SelectedBranch(rooted)) : t.kids[x] # <<>>}
    IN  IF Nodes(t) = {} THEN EmptyTree
        ELSE [rooted EXCEPT !.picked = [x \in sound \cup inner |-> Pick(t, x)]]

\* What the children's lists lead to from S, in n steps each.
Reached(t, S) ==
    LET at[n \in 0..Cardinality(Nodes(t))] ==
          IF n = 0 THEN S ELSE UNION {Range(t.kids[x]) : x \in at[n - 1]}
    IN  at

\* They lead into no cycle: a visit of all there is below S ends.
Ends(t, S) == Reached(t, S)[Cardinality(Nodes(t))] = {}

\* select_path_to_node
SelectPath(t, m) ==
    LET path == PathTo(t, m)
        steps == [x \in {path[i] : i \in 1..(Len(path) - 1)} |->
                    path[1 + CHOOSE i \in DOMAIN path : path[i] = x]]
    IN  Normalized([t EXCEPT !.picked = steps @@ @])

\* m is a child of p, from now on if it is another's.
Attached(t, p, m) ==
    IF m \in Nodes(t)
    THEN [t EXCEPT !.parent[m] = p,
                   !.kids[p] = IF m \in Range(@) THEN @ ELSE Append(@, m)]
    ELSE [t EXCEPT !.parent = @ @@ (m :> p),
                   !.kids = [@ EXCEPT ![p] = Append(@, m)] @@ (m :> <<>>)]

\* append_child_and_select: the path to p is selected, then m below it.
WithChild(t, p, m) ==
    IF p = 0
      THEN [root |-> m, parent |-> (m :> 0), kids |-> (m :> <<>>),
            picked |-> <<>>]
      ELSE LET picked == SelectPath(Attached(t, p, m), p)
           IN  Normalized([picked EXCEPT !.picked = (p :> m) @@ @])

\* It ends: m is neither p nor above it, and no branch that it selects on its
\* way comes round.
Appends(t, p, m) ==
    p # 0 => /\ m \notin Range(PathTo(t, p))
             /\ Settles(SelectPath(Attached(t, p, m), p))
             /\ Settles(WithChild(t, p, m))

\* The tree on the nodes of live alone.
Cut(t, live) ==
    [t EXCEPT !.parent = [x \in live |-> @[x]],
              !.kids = [x \in live |-> SelectSeq(@[x], LAMBDA y : y \in live)],
              !.picked = [x \in DOMAIN @ \cap live |-> @[x]]]

\* remove_node for a root with several children: the picked one, else the
\* first, becomes the root, and all that the others' lists lead to goes.
CutRoot(t, m) ==
    LET heir == IF m \in DOMAIN t.picked /\ t.picked[m] \in Range(t.kids[m])
                  THEN t.picked[m] ELSE Head(t.kids[m])
        others == UNION Range(Reached(t, Range(t.kids[m]) \ {heir}))
        raised == [t EXCEPT !.root = heir, !.parent[heir] = 0]
    IN  Normalized(Cut(raised, Nodes(t) \ (others \cup {m})))

\* remove_node otherwise: what m lists takes its place.
Promote(t, m) ==
    LET p == t.parent[m]
        listed == Range(t.kids[m])
        raised == [x \in Nodes(t) |-> IF x \in listed THEN p ELSE t.parent[x]]
        Place(s) == LET i == SelectInSeq(s, LAMBDA x : x = m)
                    IN  SubSeq(s, 1, i - 1) \o t.kids[m] \o SubSeq(s, i + 1, Len(s))
        kids == [x \in Nodes(t) |->
                   IF x = p THEN Place(t.kids[x]) ELSE t.kids[x]]
        picked == IF p \in DOMAIN t.picked /\ t.picked[p] = m /\ t.kids[m] # <<>>
                    THEN [t.picked EXCEPT ![p] = Head(t.kids[m])] ELSE t.picked
        root == IF p # 0 THEN t.root
                ELSE IF t.kids[m] = <<>> THEN 0 ELSE Head(t.kids[m])
    IN  Normalized(Cut([root |-> root, parent |-> raised, kids |-> kids,
                        picked |-> picked], Nodes(t) \ {m}))

LosesBranches(t, m) == t.parent[m] = 0 /\ Len(t.kids[m]) > 1

WithoutNode(t, m) == IF LosesBranches(t, m) THEN CutRoot(t, m) ELSE Promote(t, m)

Preorder(t) ==
    LET visit[x \in Nodes(t)] ==
          <<x>> \o FlattenSeq([i \in DOMAIN t.kids[x] |-> visit[t.kids[x][i]]])
    IN  IF Nodes(t) = {} THEN <<>> ELSE visit[t.root]

-----------------------------------------------------------------------------
\* The checkpoints.  cs is the list, newest first.

LastMessage(c) == Last(c.list)[1]
Resolves(cs, id) == \E i \in DOMAIN cs : cs[i].id = id
Get(cs, id) == cs[CHOOSE i \in DOMAIN cs : cs[i].id = id]

\* New checkpoints for the prefixes of list longer than n, the longest first.
Extended(cs, next, list, n) ==
    Reverse([i \in 1..(Len(list) - n) |->
               [id |-> next + i, list |-> SubSeq(list, 1, n + i)]]) \o cs

\* _ensure_checkpoint_for_messages: the longest prefix that has a checkpoint
\* is kept, the rest are made.
Held(cs, list) ==
    {n \in 1..Len(list) :
       \E i \in DOMAIN cs : cs[i].list = SubSeq(list, 1, n)}
Ensured(cs, next, list) == Extended(cs, next, list, Max(Held(cs, list) \cup {0}))
\* The newest checkpoint with exactly these messages, 0 if there is none.
IdOf(cs, list) ==
    LET i == SelectInSeq(cs, LAMBDA c : c.list = list)
    IN  IF i = 0 THEN 0 ELSE cs[i].id

\* What the tree shows down to m.
Chain(t, tx, m) ==
    LET path == PathTo(t, m) IN [i \in DOMAIN path |-> <<path[i], tx[path[i]]>>]

\* _checkpoint_id_for_message
CheckpointOf(m) ==
    IF m \in DOMAIN bound /\ Resolves(checkpoints, bound[m]) THEN bound[m]
    ELSE LET i == SelectInSeq(checkpoints, LAMBDA c : LastMessage(c) = m)
         IN  IF i = 0 THEN 0 ELSE checkpoints[i].id

\* _normalize_current_message_id, applied whenever the graph is loaded.
Current == IF current \in Nodes(thread) THEN current ELSE SelectedLeaf(thread)

-----------------------------------------------------------------------------
\* The operations.  Each saves the graph and says what record it will write.

\* _load_state fails for a record that shows checkpoints of no graph.
Loads == ~saving.on /\ (graph \/ shown = Nothing)

SaveGraph(t, tx, cs, b, cur, record) ==
    /\ made'.checkpoints <= MaxCheckpoints
    /\ graph' = TRUE /\ thread' = t /\ text' = tx
    /\ checkpoints' = cs /\ bound' = b /\ current' = cur
    /\ saving' = [on |-> TRUE, record |-> record]
    /\ UNCHANGED <<shown, torn>>

Record(id, select) ==
    [selected |-> IF select THEN id ELSE shown.selected, latest |-> id]

\* append_messages with one message, as the client sends it, new or again: at
\* list, whose last message is p.
AppendAt(list, p, m, select) ==
    LET id == made.checkpoints + 1
    IN  /\ m \in Nodes(thread) \cup {made.messages + 1}
        /\ IF p = 0 THEN Nodes(thread) = {} ELSE p \in Nodes(thread)
        /\ id <= MaxCheckpoints /\ Appends(thread, p, m)
        /\ made' = [messages |-> IF m \in Nodes(thread) THEN made.messages ELSE m,
                    checkpoints |-> id]
        /\ moved' = (moved \/ (m \in Nodes(thread) /\ thread.parent[m] # p))
        /\ SaveGraph(WithChild(thread, p, m), (m :> 0) @@ text,
                     <<[id |-> id, list |-> Append(list, <<m, 0>>)]>>
                       \o checkpoints,
                     (m :> id) @@ bound, IF select THEN m ELSE Current,
                     Record(id, select))

\* There is no base: nothing is shown, or the client says so.
AppendFirst(m, select) == Loads /\ AppendAt(<<>>, 0, m, select)

\* The base is a checkpoint: the selected one, or another if the client says so.
AppendToCheckpoint(id, m, select) ==
    /\ Loads /\ Resolves(checkpoints, id)
    /\ LET c == Get(checkpoints, id) IN AppendAt(c.list, LastMessage(c), m, select)

\* The base is a message: its checkpoint, or the chain of the tree.
AppendToMessage(p, m, select) ==
    /\ Loads /\ p \in Nodes(thread)
    /\ LET c == CheckpointOf(p)
       IN  AppendAt(IF c = 0 THEN Chain(thread, text, p)
                             ELSE Get(checkpoints, c).list, p, m, select)

\* patch_message: the edited message and those after it in the base, which is
\* the selected checkpoint or another, get new checkpoints; other branches keep
\* theirs.
PatchMessage(m, id, select) ==
    /\ Loads /\ m \in Nodes(thread) /\ text[m] = 0
    /\ Resolves(checkpoints, id)
    /\ LET old == Get(checkpoints, id).list
           k == SelectInSeq(old, LAMBDA e : e[1] = m)
           new == [old EXCEPT ![k] = <<m, 1>>]
           cs == Ensured(checkpoints, made.checkpoints, SubSeq(old, 1, k - 1))
           next == made.checkpoints + Len(cs) - Len(checkpoints)
           all == Extended(cs, next, new, k - 1)
           last == Last(new)[1]
       IN  /\ k # 0
           /\ select => Settles(SelectPath(thread, last))
           /\ moved' = moved
           /\ made' = [made EXCEPT !.checkpoints = next + Len(new) - k + 1]
           /\ SaveGraph(IF select THEN SelectPath(thread, last) ELSE thread,
                        [text EXCEPT ![m] = 1], all,
                        [x \in {new[i][1] : i \in k..Len(new)} |->
                           next + 1 - k
                             + Max({i \in k..Len(new) : new[i][1] = x})]
                          @@ bound,
                        IF select THEN last ELSE Current,
                        Record(made'.checkpoints, select))

\* Wrong: a checkpoint goes only with its last message.
UnprunedMutant(t) ==
    SelectSeq(checkpoints, LAMBDA c :
      LastMessage(c) \in Nodes(t))

\* _prune_checkpoints: what is left shows no removed message.
Unpruned(t) ==
    SelectSeq(checkpoints, LAMBDA c :
      \A i \in DOMAIN c.list : c.list[i][1] \in Nodes(t))

\* Wrong: nothing is rebuilt.
RebuiltMutant(cs, t, tx) == cs

\* _rebuild_current_checkpoint_bindings: in preorder, a checkpoint for the
\* chain of every node that has none.
Rebuilt(cs, t, tx) ==
    LET order == Preorder(t)
        chain == [x \in Range(order) |-> Chain(t, tx, x)]
        Add(ds, x) == Ensured(ds, made.checkpoints + Len(ds) - Len(cs), chain[x])
        upTo[i \in 0..Len(order)] ==
          IF i = 0 THEN cs ELSE Add(upTo[i - 1], order[i])
    IN  upTo[Len(order)]

\* What a deletion shows next: the current message, and the selected leaf.
RecordAfter(t, b, cur) ==
    LET Of(x) == IF x \in DOMAIN b THEN b[x] ELSE 0
    IN  [selected |-> Of(cur), latest |-> Of(SelectedLeaf(t))]

\* delete_message: checkpoints that show a removed message go, and every node
\* that is visited is bound to a checkpoint of its chain.
DeleteMessage(m) ==
    /\ Loads /\ m \in Nodes(thread) /\ moved' = moved
    /\ LosesBranches(thread, m) => Ends(thread, {m})
    /\ \E t \in {u \in {WithoutNode(thread, m)} : Ends(u, {u.root} \cap Nodes(u))} :
         LET tx == [x \in Nodes(t) |-> text[x]]
             kept == Unpruned(t)
             cur == IF Current \in Nodes(t) THEN Current ELSE SelectedLeaf(t)
         IN  \E cs \in {Rebuilt(kept, t, tx)} :
               LET b == [x \in Range(Preorder(t)) |-> IdOf(cs, Chain(t, tx, x))]
               IN  /\ made' = [made EXCEPT !.checkpoints =
                                 @ + Len(cs) - Len(kept)]
                   /\ SaveGraph(t, tx, cs, b, cur, RecordAfter(t, b, cur))

\* select_checkpoint by message.
SelectMessage(m) ==
    /\ Loads /\ m \in Nodes(thread) /\ CheckpointOf(m) # 0
    /\ Settles(SelectPath(thread, m))
    /\ UNCHANGED <<made, moved>>
    /\ SaveGraph(SelectPath(thread, m), text, checkpoints, bound, m,
                 [shown EXCEPT !.selected = CheckpointOf(m)])

\* select_checkpoint by checkpoint.
SelectCheckpoint(id) ==
    /\ Loads /\ Resolves(checkpoints, id)
    /\ UNCHANGED <<made, moved>>
    /\ LET m == LastMessage(Get(checkpoints, id))
       IN  /\ m \in Nodes(thread) => Settles(SelectPath(thread, m))
           /\ SaveGraph(IF m \in Nodes(thread) THEN SelectPath(thread, m)
                                               ELSE thread,
                        text, checkpoints, bound, m,
                        [shown EXCEPT !.selected = id])

\* clear_source deletes the graph without loading it.
ClearSource ==
    /\ ~saving.on /\ graph
    /\ graph' = FALSE /\ thread' = EmptyTree /\ text' = <<>>
    /\ checkpoints' = <<>> /\ bound' = <<>> /\ current' = 0 /\ moved' = FALSE
    /\ saving' = [on |-> TRUE, record |-> Nothing]
    /\ UNCHANGED <<shown, made, torn>>

\* The same request after a crash: the graph is gone, the record is not.
ClearAgain ==
    /\ ~saving.on /\ ~graph /\ shown # Nothing
    /\ saving' = [on |-> TRUE, record |-> Nothing]
    /\ UNCHANGED <<graph, thread, text, checkpoints, bound, current, shown,
                   made, moved, torn>>

\* The second commit of an operation.
SaveRecord ==
    /\ saving.on
    /\ shown' = saving.record
    /\ saving' = [on |-> FALSE, record |-> Nothing]
    /\ torn' = (torn /\ saving.record.selected # saving.record.latest)
    /\ UNCHANGED <<graph, thread, text, checkpoints, bound, current, made,
                   moved>>

TreeCrash ==
    /\ saving.on
    /\ saving' = [on |-> FALSE, record |-> Nothing]
    /\ torn' = TRUE
    /\ UNCHANGED <<graph, thread, text, checkpoints, bound, current, shown,
                   made, moved>>

TreeInit ==
    /\ graph = FALSE /\ thread = EmptyTree /\ text = <<>>
    /\ checkpoints = <<>> /\ bound = <<>> /\ current = 0
    /\ shown = Nothing /\ saving = [on |-> FALSE, record |-> Nothing]
    /\ made = [messages |-> 0, checkpoints |-> 0] /\ moved = FALSE /\ torn = FALSE

\* What a client can name: the checkpoints there are, and the messages of the
\* tree, or a new one to send.
Listed == {checkpoints[i].id : i \in DOMAIN checkpoints}
Sendable == Nodes(thread) \cup (Messages \cap {made.messages + 1})

TreeNext ==
    \/ /\ Loads
       /\ \/ \E select \in BOOLEAN :
               \/ \E m \in Sendable :
                    \/ AppendFirst(m, select)
                    \/ \E p \in Nodes(thread) : AppendToMessage(p, m, select)
                    \/ \E id \in Listed : AppendToCheckpoint(id, m, select)
               \/ \E m \in Nodes(thread), id \in Listed : PatchMessage(m, id, select)
          \/ \E m \in Nodes(thread) : DeleteMessage(m) \/ SelectMessage(m)
          \/ \E id \in Listed : SelectCheckpoint(id)
    \/ ClearSource \/ ClearAgain \/ SaveRecord \/ TreeCrash

TreeSpec == TreeInit /\ [][TreeNext]_treeVars

-----------------------------------------------------------------------------
\* Every message but the root has a parent that lists it, up to the root,
\* whatever was sent again: no edit of the tree cuts off what it keeps.
TreeIsRooted ==
    Nodes(thread) # {} =>
      /\ thread.root \in Nodes(thread) /\ thread.parent[thread.root] = 0
      /\ \A x \in Nodes(thread) \ {thread.root} :
           /\ thread.parent[x] \in Nodes(thread)
           /\ x \in Range(thread.kids[thread.parent[x]])
           /\ thread.root \in Range(PathTo(thread, x))

\* As long as no message was sent again below another one, parents and children
\* agree, nothing is listed twice, and a visit from the root comes to every
\* message once.
TreeIsSound ==
    ~moved =>
      /\ \A x \in Nodes(thread) :
           /\ \A y \in Nodes(thread) :
                y \in Range(thread.kids[x]) <=> thread.parent[y] = x
           /\ IsInjective(thread.kids[x])
      /\ Range(Preorder(thread)) = Nodes(thread)
      /\ Len(Preorder(thread)) = Cardinality(Nodes(thread))

\* No checkpoint shows a removed message; and as long as none was sent again
\* below another one, every checkpoint is a chain of the tree as it is now.
CheckpointsAreChains ==
    \A i \in DOMAIN checkpoints :
      LET list == checkpoints[i].list
      IN  /\ \A k \in DOMAIN list : list[k][1] \in Nodes(thread)
          /\ ~moved => [k \in DOMAIN list |-> list[k][1]]
                         = PathTo(thread, LastMessage(checkpoints[i]))

\* Every message can be selected: it has a checkpoint that ends in it, also
\* after a crash between the two commits.
NodesAreSelectable ==
    \A m \in Nodes(thread) :
      CheckpointOf(m) # 0 /\ LastMessage(Get(checkpoints, CheckpointOf(m))) = m

\* Between operations the record shows checkpoints that exist, and the
\* selected one ends in the current message.
ShownResolves ==
    ~saving.on /\ ~torn =>
      /\ \A id \in {shown.selected, shown.latest} \ {0} : Resolves(checkpoints, id)
      /\ shown.selected # 0 =>
           LastMessage(Get(checkpoints, shown.selected)) = current
=============================================================================
