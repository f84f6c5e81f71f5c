---------------------------- MODULE MCMcpManager ----------------------------
(***************************************************************************)
(* What the chat backend keeps, for TLC: the connections of the MCP        *)
(* manager, and the message tree of a conversation.                        *)
(*                                                                         *)
(* A behaviour is one of either part, the other stays as it is.            *)
(***************************************************************************)
EXTENDS McpManager, TLC

VARIABLES
    part,    \* the part that runs
    graph, thread, text, checkpoints, bound, current, shown, saving, made,
    moved, torn

Symmetry ==
    Permutations(Servers) \cup Permutations(Requests) \cup Permutations(Ids)

Tree == INSTANCE ConversationTree WITH MaxMessages <- 4, MaxCheckpoints <- 5

treeVars == <<graph, thread, text, checkpoints, bound, current, shown, saving,
              made, moved, torn>>

BackendInit ==
    /\ part \in {"mcp", "tree"} /\ Init /\ Tree!TreeInit
    /\ part = "tree" => \A s \in Servers : ~server[s].config

BackendNext ==
    /\ part' = part
    /\ \/ part = "mcp" /\ Next /\ UNCHANGED treeVars
       \/ part = "tree" /\ Tree!TreeNext /\ UNCHANGED vars

BackendSpec == BackendInit /\ [][BackendNext]_<<part, vars, treeVars>>

-----------------------------------------------------------------------------
\* The messages of a conversation form one tree under its root, no checkpoint
\* shows a removed one, and every message can be selected again, through every
\* append, edit, selection and deletion; as long as no message was sent again
\* below another one, lists of children agree with the parents and each
\* checkpoint is a chain of the tree.  Between operations the record shows
\* checkpoints that exist, unless a crash came between the two commits of one
\* (conversation_source.py).
SourceIsSound ==
    part = "tree" => /\ Tree!TreeTypeOK
                     /\ Tree!TreeIsRooted
                     /\ Tree!TreeIsSound
                     /\ Tree!CheckpointsAreChains
                     /\ Tree!NodesAreSelectable
                     /\ Tree!ShownResolves
=============================================================================
