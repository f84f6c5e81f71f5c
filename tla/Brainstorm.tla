----------------------------- MODULE Brainstorm -----------------------------
(***************************************************************************)
(* One brainstorm of a story (story_brainstorm_service.py): windows of     *)
(* discussion with the model, and batches of items drawn from them, which  *)
(* are edited and then submitted for processing.                           *)
(*                                                                         *)
(* The brainstorm is kept whole in the material of its latest revision.    *)
(* An operation loads it, may wait for the model, and records its next     *)
(* revision, under a material id made of the revision's number: of two     *)
(* operations on the same revision the second is refused.  The revisions   *)
(* before the latest are invalidated and not read again.                   *)
(***************************************************************************)
EXTENDS Naturals, Sequences, FiniteSets, SequencesExt

CONSTANTS
    Clients,      \* requests that may be under way at once
    Prompts,      \* bound: each is asked once
    MaxBatches,   \* bound on the batches
    MaxItems      \* bound on the items of a batch

ASSUME BrainstormBounds == IsFiniteSet(Prompts) /\ MaxItems \in Nat

VARIABLES
    brainstorm,   \* the latest revision
    call          \* client -> what it waits for the model with

brainstormVars == <<brainstorm, call>>

\* A window is open until it is flushed; of its messages the prompts matter.
Open(w) == ~w.flushed
NewWindow == [flushed |-> FALSE, talk |-> <<>>]

NoCall == [kind |-> "none"]

-----------------------------------------------------------------------------

\* The last open window, 0 when there is none.
ActiveWindow(s) ==
    LET open == {w \in DOMAIN s.windows : Open(s.windows[w])}
    IN  IF open = {} THEN 0 ELSE CHOOSE w \in open : \A v \in open : v <= w

\* The windows with one that is open.
WithActiveWindow(s) ==
    IF ActiveWindow(s) # 0 THEN s.windows ELSE Append(s.windows, NewWindow)

FlushWindow(windows, w) == [windows EXCEPT ![w].flushed = TRUE]

\* A material id that is free makes a revision; the bug: any will do.
RevisionFreeMutant(base) == TRUE
RevisionFree(base) == brainstorm.revision = base.revision

\* The next revision of what was loaded.
RecordSessionRevision(base, windows, batches) ==
    brainstorm' = [base EXCEPT !.revision = @ + 1, !.windows = windows,
                               !.batches = batches]

-----------------------------------------------------------------------------
(* The discussion.                                                         *)

\* Load the brainstorm and put a prompt to the model.
DiscussSession(c, p) ==
    /\ call[c] = NoCall
    /\ \A d \in Clients : call[d].kind = "discuss" => call[d].prompt # p
    /\ \A w \in DOMAIN brainstorm.windows :
         p \notin {brainstorm.windows[w].talk[k] :
                     k \in DOMAIN brainstorm.windows[w].talk}
    /\ ~brainstorm.closed
    /\ call' = [call EXCEPT ![c] = [kind |-> "discuss", prompt |-> p,
                                    base |-> brainstorm]]
    /\ UNCHANGED brainstorm

\* The model has answered.
Discussed(c) ==
    LET base    == call[c].base
        windows == WithActiveWindow(base)
        w       == ActiveWindow([base EXCEPT !.windows = windows])
    IN  /\ call[c].kind = "discuss"
        /\ RevisionFree(base)
        /\ RecordSessionRevision(base,
             [windows EXCEPT ![w].talk = Append(@, call[c].prompt)],
             base.batches)
        /\ call' = [call EXCEPT ![c] = NoCall]

\* Load the brainstorm and have the open window summarized.
SummarizeSession(c) ==
    LET w == ActiveWindow(brainstorm) IN
    /\ call[c] = NoCall
    /\ ~brainstorm.closed
    /\ w # 0 /\ brainstorm.windows[w].talk # <<>>
    /\ call' = [call EXCEPT ![c] = [kind |-> "summarize",
                                    base |-> brainstorm]]
    /\ UNCHANGED brainstorm

\* The window is flushed and becomes a batch of at most MaxItems items.
Summarized(c) ==
    LET base == call[c].base
        w    == ActiveWindow(base)
    IN  /\ call[c].kind = "summarize"
        /\ RevisionFree(base)
        /\ Len(base.batches) < MaxBatches
        /\ \E n \in 0..MaxItems :
             RecordSessionRevision(base, FlushWindow(base.windows, w),
               Append(base.batches,
                      [source |-> w, frozen |-> FALSE,
                       items |-> [i \in 1..n |-> [text |-> "summary",
                                                  status |-> "active"]]]))
        /\ call' = [call EXCEPT ![c] = NoCall]

\* The model fails, its answer cannot be read, or the revision it would have
\* made is taken: nothing is recorded.
CallRefused(c) ==
    /\ call[c] # NoCall
    /\ call' = [call EXCEPT ![c] = NoCall]
    /\ UNCHANGED brainstorm

\* The writing goes on: what was said so far is behind it.
ContinueWriting ==
    LET w == ActiveWindow(brainstorm) IN
    /\ w # 0 /\ brainstorm.windows[w].talk # <<>>
    /\ RecordSessionRevision(brainstorm, FlushWindow(brainstorm.windows, w),
                             brainstorm.batches)
    /\ UNCHANGED call

-----------------------------------------------------------------------------
(* The batches.                                                            *)

Editable(b) == ~brainstorm.batches[b].frozen

\* Change the items of a batch.
Edited(b, items) ==
    /\ RecordSessionRevision(brainstorm, brainstorm.windows,
                             [brainstorm.batches EXCEPT ![b].items = items])
    /\ UNCHANGED call

CreateItem(b) ==
    LET items == brainstorm.batches[b].items IN
    /\ Editable(b) /\ Len(items) < MaxItems
    /\ Edited(b, Append(items, [text |-> "own", status |-> "active"]))

\* A new text, a new status, or both; a deleted item's text is read only.
UpdateItemMutant(b, i, text, status) ==
    LET items == brainstorm.batches[b].items IN
    Edited(b, [items EXCEPT ![i] = [text |-> text, status |-> status]])

UpdateItem(b, i, text, status) ==
    LET items == brainstorm.batches[b].items IN
    /\ Editable(b)
    /\ items[i].status = "deleted" => text = items[i].text
    /\ Edited(b, [items EXCEPT ![i] = [text |-> text, status |-> status]])

\* The active items go to be processed and the batch is frozen.
SubmitBatch(b) ==
    LET batch == brainstorm.batches[b]
        items == [i \in DOMAIN batch.items |->
                    IF batch.items[i].status = "active"
                    THEN [batch.items[i] EXCEPT !.status = "pending"]
                    ELSE batch.items[i]]
    IN  /\ Editable(b)
        /\ \E i \in DOMAIN batch.items : batch.items[i].status = "active"
        /\ RecordSessionRevision(brainstorm, brainstorm.windows,
             [brainstorm.batches EXCEPT ![b].frozen = TRUE, ![b].items = items])
        /\ UNCHANGED call

CloseSession ==
    /\ brainstorm' = [brainstorm EXCEPT !.closed = TRUE, !.revision = @ + 1]
    /\ ~brainstorm.closed   \* bound: once
    /\ UNCHANGED call

BrainstormInit ==
    /\ brainstorm = [revision |-> 1, closed |-> FALSE,
                     windows |-> <<NewWindow>>, batches |-> <<>>]
    /\ call = [c \in Clients |-> NoCall]

\* Bound: how often items are edited.
MaxRevision == 4 + 2 * Cardinality(Prompts)

BrainstormNext ==
    /\ brainstorm.revision < MaxRevision
    /\ \/ \E c \in Clients : \/ \E p \in Prompts : DiscussSession(c, p)
                             \/ Discussed(c)
                             \/ SummarizeSession(c)
                             \/ Summarized(c)
                             \/ CallRefused(c)
       \/ ContinueWriting
       \/ \E b \in DOMAIN brainstorm.batches :
            \/ CreateItem(b)
            \/ \E i \in DOMAIN brainstorm.batches[b].items,
                  text \in {"summary", "own", "edited"},
                  status \in {"active", "deleted"} :
                 UpdateItem(b, i, text, status)
            \/ SubmitBatch(b)
       \/ CloseSession

BrainstormSpec == BrainstormInit /\ [][BrainstormNext]_brainstormVars

-----------------------------------------------------------------------------

Item == [text : {"summary", "own", "edited"},
         status : {"active", "deleted", "pending"}]

BrainstormTypeOK ==
    /\ brainstorm.revision \in 1..MaxRevision
    /\ brainstorm.closed \in BOOLEAN
    /\ \A w \in DOMAIN brainstorm.windows :
         /\ brainstorm.windows[w].flushed \in BOOLEAN
         /\ brainstorm.windows[w].talk \in Seq(Prompts)
    /\ \A b \in DOMAIN brainstorm.batches :
         /\ brainstorm.batches[b].source \in DOMAIN brainstorm.windows
         /\ brainstorm.batches[b].frozen \in BOOLEAN
         /\ brainstorm.batches[b].items \in SeqOf(Item, MaxItems)
    /\ \A c \in Clients : call[c].kind \in {"none", "discuss", "summarize"}

\* At most one window is open (_active_window, continue_writing).
OneOpenWindow ==
    \A v, w \in DOMAIN brainstorm.windows :
      Open(brainstorm.windows[v]) /\ Open(brainstorm.windows[w]) => v = w

\* What a batch was drawn from is said: its window is flushed, and no two
\* batches are drawn from one window (summarize_session).
WindowsAreBehind ==
    \A b \in DOMAIN brainstorm.batches :
      /\ ~Open(brainstorm.windows[brainstorm.batches[b].source])
      /\ \A d \in DOMAIN brainstorm.batches \ {b} :
           brainstorm.batches[d].source # brainstorm.batches[b].source

\* What one request was told is recorded is not taken back by another that
\* waited for the model meanwhile: windows only grow while they are open,
\* batches stay, and no step changes the talk and an older batch at once
\* (_record_session_revision).
RecordedStays ==
    LET old == brainstorm
        new == brainstorm'
    IN  /\ \A w \in DOMAIN old.windows :
             /\ w \in DOMAIN new.windows
             /\ IsPrefix(old.windows[w].talk, new.windows[w].talk)
             /\ old.windows[w].flushed => new.windows[w] = old.windows[w]
        /\ \A b \in DOMAIN old.batches :
             /\ b \in DOMAIN new.batches
             /\ new.windows # old.windows => new.batches[b] = old.batches[b]

\* What was submitted is processed as it was submitted.
SubmittedIsFrozen ==
    \A b \in DOMAIN brainstorm.batches :
      brainstorm.batches[b].frozen =>
        /\ b \in DOMAIN brainstorm'.batches
        /\ brainstorm'.batches[b] = brainstorm.batches[b]

\* Of two requests that wait for the model over one brainstorm neither takes
\* back what the other recorded, a batch is drawn from a window that is behind,
\* and what was submitted stays as it was (story_brainstorm_service.py).
NothingSaidIsLost ==
    /\ [][RecordedStays /\ SubmittedIsFrozen]_brainstormVars
    /\ [](OneOpenWindow /\ WindowsAreBehind)
=============================================================================
