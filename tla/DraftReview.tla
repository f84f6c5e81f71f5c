---------------------------- MODULE DraftReview ----------------------------
(***************************************************************************)
(* The review of one pending draft: comments and tracked changes anchored  *)
(* to the blocks of its text (revision_overlay_service.py, driven by       *)
(* story_runtime_controller.py), the rewrite requests built from them      *)
(* (rewrite_request_builder_service.py), the candidates a writer returns   *)
(* and their selection and adoption (rewrite_candidate_service.py,         *)
(* draft_selection_service.py).                                            *)
(*                                                                         *)
(* The records are append-only: an overlay belongs to one version of the   *)
(* text, and which overlay and which version a request is built from is    *)
(* found by the order they were created in.  Each operation is one         *)
(* transaction; a refused one, and a mere read of the surface, leave       *)
(* nothing.                                                                *)
(***************************************************************************)
EXTENDS Naturals, SequencesExt, FiniteSetsExt

CONSTANTS
    Texts,          \* what the artifact may be edited to
    BlocksOf,       \* per text: the ids of its blocks, in order
    MaxRemarks,     \* comments and tracked changes
    MaxRequests, MaxAdoptions,
    MaxReview       \* remarks, candidates and selections together

ASSUME ReviewBounds ==
    /\ MaxRemarks \in Nat
    /\ \A t \in Texts : BlocksOf[t] \in Seq(Range(BlocksOf[t]))

VARIABLES
    text,         \* content_text of the artifact
    documents,    \* the texts it was materialized from, in order
    overlays,     \* per overlay: its document and its comment and change refs
    remarks,      \* comments and tracked changes
    requests, candidates,
    selections, adoptions   \* receipts

reviewVars == <<text, documents, overlays, remarks, requests, candidates,
                selections, adoptions>>

TextBlocks(t) == ToSet(BlocksOf[t])
AllBlocks == UNION {TextBlocks(t) : t \in Texts}
RemarkIds == 1..MaxRemarks
\* The text of a block the writer replaced.
Rewritten == "rewritten"

Remark == [kind : {"comment", "change"}, block : AllBlocks,
           overlay : Nat, status : {"active", "resolved", "deleted"}]
RewriteRequest ==
    [scope : {"full", "paragraph"}, draft : Texts, targets : SUBSET AllBlocks,
     remarks : SUBSET RemarkIds]

\* Bound on what the reviewer does.
RoomInReview ==
    Len(remarks) + Len(candidates) + Len(selections) < MaxReview

ReviewTypeOK ==
    /\ text \in Texts /\ documents \in Seq(Texts)
    /\ IsInjective(documents) /\ Len(overlays) = Len(documents)
    /\ \A i \in DOMAIN overlays :
         overlays[i] \in [draft : Texts, refs : SUBSET RemarkIds]
    /\ remarks \in Seq(Remark)
    /\ \A i \in DOMAIN remarks : remarks[i].overlay \in DOMAIN overlays
    /\ requests \in Seq(RewriteRequest)
    /\ \A i \in DOMAIN candidates :
         /\ candidates[i].request \in DOMAIN requests
         /\ candidates[i].text \in Seq(AllBlocks \cup {Rewritten})
    /\ \A i \in DOMAIN selections :
         selections[i] \in [candidate : DOMAIN candidates, cleared : BOOLEAN]
    /\ \A i \in DOMAIN adoptions :
         /\ adoptions[i].candidate \in DOMAIN candidates
         /\ adoptions[i].selection \in 0..Len(selections)

ReviewInit ==
    /\ text \in Texts
    /\ documents = <<>> /\ overlays = <<>> /\ remarks = <<>>
    /\ requests = <<>> /\ candidates = <<>>
    /\ selections = <<>> /\ adoptions = <<>>

\* record_draft_document: a text that was materialized before is not again.
DocumentsNow ==
    IF text \in ToSet(documents) THEN documents ELSE Append(documents, text)

\* Wrong: each change of the review has its own overlay.
OverlaysNowMutant == Append(overlays, [draft |-> text, refs |-> {}])
\* create_or_update_overlay: one overlay per document.
OverlaysNow ==
    IF \E i \in DOMAIN overlays : overlays[i].draft = text THEN overlays
    ELSE Append(overlays, [draft |-> text, refs |-> {}])

OverlayNow == CHOOSE i \in DOMAIN OverlaysNow : OverlaysNow[i].draft = text

\* _ensure_revision_overlay: first in every change of the review.
EnsureOverlay(os) == documents' = DocumentsNow /\ overlays' = os

ActiveRemarks(o) ==
    {r \in overlays[o].refs : remarks[r].status = "active"}

-----------------------------------------------------------------------------
\* update_revision_draft_artifact.
EditDraft(t) ==
    /\ text' = t
    /\ UNCHANGED <<documents, overlays, remarks, requests, candidates,
                   selections, adoptions>>

\* add_revision_comment, add_revision_tracked_change: on a block of the text
\* as it stands.
AddRemark(kind, block) ==
    /\ Len(remarks) < MaxRemarks /\ RoomInReview /\ block \in TextBlocks(text)
    /\ remarks' = Append(remarks, [kind |-> kind, block |-> block,
                                   overlay |-> OverlayNow, status |-> "active"])
    /\ EnsureOverlay([OverlaysNow EXCEPT
                        ![OverlayNow].refs = @ \cup {Len(remarks')}])
    /\ UNCHANGED <<text, requests, candidates, selections, adoptions>>

\* resolve_revision_comment, delete_revision_comment: any comment of the
\* turn, whatever became of it before.
SettleComment(r, status) ==
    /\ remarks[r].kind = "comment"
    /\ remarks' = [remarks EXCEPT ![r].status = status]
    /\ EnsureOverlay(OverlaysNow)
    /\ UNCHANGED <<text, requests, candidates, selections, adoptions>>

\* find_draft_document_by_ref: the document created last.
LatestDocument == Last(documents)
\* Wrong: the overlay of the first document.
OverlayForDraftMutant == 1
\* find_overlay_for_draft_ref: the last of the overlays in creation order.
OverlayForDraft == Len(overlays)

\* Wrong: remarks that are settled are still sent.
RecordsOfMutant(refs) == refs
\* _resolve_revision_records refuses a remark that is not active.
RecordsOf(refs) == refs \cap ActiveRemarks(OverlayForDraft)

AddRequest(request) ==
    /\ requests' = Append(requests, request)
    /\ UNCHANGED <<text, documents, overlays, remarks, candidates,
                   selections, adoptions>>

\* build_review_overlay_sections, for a turn that rewrites the pending draft:
\* everything active in the overlay, if anything is.
RequestFull ==
    /\ Len(requests) < MaxRequests /\ overlays # <<>>
    /\ ActiveRemarks(OverlayForDraft) # {}
    /\ AddRequest([scope |-> "full", draft |-> LatestDocument, targets |-> {},
                   remarks |-> RecordsOf(overlays[OverlayForDraft].refs)])

Positions(blocks, t) == {i \in DOMAIN BlocksOf[t] : BlocksOf[t][i] \in blocks}

\* _require_records_within_target_scope.
InScope(t, targets, refs) ==
    \A r \in refs : \/ remarks[r].block \in targets
                    \/ TextBlocks(t) = {remarks[r].block}

\* build_paragraph_rewrite_request: a contiguous run of blocks.
RequestParagraph(targets, refs) ==
    LET t == LatestDocument
        at == Positions(targets, t)
    IN  /\ Len(requests) < MaxRequests /\ overlays # <<>>
        /\ targets # {} /\ targets \subseteq TextBlocks(t)
        /\ at = Min(at)..Max(at)
        /\ refs = RecordsOf(refs) /\ InScope(t, targets, refs)
        /\ AddRequest([scope |-> "paragraph", draft |-> t,
                       targets |-> targets, remarks |-> refs])

AddCandidate(candidate) ==
    /\ RoomInReview
    /\ candidates' = Append(candidates, candidate)
    /\ UNCHANGED <<text, documents, overlays, remarks, requests,
                   selections, adoptions>>

\* create_full_rewrite_candidate.
CandidateFull(q) ==
    /\ requests[q].scope = "full"
    /\ AddCandidate([request |-> q, text |-> <<Rewritten>>])

\* _compose_paragraph_candidate_text.
Composed(t, replaced) ==
    [i \in DOMAIN BlocksOf[t] |->
       IF BlocksOf[t][i] \in replaced THEN Rewritten ELSE BlocksOf[t][i]]

\* Wrong: the patch is laid over whatever the draft is by now.
PatchFitsMutant(request, replaced) == replaced = request.targets
\* _require_draft and _require_patch_targets: the document is still the
\* latest, and the writer replaced the targets and nothing else.
PatchFits(request, replaced) ==
    request.draft = LatestDocument /\ replaced = request.targets

\* create_paragraph_rewrite_candidate; replaced: the blocks the writer
\* answered with.
CandidateParagraph(q, replaced) ==
    /\ requests[q].scope = "paragraph" /\ PatchFits(requests[q], replaced)
    /\ AddCandidate([request |-> q, text |-> Composed(LatestDocument, replaced)])

\* select_candidate among some of the candidates.
SelectCandidate(c) ==
    /\ RoomInReview
    /\ selections' = Append(selections, [candidate |-> c, cleared |-> FALSE])
    /\ UNCHANGED <<text, documents, overlays, remarks, requests, candidates,
                   adoptions>>

\* Wrong: a clearing is passed over, to the selection it cleared.
ActiveSelectionMutant ==
    Max({0} \cup {s \in DOMAIN selections : ~selections[s].cleared})
\* get_active_selection: the latest receipt, unless it is a clearing.
ActiveSelection ==
    IF selections = <<>> \/ Last(selections).cleared THEN 0 ELSE Len(selections)

ClearSelection ==
    /\ RoomInReview /\ ActiveSelection # 0
    /\ selections' = Append(selections,
         [selections[ActiveSelection] EXCEPT !.cleared = TRUE])
    /\ UNCHANGED <<text, documents, overlays, remarks, requests, candidates,
                   adoptions>>

AddAdoption(c, s) ==
    /\ Len(adoptions) < MaxAdoptions
    /\ adoptions' = Append(adoptions,
         [candidate |-> c, selection |-> s, choices |-> Len(candidates)])
    /\ UNCHANGED <<text, documents, overlays, remarks, requests, candidates,
                   selections>>

\* adopt_for_continue: the one the user names, ...
AdoptNamed(c) == AddAdoption(c, 0)
\* ... else the only one, ...
AdoptOnly == Len(candidates) = 1 /\ AddAdoption(1, 0)
\* ... else the selected one.
AdoptSelected ==
    /\ Len(candidates) > 1 /\ ActiveSelection # 0
    /\ AddAdoption(selections[ActiveSelection].candidate, ActiveSelection)

ReviewNext ==
    \/ \E t \in Texts : EditDraft(t)
    \/ \E kind \in {"comment", "change"}, block \in AllBlocks :
         AddRemark(kind, block)
    \/ \E r \in DOMAIN remarks, status \in {"resolved", "deleted"} :
         SettleComment(r, status)
    \/ RequestFull
    \/ \E targets \in SUBSET AllBlocks, refs \in SUBSET DOMAIN remarks :
         RequestParagraph(targets, refs)
    \/ \E q \in DOMAIN requests : CandidateFull(q)
    \/ \E q \in DOMAIN requests, replaced \in SUBSET AllBlocks :
         CandidateParagraph(q, replaced)
    \/ \E c \in DOMAIN candidates : SelectCandidate(c) \/ AdoptNamed(c)
    \/ ClearSelection \/ AdoptOnly \/ AdoptSelected

ReviewSpec == ReviewInit /\ [][ReviewNext]_reviewVars

-----------------------------------------------------------------------------
\* What a writer is told to change, the draft it is given contains: the
\* document and the overlay of a request are found separately, and belong to
\* the same version of the text however it was edited to and fro.
RequestsKeepAnchors ==
    \A q \in DOMAIN requests : \A r \in requests[q].remarks :
      remarks[r].block \in TextBlocks(requests[q].draft)

\* A request carries no remark the reviewer had settled when it was built.
SettledIsNotSent ==
    Len(requests') > Len(requests) =>
      \A r \in Last(requests').remarks : remarks[r].status = "active"

\* A patch changes the blocks it was asked to change and nothing else, in the
\* draft it was asked for, and answers only remarks on those blocks.
PatchesStayInTarget ==
    \A c \in DOMAIN candidates :
      LET q == requests[candidates[c].request]
          whole == BlocksOf[q.draft]
      IN  q.scope = "paragraph" =>
            /\ Len(candidates[c].text) = Len(whole)
            /\ \A i \in DOMAIN whole :
                 candidates[c].text[i] =
                   IF whole[i] \in q.targets THEN Rewritten ELSE whole[i]
            /\ Len(whole) > 1 =>
                 \A r \in q.remarks : remarks[r].block \in q.targets

\* Where there is a choice, nothing is adopted that the user did not choose
\* last: a selection that was cleared or replaced is never continued from.
LastChoiceIsAdopted ==
    Len(adoptions') > Len(adoptions) =>
      LET a == Last(adoptions')
      IN  a.selection # 0 =>
            /\ a.selection = Len(selections)
            /\ ~selections[a.selection].cleared
            /\ selections[a.selection].candidate = a.candidate

\* A rewrite request keeps the anchors its comments had when it was built, the
\* patch that answers it touches no block outside its target, though the draft
\* and its overlay move on, a comment that was settled is not sent to the
\* writer again, and of several choices the last one is adopted
\* (rewrite_packet_constraint_service.py, draft_selection_service.py).
ReviewIsFaithful ==
    /\ [](RequestsKeepAnchors /\ PatchesStayInTarget)
    /\ [][SettledIsNotSent /\ LastChoiceIsAdopted]_reviewVars
=============================================================================
