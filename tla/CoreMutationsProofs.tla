------------------------ MODULE CoreMutationsProofs -------------------------
(***************************************************************************)
(* Inv is an invariant of CoreMutations, for every set of branches,        *)
(* objects and proposals, every number of turns, every use of the two      *)
(* switches and every choice of channels and bases.                        *)
(***************************************************************************)
EXTENDS CoreMutations, CoreStateProofs

-----------------------------------------------------------------------------
(* The invariant, state by state.                                          *)

\* A state that may be committed.
Healthy(c) ==
    /\ Solid(c)
    /\ \A p \in Proposals : Once(c, p)
    /\ \A p \in Proposals :
         c.prop[p].status # "absent" => c.prop[p].target \in Objects

Midway == {"receipted", "written", "recorded"}

LEMMA InvMeans ==
  ASSUME Inv
  PROVE  /\ Healthy(core) /\ Healthy(save) /\ Solid(work)
         /\ req.pc \notin Midway => Healthy(work)
         /\ \A p \in Proposals :
              work.prop[p].status # "absent" => work.prop[p].target \in Objects
  BY DEF Inv, TypeOK, Sound, Healthy, Solid, Midway

\* A proposal that is not applied has no receipt.
LEMMA NotAppliedIsBare ==
  ASSUME NEW c, Healthy(c), NEW p \in Proposals, ~ Applied(c, p)
  PROVE  c.prop[p].receipts = <<>>
  BY DEF Healthy, Once

\* A commit, or a step that makes a new session: everything is one healthy
\* state.
LEMMA CommittedInv ==
  ASSUME story' \in Store, Healthy(core'), work' = core', save' = core',
         req' \in RequestState, req'.pc = "idle"
  PROVE  Inv'
<1>1. TypeOK' BY DEF TypeOK, Healthy, Solid
<1>2. Sound' BY DEF Sound, Healthy, Solid
<1>3. OnItsWay' BY DEF OnItsWay, Applying
<1>4. Keeps(core', core') BY KeepsReflexive DEF Healthy, Solid
<1> QED BY <1>1, <1>2, <1>3, <1>4 DEF Inv

LEMMA IdleTyped == Idle \in RequestState
  BY DEF Idle, RequestState, PC, Channel, NoRevision, Value, View

\* Commit(c) and Committed(s, c) of a healthy state.
LEMMA CommitInv ==
  ASSUME Inv, NEW c, Healthy(c), Commit(c)
  PROVE  Inv'
<1>1. story' \in Store BY DEF Commit, Inv, TypeOK
<1>2. req' \in RequestState /\ req'.pc = "idle" BY IdleTyped DEF Commit, Idle
<1> QED BY <1>1, <1>2, CommittedInv DEF Commit

LEMMA StoryInv ==
  ASSUME Inv, NEW s \in Store, NEW c, Healthy(c), Committed(s, c)
  PROVE  Inv'
<1>1. req' \in RequestState /\ req'.pc = "idle" BY DEF Committed, Inv, TypeOK
<1> QED BY <1>1, CommittedInv DEF Committed

\* Adding history alone keeps a healthy state healthy.
LEMMA GrownHealthy ==
  ASSUME NEW c, NEW d, Healthy(c), Grown(d, c)
  PROVE  Healthy(d)
  BY DEF Healthy, Grown, Once, Applied

\* A proposal submitted, or marked as failed, leaves the state healthy.
LEMMA ProposedHealthy ==
  ASSUME NEW c, Healthy(c), NEW p \in Proposals, c.prop[p].status = "absent",
         NEW st \in {"pending", "review_required"},
         NEW o \in Objects, NEW t \in TurnRef, NEW base \in Nat
  PROVE  /\ Healthy(Proposed(c, p, st, o, t, base))
         /\ Keeps(Proposed(c, p, st, o, t, base), c)
         /\ Proposed(c, p, st, o, t, base).prop[p].status = st
<1> DEFINE d == Proposed(c, p, st, o, t, base)
<1>1. c.prop[p].receipts = <<>> BY NotAppliedIsBare DEF Applied
<1>2. st \in ProposalStatus BY DEF ProposalStatus
<1>3. /\ Solid(d) /\ Keeps(d, c)
      /\ d.prop[p] = [status |-> st, target |-> o, turn |-> t, base |-> base,
                      receipts |-> <<>>]
      /\ \A q \in Proposals \ {p} : d.prop[q] = c.prop[q]
  BY <1>1, <1>2, ProposedSolid DEF Healthy
<1>4. /\ d.prop[p].status = st /\ d.prop[p].target = o
      /\ d.prop[p].receipts = <<>>
  BY <1>3
<1> HIDE DEF d
<1>5. \A q \in Proposals : Once(d, q)
  <2>1. Once(d, p) BY <1>4 DEF Once, Applied
  <2>2. \A q \in Proposals \ {p} : Once(d, q) BY <1>3 DEF Healthy, Once, Applied
  <2> QED BY <2>1, <2>2
<1>6. \A q \in Proposals : d.prop[q].status # "absent" => d.prop[q].target \in Objects
  BY <1>3, <1>4 DEF Healthy
<1>7. Healthy(d) BY <1>3, <1>5, <1>6 DEF Healthy
<1> QED BY <1>3, <1>4, <1>7 DEF d

LEMMA FailedHealthy ==
  ASSUME NEW c, Healthy(c), NEW p \in Proposals,
         c.prop[p].status \notin {"absent", "applied"}
  PROVE  Healthy(Marked(c, p, "failed")) /\ Keeps(Marked(c, p, "failed"), c)
<1> DEFINE d == Marked(c, p, "failed")
<1>1. c.prop[p] \in Proposal BY CoreFields DEF Healthy, Solid
<1>2. c.prop[p].receipts = <<>> BY NotAppliedIsBare DEF Applied
<1>3. "failed" \in ProposalStatus BY DEF ProposalStatus
<1>4. /\ Solid(d) /\ Keeps(d, c)
      /\ d.prop[p] = [c.prop[p] EXCEPT !.status = "failed"]
      /\ \A q \in Proposals \ {p} : d.prop[q] = c.prop[q]
  BY <1>3, MarkedSolid DEF Healthy
<1>5. /\ d.prop[p].status = "failed" /\ d.prop[p].target = c.prop[p].target
      /\ d.prop[p].receipts = <<>>
  BY <1>1, <1>2, <1>4 DEF Proposal
<1> HIDE DEF d
<1>6. \A q \in Proposals : Once(d, q)
  <2>1. Once(d, p) BY <1>5 DEF Once, Applied
  <2>2. \A q \in Proposals \ {p} : Once(d, q) BY <1>4 DEF Healthy, Once, Applied
  <2> QED BY <2>1, <2>2
<1>7. \A q \in Proposals : d.prop[q].status # "absent" => d.prop[q].target \in Objects
  BY <1>4, <1>5 DEF Healthy
<1>8. Healthy(d) BY <1>4, <1>6, <1>7 DEF Healthy
<1> QED BY <1>4, <1>8 DEF d

-----------------------------------------------------------------------------
(* Submission.                                                             *)

LEMMA SubmitInv ==
  ASSUME Inv, NEW ch \in Channels, NEW p \in Proposals, NEW o \in Objects,
         NEW t \in TurnRef, NEW base \in Bases, Submit(ch, p, o, t, base)
  PROVE  Inv'
<1> DEFINE d == Proposed(work, p, "pending", o, t, base)
<1>1. /\ req.pc \in {"idle", "routed"} /\ work.prop[p].status = "absent"
      /\ work' = d /\ core' = core /\ save' = save /\ story' = story
      /\ req' = [Idle EXCEPT !.pc = "submitted", !.ch = ch, !.p = p]
  BY DEF Submit, MaySubmit, Flush
<1>2. Healthy(work) BY <1>1, InvMeans DEF Midway
<1>3. base \in Nat /\ ch \in Channel BY InputAssumption
<1>4. Healthy(d) /\ Keeps(d, work) /\ d.prop[p].status = "pending"
  BY <1>1, <1>2, <1>3, ProposedHealthy
<1> HIDE DEF d
<1>5. req' \in RequestState /\ req'.pc = "submitted" /\ req'.p = p
  BY <1>1, <1>3, IdleTyped DEF Idle, RequestState, PC
<1>6. Healthy(core) /\ Healthy(save) BY InvMeans
<1>7. TypeOK' BY <1>1, <1>4, <1>5 DEF Inv, TypeOK, Healthy, Solid
<1>8. Sound' BY <1>1, <1>4, <1>5, <1>6 DEF Sound, Healthy, Solid
<1>9. OnItsWay' BY <1>1, <1>4, <1>5 DEF OnItsWay, Applying, InHand
<1>10. Keeps(work', core') /\ Keeps(save', core')
  BY <1>1, <1>2, <1>4, <1>6, KeepsTransitive DEF Inv, Healthy, Solid
<1> QED BY <1>7, <1>8, <1>9, <1>10 DEF Inv

LEMMA SubmitForReviewInv ==
  ASSUME Inv, NEW ch, NEW p \in Proposals, NEW o \in Objects, NEW base \in Bases,
         SubmitForReview(ch, p, o, base)
  PROVE  Inv'
<1>1. base \in Nat /\ NoTurn \in TurnRef
  BY InputAssumption, MaxTurnsAssumption DEF NoTurn, TurnRef
<1>2. Healthy(Proposed(core, p, "review_required", o, NoTurn, base))
  BY <1>1, InvMeans, ProposedHealthy DEF SubmitForReview
<1> QED BY <1>2, CommitInv DEF SubmitForReview

LEMMA ApplyReviewedInv ==
  ASSUME Inv, NEW p \in Proposals, ApplyReviewed(p)
  PROVE  Inv'
<1>1. /\ req.pc = "idle" /\ core.prop[p].status \notin {"absent", "applied"}
      /\ req' = [Idle EXCEPT !.pc = "submitted", !.ch = "review", !.p = p]
      /\ story' = story /\ core' = core /\ work' = work /\ save' = save
  BY DEF ApplyReviewed
<1>2. work = core BY <1>1 DEF Inv, OnItsWay
<1>3. req' \in RequestState /\ req'.pc = "submitted" /\ req'.p = p
  BY <1>1, IdleTyped DEF Idle, RequestState, PC, Channel
<1>4. Healthy(core) /\ Healthy(save) BY InvMeans
<1>5. TypeOK' BY <1>1, <1>3 DEF Inv, TypeOK
<1>6. Sound' BY <1>1, <1>2, <1>3, <1>4 DEF Sound, Healthy, Solid
<1>7. OnItsWay' BY <1>1, <1>2, <1>3 DEF OnItsWay, Applying, InHand
<1>8. Keeps(work', core') /\ Keeps(save', core') BY <1>1 DEF Inv
<1> QED BY <1>5, <1>6, <1>7, <1>8 DEF Inv

-----------------------------------------------------------------------------
(* apply_proposal.                                                         *)

\* A step of the request touches its work, and a step of apply_proposal
\* after the first changes the program counter alone besides.
LEMMA RequestFields ==
  ASSUME Inv
  PROVE  /\ req.ch \in Channel /\ req.rev \in Nat /\ req.before \in Value
         /\ req.after \in View
         /\ Writes(req.ch) \in BOOLEAN
  BY SwitchAssumption DEF Inv, TypeOK, RequestState, Writes

LEMMA GotoTyped ==
  ASSUME Inv, NEW pc \in PC, Goto(pc)
  PROVE  /\ req' \in RequestState /\ req'.pc = pc
         /\ req'.p = req.p /\ req'.ch = req.ch /\ req'.rev = req.rev
  BY DEF Inv, TypeOK, RequestState, Goto

LEMMA LoadInv ==
  ASSUME Inv, Load
  PROVE  Inv'
<1> DEFINE p == req.p
           o == Target(work, p)
           c == Loaded(story, work, p, Leads(req.ch))
           before == BeforeView(c, p, Leads(req.ch))
           n == NextRevision(c, p, Writes(req.ch))
           after == [before EXCEPT ![Target(c, p)] = @ \cup {p}]
<1>1. /\ req.pc = "submitted" /\ Resolvable(c, p)
      /\ story' = story /\ core' = core /\ save' = work /\ work' = c
      /\ req' = [req EXCEPT !.pc = "loaded", !.rev = n,
                            !.before = before[Target(c, p)], !.after = after]
  BY DEF Load
<1>2. Healthy(work) /\ Healthy(core) /\ Solid(work) BY <1>1, InvMeans DEF Midway
<1>3. InHand(work) /\ p \in Proposals /\ o \in Objects
  BY <1>1, <1>2 DEF Inv, OnItsWay, InHand, Healthy, Target
<1>4. Grown(c, work) BY <1>2, <1>3, LoadedGrown DEF Target
<1>5. Healthy(c) /\ Solid(c) /\ Keeps(c, work) /\ c.prop = work.prop
  BY <1>2, <1>4, GrownHealthy DEF Grown
<1>6. Target(c, p) = o BY <1>5 DEF Target
<1> HIDE DEF c
<1>7. before \in [Objects -> Value]
  BY <1>1, <1>3, <1>5, <1>6, BeforeViewTyped DEF Target
<1>8. /\ n \in Nat
      /\ Writes(req.ch) => n = c.row[o].rev + 1
  BY <1>3, <1>5, <1>6, NextRevisionTyped DEF Target
<1> HIDE DEF before, n
<1>9. after \in View /\ before[o] \in Value
  BY <1>3, <1>6, <1>7 DEF View, Value
<1> HIDE DEF after
<1>10. /\ req' \in RequestState
       /\ req'.pc = "loaded" /\ req'.p = p /\ req'.ch = req.ch /\ req'.rev = n
  BY <1>1, <1>6, <1>8, <1>9 DEF Inv, TypeOK, RequestState, PC
<1>11. TypeOK' BY <1>1, <1>2, <1>5, <1>10 DEF Inv, TypeOK, Solid
<1>12. Sound' BY <1>1, <1>2, <1>5, <1>10 DEF Sound, Healthy, Solid
<1>13. OnItsWay'
  <2>1. InHand(work)' /\ InHand(save)' BY <1>1, <1>3, <1>5, <1>10 DEF InHand
  <2>2. Writes(req.ch)' => req'.rev = work'.row[Target(work', req'.p)].rev + 1
    BY <1>1, <1>6, <1>8, <1>10 DEF Writes
  <2> QED BY <2>1, <2>2, <1>10 DEF OnItsWay, Applying
<1>14. Keeps(work', core') /\ Keeps(save', core')
  BY <1>1, <1>2, <1>5, KeepsTransitive DEF Inv, Solid, Healthy
<1> QED BY <1>11, <1>12, <1>13, <1>14 DEF Inv

\* Refuse and Fail: what was in hand is marked in a healthy state that
\* keeps the committed history.
LEMMA MarkFailedInv ==
  ASSUME Inv, NEW c, Healthy(c), InHand(c), Keeps(c, core),
         Flush(Marked(c, req.p, "failed")), Goto("failed")
  PROVE  Inv'
<1> DEFINE d == Marked(c, req.p, "failed")
<1>1. Healthy(d) /\ Keeps(d, c) BY FailedHealthy DEF InHand
<1>2. work' = d /\ core' = core /\ save' = save /\ story' = story BY DEF Flush
<1> HIDE DEF d
<1>3. req' \in RequestState /\ req'.pc = "failed" BY GotoTyped DEF PC
<1>4. Healthy(core) /\ Healthy(save) BY InvMeans
<1>5. TypeOK' BY <1>1, <1>2, <1>3 DEF Inv, TypeOK, Healthy, Solid
<1>6. Sound' BY <1>1, <1>2, <1>3, <1>4 DEF Sound, Healthy, Solid
<1>7. OnItsWay' BY <1>3 DEF OnItsWay, Applying
<1>8. Keeps(work', core') /\ Keeps(save', core')
  BY <1>1, <1>2, <1>4, KeepsTransitive DEF Inv, Healthy, Solid
<1> QED BY <1>5, <1>6, <1>7, <1>8 DEF Inv

LEMMA RefuseInv ==
  ASSUME Inv, Refuse
  PROVE  Inv'
<1>1. req.pc = "submitted" BY DEF Refuse
<1>2. Healthy(work) BY <1>1, InvMeans DEF Midway
<1>3. InHand(work) /\ Keeps(work, core) BY <1>1 DEF Inv, OnItsWay
<1> QED BY <1>2, <1>3, MarkFailedInv DEF Refuse

LEMMA FailInv ==
  ASSUME Inv, Fail
  PROVE  Inv'
<1>1. req.pc \in Applying BY DEF Fail, Applying
<1>2. Healthy(save) BY InvMeans
<1>3. InHand(save) /\ Keeps(save, core) BY <1>1 DEF Inv, OnItsWay
<1> QED BY <1>2, <1>3, MarkFailedInv DEF Fail

\* The steps of apply_proposal after its first: work becomes d, which is
\* solid, has the proposals of work but for what is said of the one in hand,
\* and the number stays what it has to be.
LEMMA MidwayInv ==
  ASSUME Inv, req.pc \in Applying, NEW pc \in Midway, Goto(pc),
         NEW d, Flush(d), Solid(d), Keeps(d, work),
         \A q \in Proposals \ {req.p} : d.prop[q] = work.prop[q],
         d.prop[req.p].status = work.prop[req.p].status,
         d.prop[req.p].target = work.prop[req.p].target,
         Len(d.prop[req.p].receipts) = 1,
         pc = "receipted" /\ Writes(req.ch)
           => req.rev = d.row[d.prop[req.p].target].rev + 1,
         pc = "written" /\ Writes(req.ch)
           => req.rev = Len(d.revs[d.prop[req.p].target])
  PROVE  Inv'
<1>1. work' = d /\ core' = core /\ save' = save /\ story' = story BY DEF Flush
<1>2. /\ req' \in RequestState /\ req'.pc = pc /\ req'.p = req.p
      /\ req'.ch = req.ch /\ req'.rev = req.rev
  BY GotoTyped DEF Midway, PC
<1>3. Healthy(core) /\ Healthy(save) /\ Solid(work) BY InvMeans
<1>4. InHand(work) /\ InHand(save) BY DEF Inv, OnItsWay
<1>5. TypeOK' BY <1>1, <1>2 DEF Inv, TypeOK, Solid
<1>6. Sound'
  <2>1. \A q \in Proposals \ {req.p} : Once(work, q)
    BY DEF Inv, Sound
  <2>2. \A q \in Proposals \ {req.p} : Once(d, q)
    BY <2>1 DEF Once, Applied
  <2>3. \A q \in Proposals : d.prop[q].status # "absent" => d.prop[q].target \in Objects
    BY InvMeans
  <2> QED BY <2>2, <2>3, <1>1, <1>2, <1>3 DEF Sound, Healthy, Solid, Midway
<1>7. OnItsWay'
  <2>1. InHand(work)' /\ InHand(save)' BY <1>1, <1>2, <1>4 DEF InHand
  <2>2. Writes(req.ch)' = Writes(req.ch) BY <1>2 DEF Writes
  <2> QED BY <2>1, <2>2, <1>1, <1>2 DEF OnItsWay, Applying, Midway, Target
<1>8. Keeps(work', core') /\ Keeps(save', core')
  BY <1>1, <1>3, KeepsTransitive DEF Inv, Healthy, Solid
<1> QED BY <1>5, <1>6, <1>7, <1>8 DEF Inv

LEMMA ReceiptInv ==
  ASSUME Inv, Receipt
  PROVE  Inv'
<1> DEFINE p == req.p
           o == work.prop[p].target
           c == IF Leads(req.ch) THEN work ELSE [work EXCEPT !.mirror = req.after]
           w == Writes(req.ch)
           d == Receipted(c, p, req.rev, w)
<1>1. req.pc = "loaded" /\ Flush(d) /\ Goto("receipted") BY DEF Receipt
<1>2. Healthy(work) /\ Solid(work) BY <1>1, InvMeans DEF Midway
<1>3. InHand(work) /\ p \in Proposals /\ o \in Objects
  BY <1>1, <1>2 DEF Inv, OnItsWay, Applying, InHand, Healthy
<1>4. work.prop[p].receipts = <<>>
  BY <1>2, <1>3, NotAppliedIsBare DEF InHand, Applied
<1>5. req.after \in [Objects -> Value] /\ req.rev \in Nat /\ w \in BOOLEAN
  BY RequestFields DEF View
<1>6. Solid(c) /\ Keeps(c, work) /\ c.prop = work.prop /\ SameStore(c, work)
  <2>1. CASE Leads(req.ch)
    BY <2>1, <1>2, KeepsReflexive DEF Solid, SameStore
  <2>2. CASE ~ Leads(req.ch)
    BY <2>2, <1>2, <1>5, MirrorGrown DEF Grown
  <2> QED BY <2>1, <2>2
<1> HIDE DEF c, w
<1>7. /\ Solid(d) /\ Keeps(d, c) /\ SameStore(d, c)
      /\ OneMoreReceipt(d, c, p, req.rev, w)
  BY <1>3, <1>5, <1>6, ReceiptedSolid
<1>8. /\ d.prop[p].status = work.prop[p].status
      /\ d.prop[p].target = work.prop[p].target
      /\ Len(d.prop[p].receipts) = 1
  <2>1. d.prop[p].receipts = Append(<<>>, [rev |-> req.rev, stored |-> w])
    BY <1>4, <1>6, <1>7 DEF OneMoreReceipt
  <2>2. Len(d.prop[p].receipts) = 1 BY <2>1
  <2> QED BY <2>2, <1>6, <1>7 DEF OneMoreReceipt
<1> HIDE DEF d
<1>9. Keeps(d, work) BY <1>2, <1>6, <1>7, KeepsTransitive DEF Solid
<1>10. \A q \in Proposals \ {p} : d.prop[q] = work.prop[q]
  BY <1>6, <1>7 DEF OneMoreReceipt
<1>11. Writes(req.ch) => req.rev = d.row[d.prop[p].target].rev + 1
  <2>1. d.row = work.row BY <1>6, <1>7 DEF SameStore
  <2> QED BY <2>1, <1>1, <1>8 DEF Inv, OnItsWay, Target
<1>12. req.pc \in Applying /\ "receipted" \in Midway
  BY <1>1 DEF Applying, Midway
<1> QED BY <1>1, <1>7, <1>8, <1>9, <1>10, <1>11, <1>12, MidwayInv

\* In the middle of apply_proposal the one receipt of the proposal in hand
\* has been written.
LEMMA MidwayMeans ==
  ASSUME Inv, req.pc \in Midway
  PROVE  /\ Solid(work) /\ Keeps(work, work) /\ req.p \in Proposals
         /\ work.prop[req.p].target \in Objects
         /\ Len(work.prop[req.p].receipts) = 1
         /\ req.pc \in Applying
<1>1. req.pc \in Applying BY DEF Midway, Applying
<1>2. InHand(work) BY <1>1 DEF Inv, OnItsWay
<1>3. Solid(work) BY InvMeans
<1>4. Len(work.prop[req.p].receipts) = 1
  BY <1>2 DEF Inv, Sound, Midway, InHand
<1> QED BY <1>1, <1>2, <1>3, <1>4, InvMeans, KeepsReflexive DEF InHand, Solid

LEMMA WriteStoreInv ==
  ASSUME Inv, WriteStore
  PROVE  Inv'
<1> DEFINE p == req.p
           o == work.prop[p].target
           after == req.after[o]
           d == IF Writes(req.ch)
                THEN Mutated(work, p, req.rev, req.before, after) ELSE work
<1>1. req.pc = "receipted" /\ Flush(d) /\ Goto("written")
  BY DEF WriteStore, Target
<1>2. /\ Solid(work) /\ Keeps(work, work) /\ p \in Proposals /\ o \in Objects
      /\ Len(work.prop[p].receipts) = 1 /\ req.pc \in Applying
  BY <1>1, MidwayMeans DEF Midway
<1>3. req.rev \in Nat /\ after \in Value
  BY <1>2, RequestFields DEF View
<1>4. /\ Solid(d) /\ Keeps(d, work) /\ d.prop = work.prop
      /\ Writes(req.ch) => req.rev = Len(d.revs[o])
  <2>1. CASE Writes(req.ch)
    <3>1. d = Mutated(work, p, req.rev, req.before, after) BY <2>1
    <3>2. req.rev = work.row[o].rev + 1
      BY <2>1, <1>1 DEF Inv, OnItsWay, Target
    <3> HIDE DEF d, after
    <3>3. Grown(Mutated(work, p, req.rev, req.before, after), work)
      BY <3>2, <1>2, <1>3, MutatedGrown
    <3>4. RowNumber(d, o, req.rev) BY <3>1, <3>2, <1>2, <1>3, MutatedNumber
    <3>5. Len(d.revs[o]) = d.row[o].rev
      BY <3>1, <3>3, <1>2, RowLength DEF Grown
    <3> QED BY <3>1, <3>3, <3>4, <3>5 DEF Grown, RowNumber
  <2>2. CASE ~ Writes(req.ch) BY <2>2, <1>2
  <2> QED BY <2>1, <2>2
<1> HIDE DEF d
<1>5. "written" \in Midway BY DEF Midway
<1> QED BY <1>1, <1>2, <1>4, <1>5, MidwayInv

LEMMA RecordInv ==
  ASSUME Inv, Record
  PROVE  Inv'
<1> DEFINE p == req.p
           o == work.prop[p].target
           t == work.prop[p].turn
           d == IF Writes(req.ch) /\ Pinned(work, p)
                THEN RecordMutation(story, work, t, o, req.rev) ELSE work
<1>1. req.pc = "written" /\ Flush(d) /\ Goto("recorded")
  BY DEF Record, Target
<1>2. /\ Solid(work) /\ Keeps(work, work) /\ p \in Proposals /\ o \in Objects
      /\ Len(work.prop[p].receipts) = 1 /\ req.pc \in Applying
  BY <1>1, MidwayMeans DEF Midway
<1>3. Solid(d) /\ Keeps(d, work) /\ d.prop = work.prop
  <2>1. CASE Writes(req.ch) /\ Pinned(work, p)
    <3>1. d = RecordMutation(story, work, t, o, req.rev) BY <2>1
    <3>2. t \in Turns BY <2>1, <1>2, PinnedTurnTyped DEF Solid
    <3>3. req.rev = Len(work.revs[o])
      BY <2>1, <1>1 DEF Inv, OnItsWay, Target
    <3>4. req.rev \in Nat BY RequestFields
    <3>5. req.rev <= Len(work.revs[o]) BY <3>3, <3>4
    <3> HIDE DEF d
    <3>6. Grown(d, work) BY <3>1, <3>2, <3>4, <3>5, <1>2, RecordMutationGrown
    <3> QED BY <3>6 DEF Grown
  <2>2. CASE ~ (Writes(req.ch) /\ Pinned(work, p)) BY <2>2, <1>2
  <2> QED BY <2>1, <2>2
<1> HIDE DEF d
<1>4. "recorded" \in Midway BY DEF Midway
<1> QED BY <1>1, <1>2, <1>3, <1>4, MidwayInv

LEMMA FinishInv ==
  ASSUME Inv, Finish
  PROVE  Inv'
<1> DEFINE p == req.p
           c == IF Leads(req.ch) THEN [work EXCEPT !.mirror = req.after] ELSE work
           d == Marked(c, p, "applied")
<1>1. req.pc = "recorded" /\ Flush(d) /\ Goto("routed") BY DEF Finish
<1>2. /\ Solid(work) /\ Keeps(work, work) /\ p \in Proposals
      /\ work.prop[p].target \in Objects
      /\ Len(work.prop[p].receipts) = 1
  BY <1>1, MidwayMeans DEF Midway
<1>3. Solid(c) /\ Keeps(c, work) /\ c.prop = work.prop
  <2>1. CASE Leads(req.ch)
    BY <2>1, <1>2, RequestFields, MirrorGrown DEF Grown, View
  <2>2. CASE ~ Leads(req.ch) BY <2>2, <1>2
  <2> QED BY <2>1, <2>2
<1> HIDE DEF c
<1>4. "applied" \in ProposalStatus BY DEF ProposalStatus
<1>5. /\ Solid(d) /\ Keeps(d, c)
      /\ d.prop[p] = [c.prop[p] EXCEPT !.status = "applied"]
      /\ \A q \in Proposals \ {p} : d.prop[q] = c.prop[q]
  BY <1>2, <1>3, <1>4, MarkedSolid
<1> HIDE DEF d
<1>6. /\ d.prop[p].status = "applied"
      /\ d.prop[p].target = work.prop[p].target
      /\ d.prop[p].receipts = work.prop[p].receipts
  <2>1. work.prop[p] \in Proposal BY <1>2, CoreFields DEF Solid
  <2> QED BY <2>1, <1>3, <1>5 DEF Proposal
<1>7. Healthy(d)
  <2>1. Once(d, p)
    <3>1. Len(d.prop[p].receipts) = 1 BY <1>2, <1>6
    <3>2. d.prop[p].receipts # <<>>
      <4>1. Len(<<>>) = 0 OBVIOUS
      <4> SUFFICES ASSUME d.prop[p].receipts = <<>> PROVE FALSE OBVIOUS
      <4>2. Len(d.prop[p].receipts) = Len(<<>>) OBVIOUS
      <4> QED BY <3>1, <4>1, <4>2
    <3>3. Len(d.prop[p].receipts) <= 1 BY <3>1
    <3>4. Applied(d, p) BY <1>6 DEF Applied
    <3> QED BY <3>2, <3>3, <3>4 DEF Once
  <2>2. \A q \in Proposals \ {p} : Once(work, q) BY DEF Inv, Sound
  <2>3. \A q \in Proposals \ {p} : Once(d, q)
    BY <2>2, <1>3, <1>5 DEF Once, Applied
  <2>4. \A q \in Proposals : d.prop[q].status # "absent" => d.prop[q].target \in Objects
    BY <1>2, <1>3, <1>5, <1>6, InvMeans
  <2> QED BY <2>1, <2>3, <2>4, <1>5 DEF Healthy
<1>8. Keeps(d, work) BY <1>2, <1>3, <1>5, KeepsTransitive DEF Solid
<1>9. req' \in RequestState /\ req'.pc = "routed" BY <1>1, GotoTyped DEF PC
<1>10. work' = d /\ core' = core /\ save' = save /\ story' = story
  BY <1>1 DEF Flush
<1>11. Healthy(core) /\ Healthy(save) BY InvMeans
<1>12. TypeOK' BY <1>7, <1>9, <1>10 DEF Inv, TypeOK, Healthy, Solid
<1>13. Sound' BY <1>7, <1>9, <1>10, <1>11 DEF Sound, Healthy, Solid
<1>14. OnItsWay' BY <1>9 DEF OnItsWay, Applying
<1>15. Keeps(work', core') /\ Keeps(save', core')
  BY <1>2, <1>7, <1>8, <1>10, <1>11, KeepsTransitive DEF Inv, Healthy, Solid
<1> QED BY <1>12, <1>13, <1>14, <1>15 DEF Inv

LEMMA EndInv ==
  ASSUME Inv, EndApplied \/ EndFailed \/ Crash
  PROVE  Inv'
<1>1. Healthy(core) BY InvMeans
<1>2. req.pc \in {"routed", "failed"} => Healthy(work) BY InvMeans DEF Midway
<1>3. CASE Commit(core) BY <1>1, <1>3, CommitInv
<1>4. CASE req.pc \in {"routed", "failed"} /\ Commit(work)
  BY <1>2, <1>4, CommitInv
<1> QED BY <1>3, <1>4 DEF EndApplied, EndFailed, Crash, Discard

-----------------------------------------------------------------------------
(* Turns and branches.                                                     *)

LEMMA TurnsInv ==
  ASSUME Inv, \/ \E reads \in BOOLEAN : TakeTurn(reads)
              \/ \E t \in Turns, b \in Branches : ForkBranch(t, b)
              \/ \E b \in Branches : SwitchBranch(b)
              \/ \E t \in Turns : RollbackToTurn(t)
  PROVE  Inv'
<1>1. story \in Store /\ story.active \in Branches
  BY StoreFields DEF Inv, TypeOK
<1>2. Healthy(core) BY InvMeans
<1>3. ASSUME NEW reads \in BOOLEAN, TakeTurn(reads) PROVE Inv'
  <2> DEFINE t == story.turns + 1
             s == Settle(CreateTurn(story, story.active, TurnCommand(reads)), t)
             c == IF reads THEN EnsureManifest(s, core, t) ELSE core
  <2>1. story.turns < MaxTurns /\ Committed(s, c) BY <1>3 DEF TakeTurn
  <2>2. t \in Turns BY <1>1, <2>1, TurnIds
  <2>3. s \in Store
    BY <1>1, <2>1, <2>2, CreateTurnTyped, SettleTyped
  <2> HIDE DEF s, t
  <2>4. Healthy(c)
    <3>1. CASE reads
      <4>1. Grown(EnsureManifest(s, core, t), core)
        BY <1>2, <2>2, EnsureManifestGrown DEF Healthy
      <4> QED BY <3>1, <4>1, <1>2, GrownHealthy
    <3>2. CASE ~ reads BY <3>2, <1>2
    <3> QED BY <3>1, <3>2
  <2> QED BY <2>1, <2>3, <2>4, StoryInv
<1>4. ASSUME NEW t \in Turns, NEW b \in Branches, ForkBranch(t, b) PROVE Inv'
  <2>1. Fork(story, t, b) \in Store
    BY <1>1, SettleAdoptedTyped, ForkFromTyped DEF Fork
  <2> QED BY <2>1, <1>2, <1>4, StoryInv DEF ForkBranch
<1>5. ASSUME NEW b \in Branches, SwitchBranch(b) PROVE Inv'
  <2>1. Switch(story, b) \in Store BY <1>1, SwitchDeleteTyped
  <2> QED BY <2>1, <1>2, <1>5, StoryInv DEF SwitchBranch
<1>6. ASSUME NEW t \in Turns, RollbackToTurn(t) PROVE Inv'
  <2>1. Rollback(story, t) \in Store
    BY <1>1, SettleAdoptedTyped, RollbackToTyped DEF Rollback
  <2> QED BY <2>1, <1>2, <1>6, StoryInv DEF RollbackToTurn
<1> QED BY <1>3, <1>4, <1>5, <1>6

-----------------------------------------------------------------------------
(* The theorems.                                                           *)

LEMMA InitInv == Init => Inv
<1> SUFFICES ASSUME Init PROVE Inv OBVIOUS
<1>1. story \in Store BY FreshTyped DEF Init
<1>2. req = Idle /\ req \in RequestState /\ req.pc = "idle"
  BY IdleTyped DEF Init, Idle
<1>3. Solid(EmptyCore)
  <2>1. \A o \in Objects : EmptyCore.row[o].rev = 0 /\ EmptyCore.revs[o] = <<>>
    BY DEF EmptyCore, NoRow, NoRevision
  <2>2. EmptyCore.mans = <<>> /\ \A t \in Turns : EmptyCore.bound[t] = 0
    BY DEF EmptyCore, NoManifest
  <2>3. RowsAreNewest(EmptyCore) BY <2>1 DEF RowsAreNewest
  <2>4. MapsResolve(EmptyCore) BY <2>2 DEF MapsResolve
  <2> QED BY <2>3, <2>4, EmptyTyped DEF Solid
<1>4. Healthy(EmptyCore)
  <2>1. \A p \in Proposals : EmptyCore.prop[p] = NoProposal BY DEF EmptyCore
  <2>2. NoProposal.status = "absent" /\ NoProposal.receipts = <<>>
    BY DEF NoProposal
  <2> QED BY <1>3, <2>1, <2>2 DEF Healthy, Once, Applied
<1>5. Healthy(SeedRows(EmptyCore))
  <2>1. ~ HasRows(EmptyCore) BY DEF HasRows, EmptyCore, NoRow
  <2>2. Grown(SeedRows(EmptyCore), EmptyCore) BY <2>1, <1>3, SeedRowsGrown
  <2> QED BY <2>2, <1>4, GrownHealthy
<1>6. Healthy(core) /\ work = core /\ save = core
  BY <1>4, <1>5 DEF Init
<1>7. TypeOK BY <1>1, <1>2, <1>6 DEF TypeOK, Healthy, Solid
<1>8. Sound BY <1>2, <1>6 DEF Sound, Healthy, Solid
<1>9. OnItsWay BY <1>2, <1>6 DEF OnItsWay, Applying
<1>10. Keeps(core, core) BY <1>6, KeepsReflexive DEF Healthy, Solid
<1> QED BY <1>6, <1>7, <1>8, <1>9, <1>10 DEF Inv

LEMMA NextInv == Inv /\ [Next]_vars => Inv'
<1> SUFFICES ASSUME Inv, [Next]_vars PROVE Inv' OBVIOUS
<1>1. CASE \E ch \in Channels, p \in Proposals, o \in Objects,
              t \in TurnRef, base \in Bases : Submit(ch, p, o, t, base)
  BY <1>1, SubmitInv
<1>2. CASE \E ch \in Channels, p \in Proposals, o \in Objects,
              base \in Bases : SubmitForReview(ch, p, o, base)
  BY <1>2, SubmitForReviewInv
<1>3. CASE \E p \in Proposals : ApplyReviewed(p) BY <1>3, ApplyReviewedInv
<1>4. CASE Apply
  BY <1>4, LoadInv, RefuseInv, ReceiptInv, WriteStoreInv, RecordInv,
     FinishInv, FailInv DEF Apply
<1>5. CASE EndApplied \/ EndFailed \/ Crash BY <1>5, EndInv
<1>6. CASE \/ \E reads \in BOOLEAN : TakeTurn(reads)
           \/ \E t \in Turns, b \in Branches : ForkBranch(t, b)
           \/ \E b \in Branches : SwitchBranch(b)
           \/ \E t \in Turns : RollbackToTurn(t)
  BY <1>6, TurnsInv
<1>7. CASE UNCHANGED vars
  BY <1>7 DEF vars, Inv, TypeOK, Sound, OnItsWay, InHand, Writes
<1> QED BY <1>1, <1>2, <1>3, <1>4, <1>5, <1>6, <1>7 DEF Next

\* Every reachable state satisfies Inv: the committed state, the work of the
\* request under way and its savepoint are sound, and the number the request
\* carries through apply_proposal stays the next one.
THEOREM CoreSound == Spec => []Inv
  BY InitInv, NextInv, PTL DEF Spec

\* All values keep their types.
THEOREM CoreTypeCorrect == Spec => []TypeOK
<1>1. Inv => TypeOK BY DEF Inv
<1> QED BY <1>1, CoreSound, PTL

\* A proposal has its one receipt exactly when it is applied.
THEOREM AppliedOnlyOnce == Spec => []AppliedOnce
<1>1. Inv => AppliedOnce BY DEF Inv, Sound, AppliedOnce
<1> QED BY <1>1, CoreSound, PTL

\* The current row of an object is its newest revision.
THEOREM RowAlwaysNewest == Spec => []RowIsNewest
<1>1. Inv => RowIsNewest BY DEF Inv, Sound, RowIsNewest
<1> QED BY <1>1, CoreSound, PTL

\* Manifests name revisions, and turns are bound to manifests, that exist.
THEOREM ManifestsAlwaysResolve == Spec => []ManifestsResolve
<1>1. Inv => ManifestsResolve BY DEF Inv, Sound, ManifestsResolve
<1> QED BY <1>1, CoreSound, PTL

\* What is committed keeps the committed history: it is the work of the
\* request, which keeps it, or the committed state with a proposal or a
\* manifest added.
LEMMA CommitKeeps ==
  ASSUME Inv, [Next]_vars
  PROVE  Keeps(core', core)
<1>1. Healthy(core) /\ core \in Core /\ Keeps(core, core)
  BY InvMeans, KeepsReflexive DEF Healthy, Solid
<1>2. Keeps(work, core) BY DEF Inv
<1>3. CASE core' = core \/ core' = work BY <1>1, <1>2, <1>3
<1>4. CASE \E ch \in Channels, p \in Proposals, o \in Objects,
              base \in Bases : SubmitForReview(ch, p, o, base)
  <2>1. PICK ch \in Channels, p \in Proposals, o \in Objects, base \in Bases :
             SubmitForReview(ch, p, o, base)
    BY <1>4
  <2>2. base \in Nat /\ NoTurn \in TurnRef
    BY InputAssumption, MaxTurnsAssumption DEF NoTurn, TurnRef
  <2>3. core' = Proposed(core, p, "review_required", o, NoTurn, base)
        /\ core.prop[p].status = "absent"
    BY <2>1 DEF SubmitForReview, Commit
  <2> QED BY <2>2, <2>3, <1>1, ProposedHealthy
<1>5. CASE \E reads \in BOOLEAN : TakeTurn(reads)
  <2>1. PICK reads \in BOOLEAN : TakeTurn(reads) BY <1>5
  <2> DEFINE t == story.turns + 1
             s == Settle(CreateTurn(story, story.active, TurnCommand(reads)), t)
  <2>2. /\ story.turns < MaxTurns
        /\ core' = IF reads THEN EnsureManifest(s, core, t) ELSE core
    BY <2>1 DEF TakeTurn, Committed
  <2>3. t \in Turns BY <2>2, TurnIds DEF Inv, TypeOK
  <2> HIDE DEF s, t
  <2>4. Grown(EnsureManifest(s, core, t), core)
    BY <2>3, <1>1, EnsureManifestGrown DEF Healthy
  <2> QED BY <2>2, <2>4, <1>1 DEF Grown
<1> QED
  BY <1>3, <1>4, <1>5
  DEF Next, vars, Submit, Flush, ApplyReviewed, Apply, Load, Refuse, Receipt,
      WriteStore, Record, Finish, Fail, EndApplied, EndFailed, Crash, Commit,
      Discard, ForkBranch, SwitchBranch, RollbackToTurn, Committed

\* Nothing that was committed is rewritten.
THEOREM HistoryNeverRewritten == Spec => HistoryAppendOnly
<1>1. Inv /\ [Next]_vars => [Keeps(core', core)]_vars BY CommitKeeps
<1> QED BY <1>1, CoreSound, PTL DEF Spec, HistoryAppendOnly

-----------------------------------------------------------------------------
(* Wholeness: what the operations take from a whole state, and what each    *)
(* action makes of Pieces.                                                 *)

AllWhole(c) == \A q \in Proposals : Whole(c, q)

\* Submitting a proposal, marking one and growing take nothing apart.
LEMMA ProposedWhole ==
  ASSUME NEW c, Healthy(c), AllWhole(c),
         NEW p \in Proposals, c.prop[p].status = "absent",
         NEW st \in {"pending", "review_required"},
         NEW o \in Objects, NEW t \in TurnRef, NEW base \in Nat
  PROVE  AllWhole(Proposed(c, p, st, o, t, base))
<1> DEFINE d == Proposed(c, p, st, o, t, base)
<1>1. c.prop[p].receipts = <<>> BY NotAppliedIsBare DEF Applied
<1>2. st \in ProposalStatus BY DEF ProposalStatus
<1>3. /\ Solid(d) /\ Keeps(d, c) /\ SameStore(d, c)
      /\ d.prop[p] = [status |-> st, target |-> o, turn |-> t, base |-> base,
                      receipts |-> <<>>]
      /\ \A q \in Proposals \ {p} : d.prop[q] = c.prop[q]
  BY <1>1, <1>2, ProposedSolid DEF Healthy
<1>4. d.prop[p].receipts = <<>> BY <1>3
<1> HIDE DEF d
<1>5. SameAuthors(d, c) BY <1>3, SameRevisionsSameAuthors DEF SameStore
<1>6. Whole(d, p)
  <2>1. \A x \in Objects : WrittenBy(c, p, x) = {}
    BY <1>1, BareIsWhole DEF AllWhole
  <2> QED BY <2>1, <1>4, <1>5, BareIsWhole DEF SameAuthors
<1>7. \A q \in Proposals \ {p} : Whole(d, q)
  BY <1>3, <1>5, CoreFields, WholeKept DEF SameAuthors, AllWhole, Solid, Healthy
<1> QED BY <1>6, <1>7 DEF AllWhole, d

LEMMA MarkedWhole ==
  ASSUME NEW c, Solid(c), AllWhole(c), NEW p \in Proposals,
         NEW st \in ProposalStatus
  PROVE  AllWhole(Marked(c, p, st))
<1> DEFINE d == Marked(c, p, st)
<1>1. c.prop[p] \in Proposal BY CoreFields DEF Solid
<1>2. /\ Solid(d) /\ Keeps(d, c) /\ SameStore(d, c)
      /\ d.prop[p] = [c.prop[p] EXCEPT !.status = st]
      /\ \A q \in Proposals \ {p} : d.prop[q] = c.prop[q]
  BY MarkedSolid
<1> HIDE DEF d
<1>3. SameAuthors(d, c) BY <1>2, SameRevisionsSameAuthors DEF SameStore
<1>4. \A q \in Proposals : /\ d.prop[q].target = c.prop[q].target
                           /\ d.prop[q].turn = c.prop[q].turn
                           /\ d.prop[q].receipts = c.prop[q].receipts
  BY <1>1, <1>2 DEF Proposal
<1>5. c \in Core /\ d.mans \in Seq(Manifest) BY <1>2, CoreFields DEF Solid
<1> QED BY <1>2, <1>3, <1>4, <1>5, WholeKept DEF SameAuthors, AllWhole, d

LEMMA GrownWhole ==
  ASSUME NEW c, NEW d, Solid(c), Grown(d, c), SameAuthors(d, c),
         NEW q \in Proposals, Whole(c, q)
  PROVE  Whole(d, q)
<1>1. c \in Core /\ d.mans \in Seq(Manifest) BY CoreFields DEF Solid, Grown
<1> QED BY <1>1, WholeKept DEF Grown, SameAuthors

LEMMA GrownAllWhole ==
  ASSUME NEW c, NEW d, Solid(c), Grown(d, c), SameAuthors(d, c), AllWhole(c)
  PROVE  AllWhole(d)
  BY GrownWhole DEF AllWhole

\* Before its receipt and after its manifest nothing is in pieces.
Writing == {"receipted", "written"}

LEMMA PiecesMean ==
  ASSUME Pieces
  PROVE  /\ AllWhole(core) /\ AllWhole(save)
         /\ req.pc \notin Writing => AllWhole(work)
         /\ \A q \in Proposals \ {req.p} : Whole(work, q)
  BY DEF Pieces, AllWhole, Writing

LEMMA NothingInPieces ==
  ASSUME AllWhole(core'), AllWhole(work'), AllWhole(save'), req'.pc \notin Writing
  PROVE  Pieces'
  BY DEF Pieces, AllWhole, Writing

LEMMA SubmissionPieces ==
  ASSUME Inv, Pieces,
         \/ \E ch \in Channels, p \in Proposals, o \in Objects,
               t \in TurnRef, base \in Bases : Submit(ch, p, o, t, base)
         \/ \E ch \in Channels, p \in Proposals, o \in Objects,
               base \in Bases : SubmitForReview(ch, p, o, base)
         \/ \E p \in Proposals : ApplyReviewed(p)
  PROVE  Pieces'
<1>1. Bases \subseteq Nat /\ NoTurn \in TurnRef
  BY InputAssumption, MaxTurnsAssumption DEF NoTurn, TurnRef
<1>2. Idle.pc = "idle" BY DEF Idle
<1>3. ASSUME NEW ch \in Channels, NEW p \in Proposals, NEW o \in Objects,
             NEW t \in TurnRef, NEW base \in Bases, Submit(ch, p, o, t, base)
      PROVE  Pieces'
  <2>1. /\ req.pc \notin Writing /\ req.pc \notin Midway
        /\ work.prop[p].status = "absent"
        /\ work' = Proposed(work, p, "pending", o, t, base)
        /\ core' = core /\ save' = save
        /\ req' = [Idle EXCEPT !.pc = "submitted", !.ch = ch, !.p = p]
    BY <1>3 DEF Submit, MaySubmit, Flush, Writing, Midway
  <2>2. Healthy(work) /\ AllWhole(work) BY <2>1, InvMeans, PiecesMean
  <2>3. AllWhole(work') BY <1>1, <2>1, <2>2, ProposedWhole
  <2>4. req'.pc \notin Writing BY <2>1 DEF Idle, Writing
  <2> QED BY <2>1, <2>3, <2>4, PiecesMean, NothingInPieces
<1>4. ASSUME NEW ch \in Channels, NEW p \in Proposals, NEW o \in Objects,
             NEW base \in Bases, SubmitForReview(ch, p, o, base)
      PROVE  Pieces'
  <2>1. /\ core.prop[p].status = "absent" /\ req' = Idle
        /\ core' = Proposed(core, p, "review_required", o, NoTurn, base)
        /\ work' = core' /\ save' = core'
    BY <1>4 DEF SubmitForReview, Commit
  <2>2. Healthy(core) /\ AllWhole(core) BY InvMeans, PiecesMean
  <2>3. AllWhole(core') BY <1>1, <2>1, <2>2, ProposedWhole
  <2> QED BY <1>2, <2>1, <2>3, NothingInPieces DEF Writing
<1>5. ASSUME NEW p \in Proposals, ApplyReviewed(p) PROVE Pieces'
  <2>1. /\ req.pc \notin Writing
        /\ req' = [Idle EXCEPT !.pc = "submitted", !.ch = "review", !.p = p]
        /\ core' = core /\ work' = work /\ save' = save
    BY <1>5 DEF ApplyReviewed, Writing
  <2>2. req'.pc \notin Writing BY <2>1 DEF Idle, Writing
  <2> QED BY <2>1, <2>2, PiecesMean, NothingInPieces
<1> QED BY <1>3, <1>4, <1>5

\* The request goes on, and its savepoint and the committed state stay.
LEMMA StepFields ==
  ASSUME Inv, NEW pc \in PC, Goto(pc), NEW d, Flush(d)
  PROVE  /\ core' = core /\ save' = save /\ work' = d
         /\ req'.pc = pc /\ req'.p = req.p /\ Claims' = Claims
  BY GotoTyped DEF Flush, Claims, Writes

LEMMA ReceiptPieces ==
  ASSUME Inv, Pieces, Receipt
  PROVE  Pieces'
<1> DEFINE p == req.p
           w == Writes(req.ch)
           c == IF Leads(req.ch) THEN work ELSE [work EXCEPT !.mirror = req.after]
           d == Receipted(c, p, req.rev, w)
<1>1. req.pc = "loaded" /\ Flush(d) /\ Goto("receipted") BY DEF Receipt
<1>2. /\ core' = core /\ save' = save /\ work' = d
      /\ req'.pc = "receipted" /\ req'.p = p /\ Claims' = Claims
  BY <1>1, StepFields DEF PC
<1>3. Healthy(work) /\ Solid(work) /\ AllWhole(work)
  BY <1>1, InvMeans, PiecesMean DEF Midway, Writing
<1>4. InHand(work) /\ p \in Proposals
  BY <1>1 DEF Inv, OnItsWay, Applying, InHand
<1>5. work.prop[p].receipts = <<>>
  BY <1>3, <1>4, NotAppliedIsBare DEF InHand, Applied
<1>6. req.after \in [Objects -> Value] /\ req.rev \in Nat /\ w \in BOOLEAN
  BY RequestFields DEF View
<1>7. Solid(c) /\ Keeps(c, work) /\ c.prop = work.prop /\ SameStore(c, work)
  <2>1. CASE Leads(req.ch)
    BY <2>1, <1>3, KeepsReflexive DEF Solid, SameStore
  <2>2. CASE ~ Leads(req.ch)
    BY <2>2, <1>3, <1>6, MirrorGrown DEF Grown
  <2> QED BY <2>1, <2>2
<1> HIDE DEF c
<1>8. /\ Solid(d) /\ Keeps(d, c) /\ SameStore(d, c)
      /\ OneMoreReceipt(d, c, p, req.rev, w)
  BY <1>4, <1>6, <1>7, ReceiptedSolid
<1> HIDE DEF d, w
<1>9. /\ SameAuthors(d, work) /\ Keeps(d, work)
      /\ work \in Core /\ d.mans \in Seq(Manifest)
  BY <1>3, <1>7, <1>8, SameRevisionsSameAuthors, KeepsTransitive, CoreFields
  DEF SameStore, Solid
<1>10. \A q \in Proposals \ {p} : Whole(d, q)
  BY <1>3, <1>7, <1>8, <1>9, WholeKept DEF SameAuthors, AllWhole, OneMoreReceipt
<1>11. Claimed(d, p) = Claims
  <2> DEFINE r == [rev |-> req.rev, stored |-> w]
  <2>1. d.prop[p].receipts = Append(<<>>, r)
    BY <1>5, <1>7, <1>8 DEF OneMoreReceipt
  <2>2. d.prop[p].receipts = <<r>> BY <2>1
  <2>3. DOMAIN d.prop[p].receipts = {1} /\ d.prop[p].receipts[1] = r BY <2>2
  <2>4. Claimed(d, p) = IF w THEN {req.rev} ELSE {} BY <2>3 DEF Claimed
  <2> QED BY <2>4 DEF Claims, w
<1>12. HasWritten(d, p, {})
  <2>1. \A x \in Objects : WrittenBy(work, p, x) = {}
    BY <1>3, <1>4, <1>5, BareIsWhole DEF AllWhole
  <2> QED BY <2>1, <1>4, <1>9 DEF HasWritten, SameAuthors
<1> QED BY <1>2, <1>10, <1>11, <1>12, PiecesMean DEF Pieces, AllWhole

LEMMA WriteStorePieces ==
  ASSUME Inv, Pieces, WriteStore
  PROVE  Pieces'
<1> DEFINE p == req.p
           o == work.prop[p].target
           after == req.after[o]
           d == IF Writes(req.ch)
                THEN Mutated(work, p, req.rev, req.before, after) ELSE work
<1>1. req.pc = "receipted" /\ Flush(d) /\ Goto("written")
  BY DEF WriteStore, Target
<1>2. /\ core' = core /\ save' = save /\ work' = d
      /\ req'.pc = "written" /\ req'.p = p /\ Claims' = Claims
  BY <1>1, StepFields DEF PC
<1>3. /\ Solid(work) /\ Keeps(work, work) /\ p \in Proposals /\ o \in Objects
  BY <1>1, MidwayMeans DEF Midway
<1>4. req.rev \in Nat /\ after \in Value BY <1>3, RequestFields DEF View
<1>5. Claimed(work, p) = Claims /\ HasWritten(work, p, {})
  BY <1>1 DEF Pieces
<1>6. CASE Writes(req.ch)
  <2>1. d = Mutated(work, p, req.rev, req.before, after) BY <1>6
  <2>2. req.rev = work.row[o].rev + 1
    BY <1>1, <1>6 DEF Inv, OnItsWay, Target
  <2> HIDE DEF d, after
  <2>3. Grown(d, work) BY <2>1, <2>2, <1>3, <1>4, MutatedGrown
  <2>4. Wrote(d, work, o, p, req.rev) BY <2>1, <2>2, <1>3, <1>4, MutatedAuthors
  <2>5. work \in Core /\ d.mans \in Seq(Manifest) /\ d.prop = work.prop
        /\ Keeps(d, work)
    BY <2>3, <1>3, CoreFields DEF Solid, Grown
  <2>6. \A q \in Proposals \ {p} : Whole(d, q)
    BY <2>4, <2>5, PiecesMean, WholeKept DEF Wrote
  <2>7. Claims = {req.rev} BY <1>6 DEF Claims
  <2>8. Claimed(d, p) = Claims BY <2>5, <1>5 DEF Claimed
  <2>9. HasWritten(d, p, Claims)
    <3>1. ASSUME NEW x \in Objects
          PROVE  WrittenBy(d, p, x) = IF x = o THEN Claims ELSE {}
      <4>1. WrittenBy(work, p, x) = {} BY <1>5 DEF HasWritten
      <4> QED BY <4>1, <2>4, <2>7, <1>3 DEF Wrote
    <3> QED BY <3>1, <2>5 DEF HasWritten
  <2> QED BY <2>6, <2>8, <2>9, <1>2, PiecesMean DEF Pieces, AllWhole
<1>7. CASE ~ Writes(req.ch)
  <2>1. d = work /\ Claims = {} BY <1>7 DEF Claims
  <2> QED BY <2>1, <1>2, <1>5, PiecesMean DEF Pieces, AllWhole
<1> QED BY <1>6, <1>7

LEMMA RecordPieces ==
  ASSUME Inv, Pieces, Record
  PROVE  Pieces'
<1> DEFINE p == req.p
           o == work.prop[p].target
           t == work.prop[p].turn
           d == IF Writes(req.ch) /\ Pinned(work, p)
                THEN RecordMutation(story, work, t, o, req.rev) ELSE work
<1>1. req.pc = "written" /\ Flush(d) /\ Goto("recorded")
  BY DEF Record, Target
<1>2. /\ core' = core /\ save' = save /\ work' = d /\ req'.pc = "recorded"
  BY <1>1, StepFields DEF PC
<1>3. /\ Solid(work) /\ p \in Proposals /\ o \in Objects
  BY <1>1, MidwayMeans DEF Midway
<1>4. Claimed(work, p) = Claims /\ HasWritten(work, p, Claims)
  BY <1>1 DEF Pieces
<1>5. \A q \in Proposals \ {p} : Whole(work, q) BY PiecesMean
<1>6. CASE Writes(req.ch) /\ Pinned(work, p)
  <2>1. d = RecordMutation(story, work, t, o, req.rev) BY <1>6
  <2>2. t \in Turns BY <1>3, <1>6, PinnedTurnTyped DEF Solid
  <2>3. req.rev \in Nat /\ req.rev = Len(work.revs[o])
    BY <1>1, <1>6, RequestFields DEF Inv, OnItsWay, Target
  <2>4. req.rev <= Len(work.revs[o]) BY <2>3
  <2> HIDE DEF d
  <2>5. Grown(d, work) BY <2>1, <2>2, <2>3, <2>4, <1>3, RecordMutationGrown
  <2>6. d.revs = work.revs
    BY <2>1, <1>3 DEF RecordMutation, Recorded, Solid, Core
  <2>7. SameAuthors(d, work) BY <2>6, SameRevisionsSameAuthors
  <2>8. \A q \in Proposals \ {p} : Whole(d, q)
    BY <2>5, <2>7, <1>3, <1>5, GrownWhole
  <2>9. Whole(d, p)
    <3>1. d.prop = work.prop BY <2>5 DEF Grown
    <3>2. Claimed(d, p) = Claims BY <3>1, <1>4 DEF Claimed
    <3>3. HasWritten(d, p, Claims)
      BY <3>1, <2>7, <1>3, <1>4 DEF HasWritten, SameAuthors
    <3>4. Claims = {req.rev} BY <1>6 DEF Claims
    <3>5. LeadsTo(d, t, o, req.rev)
      BY <2>1, <2>2, <2>3, <2>4, <1>3, RecordMutationLeads
    <3>6. Manifested(d, p) BY <3>1, <3>2, <3>4, <3>5 DEF Manifested, LeadsTo
    <3> QED BY <3>2, <3>3, <3>6 DEF Whole
  <2>10. AllWhole(work') BY <2>8, <2>9, <1>2 DEF AllWhole
  <2> QED BY <2>10, <1>2, PiecesMean, NothingInPieces DEF Writing
<1>7. CASE ~ (Writes(req.ch) /\ Pinned(work, p))
  <2>1. Manifested(work, p)
    BY <1>4, <1>7 DEF Manifested, Pinned, Claims
  <2>2. AllWhole(work) BY <2>1, <1>4, <1>5 DEF Whole, AllWhole
  <2> QED BY <2>2, <1>2, <1>7, PiecesMean, NothingInPieces DEF Writing
<1> QED BY <1>6, <1>7

LEMMA ApplyPieces ==
  ASSUME Inv, Pieces, Apply
  PROVE  Pieces'
<1>1. CASE Load
  <2> DEFINE c == Loaded(story, work, req.p, Leads(req.ch))
  <2>1. req.pc = "submitted" /\ core' = core /\ save' = work /\ work' = c
    BY <1>1 DEF Load
  <2>2. req'.pc = "loaded" BY <1>1 DEF Load, Inv, TypeOK, RequestState
  <2>3. Healthy(work) /\ Solid(work) /\ AllWhole(work)
    BY <2>1, InvMeans, PiecesMean DEF Midway, Writing
  <2>4. req.p \in Proposals /\ work.prop[req.p].target \in Objects
    BY <2>1, InvMeans DEF Inv, OnItsWay, InHand
  <2>5. Grown(c, work) /\ SameAuthors(c, work)
    BY <2>3, <2>4, LoadedGrown, LoadedAuthors
  <2> HIDE DEF c
  <2>6. AllWhole(c) BY <2>3, <2>5, GrownAllWhole
  <2> QED BY <2>1, <2>2, <2>3, <2>6, PiecesMean, NothingInPieces DEF Writing
<1>2. ASSUME NEW c, Healthy(c), AllWhole(c), InHand(c),
             Flush(Marked(c, req.p, "failed")), Goto("failed")
      PROVE  Pieces'
  <2>1. "failed" \in ProposalStatus BY DEF ProposalStatus
  <2>2. AllWhole(Marked(c, req.p, "failed"))
    BY <1>2, <2>1, MarkedWhole DEF Healthy, InHand
  <2>3. /\ core' = core /\ save' = save /\ req'.pc = "failed"
        /\ work' = Marked(c, req.p, "failed")
    BY <1>2, StepFields DEF PC
  <2> QED BY <2>2, <2>3, PiecesMean, NothingInPieces DEF Writing
<1>3. CASE Refuse
  <2>1. req.pc = "submitted" BY <1>3 DEF Refuse
  <2>2. Healthy(work) /\ AllWhole(work) /\ InHand(work)
    BY <2>1, InvMeans, PiecesMean DEF Midway, Writing, Inv, OnItsWay
  <2> QED BY <2>2, <1>2, <1>3 DEF Refuse
<1>4. CASE Fail
  <2>1. req.pc \in Applying BY <1>4 DEF Fail, Applying
  <2>2. Healthy(save) /\ AllWhole(save) /\ InHand(save)
    BY <2>1, InvMeans, PiecesMean DEF Inv, OnItsWay
  <2> QED BY <2>2, <1>2, <1>4 DEF Fail
<1>5. CASE Finish
  <2> DEFINE p == req.p
             c == IF Leads(req.ch) THEN [work EXCEPT !.mirror = req.after] ELSE work
             d == Marked(c, p, "applied")
  <2>1. req.pc = "recorded" /\ Flush(d) /\ Goto("routed") BY <1>5 DEF Finish
  <2>2. /\ core' = core /\ save' = save /\ work' = d /\ req'.pc = "routed"
    BY <2>1, StepFields DEF PC
  <2>3. Solid(work) /\ p \in Proposals /\ AllWhole(work)
    BY <2>1, MidwayMeans, PiecesMean DEF Midway, Writing
  <2>4. Grown(c, work) /\ SameAuthors(c, work)
    <3>1. CASE Leads(req.ch)
      <4>1. req.after \in [Objects -> Value] BY RequestFields DEF View
      <4> QED BY <4>1, <3>1, <2>3, MirrorGrown, SameRevisionsSameAuthors
          DEF SameStore
    <3>2. CASE ~ Leads(req.ch)
      BY <3>2, <2>3, GrownReflexive, SameRevisionsSameAuthors
    <3> QED BY <3>1, <3>2
  <2> HIDE DEF c
  <2>5. Solid(c) /\ AllWhole(c) BY <2>3, <2>4, GrownAllWhole DEF Grown
  <2>6. "applied" \in ProposalStatus BY DEF ProposalStatus
  <2>7. AllWhole(d) BY <2>3, <2>5, <2>6, MarkedWhole
  <2> HIDE DEF d
  <2> QED BY <2>2, <2>7, PiecesMean, NothingInPieces DEF Writing
<1> QED BY <1>1, <1>3, <1>4, <1>5, ReceiptPieces, WriteStorePieces, RecordPieces
    DEF Apply

LEMMA EndPieces ==
  ASSUME Inv, Pieces, EndApplied \/ EndFailed \/ Crash
  PROVE  Pieces'
<1>1. /\ work' = core' /\ save' = core' /\ req' = Idle
      /\ \/ core' = core
         \/ core' = work /\ req.pc \in {"routed", "failed"}
  BY DEF EndApplied, EndFailed, Crash, Discard, Commit
<1>2. AllWhole(core') BY <1>1, PiecesMean DEF Writing
<1>3. req'.pc \notin Writing BY <1>1 DEF Idle, Writing
<1> QED BY <1>1, <1>2, <1>3, NothingInPieces

LEMMA TurnsPieces ==
  ASSUME Inv, Pieces,
         \/ \E reads \in BOOLEAN : TakeTurn(reads)
         \/ \E t \in Turns, b \in Branches : ForkBranch(t, b)
         \/ \E b \in Branches : SwitchBranch(b)
         \/ \E t \in Turns : RollbackToTurn(t)
  PROVE  Pieces'
<1> DEFINE t == story.turns + 1
           s == Settle(CreateTurn(story, story.active, TurnCommand(TRUE)), t)
<1>1. /\ req' = req /\ req.pc = "idle" /\ work' = core' /\ save' = core'
      /\ \/ core' = core
         \/ core' = EnsureManifest(s, core, t) /\ story.turns < MaxTurns
  BY DEF TakeTurn, ForkBranch, SwitchBranch, RollbackToTurn, Committed
<1>2. Solid(core) /\ AllWhole(core) BY InvMeans, PiecesMean DEF Healthy
<1>3. CASE core' = EnsureManifest(s, core, t) /\ story.turns < MaxTurns
  <2>1. t \in Turns BY <1>3, TurnIds DEF Inv, TypeOK
  <2> HIDE DEF t, s
  <2>2. AllWhole(core')
    BY <2>1, <1>2, <1>3, EnsureManifestGrown, EnsureManifestAuthors, GrownAllWhole
  <2> QED BY <2>2, <1>1, NothingInPieces DEF Writing
<1>4. CASE core' = core BY <1>1, <1>2, <1>4, NothingInPieces DEF Writing
<1> QED BY <1>1, <1>3, <1>4

LEMMA PiecesNext == Inv /\ Pieces /\ [Next]_vars => Pieces'
<1> SUFFICES ASSUME Inv, Pieces, [Next]_vars PROVE Pieces' OBVIOUS
<1>1. CASE UNCHANGED vars
  BY <1>1 DEF vars, Pieces, Claims, Writes
<1> QED
  BY <1>1, SubmissionPieces, ApplyPieces, EndPieces, TurnsPieces DEF Next

LEMMA PiecesInit == Init => Pieces
<1> SUFFICES ASSUME Init PROVE Pieces OBVIOUS
<1>1. Inv BY InitInv
<1>2. \A p \in Proposals : EmptyCore.prop[p].receipts = <<>>
  BY DEF EmptyCore, NoProposal
<1>3. AllWhole(EmptyCore)
  <2>1. \A p \in Proposals, o \in Objects : WrittenBy(EmptyCore, p, o) = {}
    BY DEF EmptyCore, WrittenBy
  <2> QED BY <2>1, <1>2, BareIsWhole DEF AllWhole
<1>4. AllWhole(core)
  <2>1. CASE core = EmptyCore BY <2>1, <1>3
  <2>2. CASE core = SeedRows(EmptyCore)
    <3>1. \A p \in Proposals : core.prop[p].receipts = <<>>
      BY <2>2, <1>2 DEF SeedRows, EmptyCore
    <3>2. \A o \in Objects :
             core.revs[o] = <<[val |-> EmptyCore.mirror[o], by |-> None]>>
      BY <2>2 DEF SeedRows, EmptyCore
    <3>3. ASSUME NEW p \in Proposals, NEW o \in Objects
          PROVE  WrittenBy(core, p, o) = {}
      <4> DEFINE h == <<[val |-> EmptyCore.mirror[o], by |-> None]>>
      <4>1. DOMAIN h = {1} /\ h[1].by = None OBVIOUS
      <4>2. core.revs[o] = h BY <3>2
      <4> HIDE DEF h
      <4> QED BY <4>1, <4>2, ProposalAssumption DEF WrittenBy
    <3> QED BY <3>1, <3>3, BareIsWhole DEF AllWhole
  <2> QED BY <2>1, <2>2 DEF Init
<1>5. work = core /\ save = core /\ req.pc = "idle" BY DEF Init, Idle
<1> QED BY <1>4, <1>5 DEF Pieces, AllWhole

\* An applied proposal is applied as a whole.
THEOREM AppliedAlwaysWhole == Spec => []AppliedIsWhole
<1>1. Spec => []Pieces BY PiecesInit, PiecesNext, CoreSound, PTL DEF Spec
<1>2. Pieces => AppliedIsWhole BY DEF Pieces, AppliedIsWhole
<1> QED BY <1>1, <1>2, PTL

-----------------------------------------------------------------------------
(* Readings: what each action makes of Rebound.                            *)

\* What is applied in c is applied in d, for the same turn.
StillApplied(d, c) ==
    \A q \in Proposals :
        Applied(c, q) => Applied(d, q) /\ d.prop[q].turn = c.prop[q].turn

\* Whatever moved has an application to show for it.
Accounted(c) == \A t \in Turns : Moved(c, t) => NewlyApplied(c, t)

LEMMA MoveCarries ==
  ASSUME NEW c, NEW d, NEW T, StillBound(d, c, T), StillApplied(d, c), NEW t \in T
  PROVE  /\ Moved(d, t) => Moved(c, t)
         /\ NewlyApplied(c, t) => NewlyApplied(d, t)
<1>1. Moved(d, t) => Moved(c, t) BY DEF StillBound, Moved
<1>2. NewlyApplied(c, t) => NewlyApplied(d, t) BY DEF StillApplied, NewlyApplied
<1> QED BY <1>1, <1>2

\* A step of a request that leaves what is bound and applied as it is.
Quiet(d, c) == StillBound(d, c, Turns) /\ StillApplied(d, c)

LEMMA QuietAccounted ==
  ASSUME NEW c, NEW d, Quiet(d, c), Accounted(c)
  PROVE  Accounted(d)
  BY MoveCarries DEF Accounted, Quiet

LEMMA QuietRebound ==
  ASSUME core' = core, Accounted(work), Accounted(save),
         \/ save' = save
         \/ save' = work,
         \/ Quiet(work', work)
         \/ Quiet(work', save)
  PROVE  Rebound'
<1>1. Accounted(work') BY QuietAccounted
<1>2. Accounted(save') OBVIOUS
<1>3. \A t \in Turns, c \in {work', save'} : Moved(c, t) => NewlyApplied(c, t)
  BY <1>1, <1>2 DEF Accounted
<1>4. /\ \A t \in Turns : Moved(work, t)' => NewlyApplied(work, t)'
      /\ \A t \in Turns : Moved(save, t)' => NewlyApplied(save, t)'
  BY <1>3 DEF Moved, NewlyApplied, Applied
<1> QED BY <1>4 DEF Rebound

\* Right after a commit nothing has moved.
LEMMA CommitRebound ==
  ASSUME work' = core', save' = core'
  PROVE  Rebound'
  BY DEF Rebound, Moved

LEMMA ReboundMeans ==
  ASSUME Rebound
  PROVE  /\ Accounted(save)
         /\ req.pc # "recorded" => Accounted(work)
  BY DEF Rebound, Accounted

\* Marking a proposal that is not applied
LEMMA MarkedQuiet ==
  ASSUME NEW c, Solid(c), NEW p \in Proposals, ~ Applied(c, p),
         NEW st \in ProposalStatus
  PROVE  Quiet(Marked(c, p, st), c)
<1> DEFINE d == Marked(c, p, st)
<1>1. SameStore(d, c) /\ \A q \in Proposals \ {p} : d.prop[q] = c.prop[q]
  BY MarkedSolid, ZenonT(40)
<1> HIDE DEF d
<1>2. Quiet(d, c) BY <1>1 DEF Quiet, StillBound, StillApplied, SameStore, Applied
<1> QED BY <1>2 DEF d

\* Submitting a proposal
LEMMA ProposedQuiet ==
  ASSUME NEW c, Healthy(c), NEW p \in Proposals, c.prop[p].status = "absent",
         NEW st \in {"pending", "review_required"},
         NEW o \in Objects, NEW t \in TurnRef, NEW base \in Nat
  PROVE  Quiet(Proposed(c, p, st, o, t, base), c)
<1> DEFINE d == Proposed(c, p, st, o, t, base)
<1>1. c.prop[p].receipts = <<>> BY NotAppliedIsBare DEF Applied
<1>2. st \in ProposalStatus BY DEF ProposalStatus
<1>3. /\ Solid(d) /\ Keeps(d, c) /\ SameStore(d, c)
      /\ d.prop[p] = [status |-> st, target |-> o, turn |-> t, base |-> base,
                      receipts |-> <<>>]
      /\ \A q \in Proposals \ {p} : d.prop[q] = c.prop[q]
  BY <1>1, <1>2, ProposedSolid DEF Healthy
<1> HIDE DEF d
<1>4. Quiet(d, c) BY <1>3 DEF Quiet, StillBound, StillApplied, SameStore, Applied
<1> QED BY <1>4 DEF d

LEMMA SubmissionRebound ==
  ASSUME Inv, Rebound,
         \/ \E ch \in Channels, p \in Proposals, o \in Objects,
               t \in TurnRef, base \in Bases : Submit(ch, p, o, t, base)
         \/ \E ch \in Channels, p \in Proposals, o \in Objects,
               base \in Bases : SubmitForReview(ch, p, o, base)
         \/ \E p \in Proposals : ApplyReviewed(p)
  PROVE  Rebound'
<1>1. Bases \subseteq Nat BY InputAssumption
<1>2. ASSUME NEW ch \in Channels, NEW p \in Proposals, NEW o \in Objects,
             NEW t \in TurnRef, NEW base \in Bases, Submit(ch, p, o, t, base)
      PROVE  Rebound'
  <2>1. /\ req.pc \notin Midway
        /\ work.prop[p].status = "absent"
        /\ work' = Proposed(work, p, "pending", o, t, base)
        /\ core' = core /\ save' = save
    BY <1>2 DEF Submit, MaySubmit, Flush, Midway
  <2>2. Healthy(work) /\ Accounted(work) /\ Accounted(save)
    BY <2>1, InvMeans, ReboundMeans DEF Midway
  <2>3. "pending" \in {"pending", "review_required"} OBVIOUS
  <2>4. base \in Nat BY <1>1
  <2>5. Quiet(work', work) BY <2>1, <2>2, <2>3, <2>4, ProposedQuiet
  <2> QED BY <2>1, <2>2, <2>5, QuietRebound
<1>3. ASSUME NEW ch \in Channels, NEW p \in Proposals, NEW o \in Objects,
             NEW base \in Bases, SubmitForReview(ch, p, o, base)
      PROVE  Rebound'
  BY <1>3, CommitRebound DEF SubmitForReview, Commit
<1>4. ASSUME NEW p \in Proposals, ApplyReviewed(p) PROVE Rebound'
  <2>1. req.pc # "recorded" /\ core' = core /\ work' = work /\ save' = save
    BY <1>4 DEF ApplyReviewed
  <2>2. Accounted(work) /\ Accounted(save) BY <2>1, ReboundMeans
  <2>3. Quiet(work', work) BY <2>1 DEF Quiet, StillBound, StillApplied
  <2> QED BY <2>1, <2>2, <2>3, QuietRebound
<1> QED BY <1>2, <1>3, <1>4

LEMMA ReceiptRebound ==
  ASSUME Inv, Rebound, Receipt
  PROVE  Rebound'
<1> DEFINE p == req.p
           w == Writes(req.ch)
           c == IF Leads(req.ch) THEN work ELSE [work EXCEPT !.mirror = req.after]
           d == Receipted(c, p, req.rev, w)
<1>1. req.pc = "loaded" /\ core' = core /\ save' = save /\ work' = d
  BY DEF Receipt, Flush
<1>2. Solid(work) /\ p \in Proposals /\ ~ Applied(work, p)
  BY <1>1, InvMeans DEF Inv, OnItsWay, Applying, InHand, Applied
<1>3. req.after \in [Objects -> Value] /\ req.rev \in Nat /\ w \in BOOLEAN
  BY RequestFields DEF View
<1>4. Solid(c) /\ c.prop = work.prop /\ SameStore(c, work)
  <2>1. CASE Leads(req.ch) BY <2>1, <1>2 DEF SameStore
  <2>2. CASE ~ Leads(req.ch) BY <2>2, <1>2, <1>3, MirrorGrown DEF Grown
  <2> QED BY <2>1, <2>2
<1> HIDE DEF c
<1>5. SameStore(d, c) /\ OneMoreReceipt(d, c, p, req.rev, w)
  BY <1>2, <1>3, <1>4, ReceiptedSolid
<1> HIDE DEF d
<1>6. Quiet(d, work)
  BY <1>2, <1>4, <1>5
  DEF Quiet, StillBound, StillApplied, SameStore, OneMoreReceipt, Applied
<1> QED BY <1>1, <1>6, ReboundMeans, QuietRebound

LEMMA WriteStoreRebound ==
  ASSUME Inv, Rebound, WriteStore
  PROVE  Rebound'
<1> DEFINE p == req.p
           o == work.prop[p].target
           after == req.after[o]
           d == IF Writes(req.ch)
                THEN Mutated(work, p, req.rev, req.before, after) ELSE work
<1>1. req.pc = "receipted" /\ core' = core /\ save' = save /\ work' = d
  BY DEF WriteStore, Target, Flush
<1>2. Solid(work) /\ p \in Proposals /\ o \in Objects
  BY <1>1, MidwayMeans DEF Midway
<1>3. req.rev \in Nat /\ after \in Value BY <1>2, RequestFields DEF View
<1>4. d.bound = work.bound /\ d.prop = work.prop
  <2>1. CASE Writes(req.ch)
    <3>1. d = Mutated(work, p, req.rev, req.before, after) BY <2>1
    <3>2. req.rev = work.row[o].rev + 1
      BY <1>1, <2>1 DEF Inv, OnItsWay, Target
    <3> HIDE DEF d, after
    <3> QED BY <3>1, <3>2, <1>2, <1>3, MutatedGrown, MutatedBound, ZenonT(40) DEF Grown
  <2>2. CASE ~ Writes(req.ch) BY <2>2
  <2> QED BY <2>1, <2>2
<1> HIDE DEF d
<1>5. Quiet(d, work) BY <1>4 DEF Quiet, StillBound, StillApplied, Applied
<1> QED BY <1>1, <1>5, ReboundMeans, QuietRebound

\* The one step that binds a bound turn anew binds the turn of the proposal
\* in hand.
LEMMA RecordRebound ==
  ASSUME Inv, Rebound, Record
  PROVE  Rebound'
<1> DEFINE p == req.p
           o == work.prop[p].target
           t == work.prop[p].turn
           d == IF Writes(req.ch) /\ Pinned(work, p)
                THEN RecordMutation(story, work, t, o, req.rev) ELSE work
<1>1. req.pc = "written" /\ Flush(d) /\ Goto("recorded")
  BY DEF Record, Target
<1>2. /\ core' = core /\ save' = save /\ work' = d
      /\ req'.pc = "recorded" /\ req'.p = p
  BY <1>1, StepFields DEF PC
<1>3. /\ Solid(work) /\ p \in Proposals /\ o \in Objects
  BY <1>1, MidwayMeans DEF Midway
<1>4. Accounted(work) /\ Accounted(save) BY <1>1, ReboundMeans
<1>5. CASE Writes(req.ch) /\ Pinned(work, p)
  <2>1. d = RecordMutation(story, work, t, o, req.rev) BY <1>5
  <2>2. t \in Turns BY <1>3, <1>5, PinnedTurnTyped DEF Solid
  <2>3. req.rev \in Nat /\ req.rev <= Len(work.revs[o])
    BY <1>1, <1>5, RequestFields DEF Inv, OnItsWay, Target
  <2> HIDE DEF d
  <2>4. d.prop = work.prop
    BY <2>1, <2>2, <2>3, <1>3, RecordMutationGrown DEF Grown
  <2>5. StillBound(d, work, Turns \ {t})
    BY <2>1, <2>2, <1>3, RecordMutationBound
  <2>6. StillApplied(d, work) BY <2>4 DEF StillApplied, Applied
  <2>7. \A u \in Turns \ {t} : Moved(d, u) => NewlyApplied(d, u)
    BY <2>5, <2>6, <1>4, MoveCarries DEF Accounted
  <2>8. /\ \A u \in Turns \ {t} : Moved(work, u)' => NewlyApplied(work, u)'
        /\ \A u \in Turns : Moved(save, u)' => NewlyApplied(save, u)'
    BY <2>7, <1>2, <1>4 DEF Accounted, Moved, NewlyApplied, Applied
  <2>9. work'.prop[req'.p].turn = t BY <2>4, <1>2
  <2> QED BY <2>8, <2>9, <1>2 DEF Rebound
<1>6. CASE ~ (Writes(req.ch) /\ Pinned(work, p))
  <2>1. Quiet(work', work) BY <1>2, <1>6 DEF Quiet, StillBound, StillApplied
  <2> QED BY <2>1, <1>2, <1>4, QuietRebound
<1> QED BY <1>5, <1>6

\* The proposal in hand was not applied when the session last committed.
LEMMA NotYetApplied ==
  ASSUME Inv, req.pc \in Applying
  PROVE  req.p \in Proposals /\ ~ Applied(core, req.p)
<1>1. InHand(save) BY DEF Inv, OnItsWay
<1>2. req.p \in Proposals /\ ~ Applied(save, req.p) BY <1>1 DEF InHand, Applied
<1>3. save.prop[req.p].receipts = <<>> BY <1>2, InvMeans, NotAppliedIsBare
<1>4. Extends(save.prop[req.p].receipts, core.prop[req.p].receipts)
  BY <1>2 DEF Inv, Keeps
<1>5. core.prop[req.p] \in Proposal
  BY <1>2, InvMeans, CoreFields DEF Healthy, Solid
<1>6. core.prop[req.p].receipts = <<>>
  <2>1. core.prop[req.p].receipts \in Seq(ApplyReceipt) BY <1>5 DEF Proposal
  <2>2. Len(core.prop[req.p].receipts) <= 0 BY <1>3, <1>4 DEF Extends
  <2> QED BY <2>1, <2>2, LenProperties, EmptySeq
<1>7. ~ Applied(core, req.p) BY <1>2, <1>6, InvMeans DEF Healthy, Once
<1> QED BY <1>2, <1>7

LEMMA FinishRebound ==
  ASSUME Inv, Rebound, Finish
  PROVE  Rebound'
<1> DEFINE p == req.p
           c == IF Leads(req.ch) THEN [work EXCEPT !.mirror = req.after] ELSE work
           d == Marked(c, p, "applied")
<1>1. req.pc = "recorded" /\ core' = core /\ save' = save /\ work' = d
  BY DEF Finish, Flush
<1>2. /\ Solid(work) /\ p \in Proposals
      /\ ~ Applied(work, p) /\ ~ Applied(core, p)
  BY <1>1, MidwayMeans, NotYetApplied
  DEF Midway, Inv, OnItsWay, Applying, InHand, Applied
<1>3. Solid(c) /\ c.prop = work.prop /\ SameStore(c, work)
  <2>1. CASE Leads(req.ch)
    <3>1. req.after \in [Objects -> Value] BY RequestFields DEF View
    <3> QED BY <3>1, <2>1, <1>2, MirrorGrown DEF Grown
  <2>2. CASE ~ Leads(req.ch) BY <2>2, <1>2 DEF SameStore
  <2> QED BY <2>1, <2>2
<1> HIDE DEF c
<1>4. "applied" \in ProposalStatus BY DEF ProposalStatus
<1>5. Quiet(d, c) BY <1>2, <1>3, <1>4, MarkedQuiet DEF Applied
<1>6. Quiet(d, work)
  BY <1>3, <1>5 DEF Quiet, StillBound, StillApplied, SameStore, Applied
<1>7. Applied(d, p) /\ d.prop[p].turn = work.prop[p].turn
  <2>1. d.prop[p] = [c.prop[p] EXCEPT !.status = "applied"]
    BY <1>2, <1>3, <1>4, MarkedSolid
  <2>2. c.prop[p] \in Proposal BY <1>2, <1>3, CoreFields DEF Solid
  <2> QED BY <2>1, <2>2, <1>3 DEF Applied, Proposal
<1> HIDE DEF d
<1>8. ASSUME NEW t \in Turns, Moved(d, t) PROVE NewlyApplied(d, t)
  <2>1. Moved(work, t) BY <1>6, <1>8, MoveCarries DEF Quiet
  <2>2. NewlyApplied(work, t) \/ work.prop[p].turn = t BY <2>1 DEF Rebound
  <2>3. CASE NewlyApplied(work, t) BY <2>3, <1>6, MoveCarries DEF Quiet
  <2>4. CASE work.prop[p].turn = t BY <2>4, <1>2, <1>7 DEF NewlyApplied
  <2> QED BY <2>2, <2>3, <2>4
<1>9. /\ \A t \in Turns : Moved(work, t)' => NewlyApplied(work, t)'
      /\ \A t \in Turns : Moved(save, t)' => NewlyApplied(save, t)'
  BY <1>1, <1>8 DEF Rebound, Moved, NewlyApplied, Applied
<1> QED BY <1>9 DEF Rebound

LEMMA ApplyRebound ==
  ASSUME Inv, Rebound, Apply
  PROVE  Rebound'
<1>1. CASE Load
  <2> DEFINE c == Loaded(story, work, req.p, Leads(req.ch))
  <2>1. req.pc = "submitted" /\ core' = core /\ save' = work /\ work' = c
    BY <1>1 DEF Load
  <2>2. Solid(work) /\ Accounted(work) /\ Accounted(save)
    BY <2>1, InvMeans, ReboundMeans
  <2>3. req.p \in Proposals /\ work.prop[req.p].target \in Objects
    BY <2>1, InvMeans DEF Inv, OnItsWay, InHand
  <2>4. c.prop = work.prop /\ StillBound(c, work, Turns)
    BY <2>2, <2>3, LoadedGrown, LoadedBound DEF Grown
  <2> HIDE DEF c
  <2>5. Quiet(c, work) BY <2>4 DEF Quiet, StillApplied, Applied
  <2> QED BY <2>1, <2>2, <2>5, QuietRebound
<1>2. "failed" \in ProposalStatus BY DEF ProposalStatus
<1>3. CASE Refuse
  <2>1. /\ req.pc = "submitted" /\ core' = core /\ save' = save
        /\ work' = Marked(work, req.p, "failed")
    BY <1>3 DEF Refuse, Flush
  <2>2. InHand(work) /\ Solid(work) BY <2>1, InvMeans DEF Inv, OnItsWay
  <2>3. Quiet(work', work) BY <2>1, <2>2, <1>2, MarkedQuiet DEF InHand, Applied
  <2> QED BY <2>1, <2>3, ReboundMeans, QuietRebound
<1>4. CASE Fail
  <2>1. /\ req.pc \in Applying /\ core' = core /\ save' = save
        /\ work' = Marked(save, req.p, "failed")
    BY <1>4 DEF Fail, Flush, Applying
  <2>2. InHand(save) /\ Solid(save)
    BY <2>1, InvMeans DEF Inv, OnItsWay, Healthy
  <2>3. Quiet(work', save) BY <2>1, <2>2, <1>2, MarkedQuiet DEF InHand, Applied
  <2>4. Accounted(save) BY ReboundMeans
  <2>5. Accounted(work') BY <2>3, <2>4, QuietAccounted
  <2>6. /\ \A t \in Turns : Moved(work, t)' => NewlyApplied(work, t)'
        /\ \A t \in Turns : Moved(save, t)' => NewlyApplied(save, t)'
    BY <2>1, <2>4, <2>5 DEF Accounted, Moved, NewlyApplied, Applied
  <2> QED BY <2>6 DEF Rebound
<1> QED BY <1>1, <1>3, <1>4, ReceiptRebound, WriteStoreRebound, RecordRebound,
           FinishRebound DEF Apply

LEMMA ReboundNext == Inv /\ Rebound /\ [Next]_vars => Rebound'
<1> SUFFICES ASSUME Inv, Rebound, [Next]_vars PROVE Rebound' OBVIOUS
<1>1. CASE UNCHANGED vars
  BY <1>1 DEF vars, Rebound, Moved, NewlyApplied, Applied
<1>2. CASE EndApplied \/ EndFailed \/ Crash
  BY <1>2, CommitRebound DEF EndApplied, EndFailed, Crash, Discard, Commit
<1>3. CASE \/ \E reads \in BOOLEAN : TakeTurn(reads)
           \/ \E t \in Turns, b \in Branches : ForkBranch(t, b)
           \/ \E b \in Branches : SwitchBranch(b)
           \/ \E t \in Turns : RollbackToTurn(t)
  BY <1>3, CommitRebound
  DEF TakeTurn, ForkBranch, SwitchBranch, RollbackToTurn, Committed
<1> QED
  BY <1>1, <1>2, <1>3, SubmissionRebound, ApplyRebound DEF Next

LEMMA ReboundInit == Init => Rebound
  BY DEF Init, Rebound, Moved

\* What a commit binds anew it has applied a proposal for.
LEMMA CommitStable ==
  ASSUME Inv, Rebound, [Next]_vars, NEW t \in Turns,
         core.bound[t] # NoManifest, core'.bound[t] # core.bound[t]
  PROVE  \E p \in Proposals :
            /\ core'.prop[p].turn = t
            /\ Applied(core', p) /\ ~ Applied(core, p)
<1>1. core' # core OBVIOUS
<1>2. CASE core' = work /\ req.pc \in {"routed", "failed"}
  <2>1. Moved(work, t) BY <1>2 DEF Moved
  <2>2. NewlyApplied(work, t) BY <2>1, <1>2 DEF Rebound
  <2> QED BY <2>2, <1>2 DEF NewlyApplied
<1>3. CASE \E ch \in Channels, p \in Proposals, o \in Objects,
              base \in Bases : SubmitForReview(ch, p, o, base)
  <2>1. PICK ch \in Channels, p \in Proposals, o \in Objects, base \in Bases :
             SubmitForReview(ch, p, o, base)
    BY <1>3
  <2>2. core' = Proposed(core, p, "review_required", o, NoTurn, base)
    BY <2>1 DEF SubmitForReview, Commit
  <2>3. core \in Core BY InvMeans DEF Healthy, Solid
  <2>4. core'.bound = core.bound BY <2>2, <2>3 DEF Proposed, Core
  <2> QED BY <2>4
<1>4. CASE \E reads \in BOOLEAN : TakeTurn(reads)
  <2>1. PICK reads \in BOOLEAN : TakeTurn(reads) BY <1>4
  <2> DEFINE u == story.turns + 1
             s == Settle(CreateTurn(story, story.active, TurnCommand(reads)), u)
  <2>2. story.turns < MaxTurns /\ core' = EnsureManifest(s, core, u)
    BY <2>1, <1>1 DEF TakeTurn, Committed
  <2>3. u \in Turns BY <2>2, TurnIds DEF Inv, TypeOK
  <2> HIDE DEF s, u
  <2>4. StillBound(EnsureManifest(s, core, u), core, Turns)
    BY <2>3, InvMeans, EnsureManifestBound DEF Healthy
  <2> QED BY <2>2, <2>4 DEF StillBound
<1> QED
  BY <1>1, <1>2, <1>3, <1>4
  DEF Next, vars, Submit, Flush, ApplyReviewed, Apply, Load, Refuse, Receipt,
      WriteStore, Record, Finish, Fail, EndApplied, EndFailed, Crash, Commit,
      Discard, ForkBranch, SwitchBranch, RollbackToTurn, Committed

\* What a turn has read it reads for ever, but for a mutation for that turn.
THEOREM ReadingAlwaysStable == Spec => ReadingIsStable
<1>1. Spec => []Rebound BY ReboundInit, ReboundNext, CoreSound, PTL DEF Spec
<1>2. Inv /\ Rebound /\ [Next]_vars =>
        [\A t \in Turns :
           core.bound[t] # NoManifest /\ core'.bound[t] # core.bound[t]
             => \E p \in Proposals :
                  /\ core'.prop[p].turn = t
                  /\ Applied(core', p) /\ ~ Applied(core, p)]_vars
  BY CommitStable
<1> QED BY <1>1, <1>2, CoreSound, PTL DEF Spec, ReadingIsStable
-----------------------------------------------------------------------------
(* Merging: what a proposal that was based on a revision adds itself to.   *)

AllMerged(c) == \A q \in Proposals : Merged(c, q)

\* The revisions there are stay what they are.
LEMMA RevisionsStay ==
  ASSUME NEW c \in Core, NEW d \in Core, Keeps(d, c), NEW o \in Objects,
         NEW n \in DOMAIN c.revs[o]
  PROVE  n \in DOMAIN d.revs[o] /\ d.revs[o][n] = c.revs[o][n]
<1>1. c.revs[o] \in Seq(Revision) /\ d.revs[o] \in Seq(Revision)
  BY CoreFields
<1>2. /\ DOMAIN c.revs[o] = 1..Len(c.revs[o]) /\ Len(c.revs[o]) \in Nat
      /\ DOMAIN d.revs[o] = 1..Len(d.revs[o]) /\ Len(d.revs[o]) \in Nat
  BY <1>1, LenProperties
<1>3. Extends(d.revs[o], c.revs[o]) BY DEF Keeps
<1> QED BY <1>2, <1>3 DEF Extends

SameRecord(d, c, q) ==
    /\ d.prop[q].target = c.prop[q].target /\ d.prop[q].turn = c.prop[q].turn
    /\ d.prop[q].base = c.prop[q].base
    /\ d.prop[q].receipts = c.prop[q].receipts

\* What is merged stays merged as long as its record does.
LEMMA MergedKept ==
  ASSUME NEW c \in Core, NEW d \in Core, Keeps(d, c), NEW q \in Proposals,
         SameRecord(d, c, q), Merged(c, q)
  PROVE  Merged(d, q)
<1> DEFINE o == c.prop[q].target
           base == c.prop[q].base
<1>1. Claimed(d, q) = Claimed(c, q) BY DEF Claimed, SameRecord
<1>2. OnBase(d, q) <=> OnBase(c, q) BY DEF OnBase, SameRecord
<1>3. ASSUME OnBase(c, q), NEW n \in Claimed(c, q)
      PROVE  /\ o \in Objects
             /\ n \in DOMAIN d.revs[o] /\ base \in DOMAIN d.revs[o]
             /\ d.revs[o][n].val = d.revs[o][base].val \cup {q}
  <2>1. /\ o \in Objects /\ n \in DOMAIN c.revs[o] /\ base \in DOMAIN c.revs[o]
        /\ c.revs[o][n].val = c.revs[o][base].val \cup {q}
    BY <1>3 DEF Merged
  <2>2. /\ n \in DOMAIN d.revs[o] /\ d.revs[o][n] = c.revs[o][n]
        /\ base \in DOMAIN d.revs[o] /\ d.revs[o][base] = c.revs[o][base]
    BY <2>1, RevisionsStay, SMTT(40)
  <2> QED BY <2>1, <2>2
<1> QED BY <1>1, <1>2, <1>3 DEF Merged, SameRecord

LEMMA AllMergedKept ==
  ASSUME NEW c \in Core, NEW d \in Core, Keeps(d, c), d.prop = c.prop, AllMerged(c)
  PROVE  AllMerged(d)
<1>1. \A q \in Proposals : SameRecord(d, c, q) BY DEF SameRecord
<1> QED BY <1>1, MergedKept DEF AllMerged

\* A proposal without a receipt claims nothing.
LEMMA BareIsMerged ==
  ASSUME NEW c, NEW q, c.prop[q].receipts = <<>>
  PROVE  Merged(c, q)
<1>1. Claimed(c, q) = {} BY BareIsWhole
<1> QED BY <1>1 DEF Merged

LEMMA ProposedMerged ==
  ASSUME NEW c, Healthy(c), AllMerged(c),
         NEW p \in Proposals, c.prop[p].status = "absent",
         NEW st \in {"pending", "review_required"},
         NEW o \in Objects, NEW t \in TurnRef, NEW base \in Nat
  PROVE  AllMerged(Proposed(c, p, st, o, t, base))
<1> DEFINE d == Proposed(c, p, st, o, t, base)
<1>1. c.prop[p].receipts = <<>> BY NotAppliedIsBare DEF Applied
<1>2. st \in ProposalStatus BY DEF ProposalStatus
<1>3. /\ Solid(d) /\ Keeps(d, c)
      /\ d.prop[p] = [status |-> st, target |-> o, turn |-> t, base |-> base,
                      receipts |-> <<>>]
      /\ \A q \in Proposals \ {p} : d.prop[q] = c.prop[q]
  BY <1>1, <1>2, ProposedSolid DEF Healthy
<1>4. d.prop[p].receipts = <<>> BY <1>3
<1> HIDE DEF d
<1>5. Merged(d, p) BY <1>4, BareIsMerged
<1>6. \A q \in Proposals \ {p} : SameRecord(d, c, q) BY <1>3 DEF SameRecord
<1>7. \A q \in Proposals \ {p} : Merged(d, q)
  BY <1>3, <1>6, MergedKept DEF AllMerged, Solid, Healthy
<1> QED BY <1>5, <1>7 DEF AllMerged, d

LEMMA MarkedMerged ==
  ASSUME NEW c, Solid(c), AllMerged(c), NEW p \in Proposals,
         NEW st \in ProposalStatus
  PROVE  AllMerged(Marked(c, p, st))
<1> DEFINE d == Marked(c, p, st)
<1>1. c.prop[p] \in Proposal BY CoreFields DEF Solid
<1>2. /\ Solid(d) /\ Keeps(d, c)
      /\ d.prop[p] = [c.prop[p] EXCEPT !.status = st]
      /\ \A q \in Proposals \ {p} : d.prop[q] = c.prop[q]
  BY MarkedSolid
<1> HIDE DEF d
<1>3. \A q \in Proposals : SameRecord(d, c, q)
  BY <1>1, <1>2 DEF Proposal, SameRecord
<1> QED BY <1>2, <1>3, MergedKept DEF AllMerged, Solid, d

LEMMA MergingMeans ==
  ASSUME Merging
  PROVE  /\ AllMerged(core) /\ AllMerged(save)
         /\ req.pc # "receipted" => AllMerged(work)
         /\ \A q \in Proposals \ {req.p} : Merged(work, q)
  BY DEF Merging, AllMerged

Carrying == {"loaded", "receipted"}

LEMMA NothingToCarry ==
  ASSUME AllMerged(core'), AllMerged(work'), AllMerged(save'),
         req'.pc \notin Carrying
  PROVE  Merging'
  BY DEF Merging, AllMerged, Carrying

LEMMA SubmissionMerging ==
  ASSUME Inv, Merging,
         \/ \E ch \in Channels, p \in Proposals, o \in Objects,
               t \in TurnRef, base \in Bases : Submit(ch, p, o, t, base)
         \/ \E ch \in Channels, p \in Proposals, o \in Objects,
               base \in Bases : SubmitForReview(ch, p, o, base)
         \/ \E p \in Proposals : ApplyReviewed(p)
  PROVE  Merging'
<1>1. Bases \subseteq Nat /\ NoTurn \in TurnRef
  BY InputAssumption, MaxTurnsAssumption DEF NoTurn, TurnRef
<1>2. Idle.pc = "idle" BY DEF Idle
<1>3. ASSUME NEW ch \in Channels, NEW p \in Proposals, NEW o \in Objects,
             NEW t \in TurnRef, NEW base \in Bases, Submit(ch, p, o, t, base)
      PROVE  Merging'
  <2>1. /\ req.pc # "receipted" /\ req.pc \notin Midway
        /\ work.prop[p].status = "absent"
        /\ work' = Proposed(work, p, "pending", o, t, base)
        /\ core' = core /\ save' = save
        /\ req' = [Idle EXCEPT !.pc = "submitted", !.ch = ch, !.p = p]
    BY <1>3 DEF Submit, MaySubmit, Flush, Midway
  <2>2. Healthy(work) /\ AllMerged(work) BY <2>1, InvMeans, MergingMeans
  <2>3. AllMerged(work') BY <1>1, <2>1, <2>2, ProposedMerged
  <2>4. req'.pc \notin Carrying BY <2>1 DEF Idle, Carrying
  <2> QED BY <2>1, <2>3, <2>4, MergingMeans, NothingToCarry
<1>4. ASSUME NEW ch \in Channels, NEW p \in Proposals, NEW o \in Objects,
             NEW base \in Bases, SubmitForReview(ch, p, o, base)
      PROVE  Merging'
  <2>1. /\ core.prop[p].status = "absent" /\ req' = Idle
        /\ core' = Proposed(core, p, "review_required", o, NoTurn, base)
        /\ work' = core' /\ save' = core'
    BY <1>4 DEF SubmitForReview, Commit
  <2>2. Healthy(core) /\ AllMerged(core) BY InvMeans, MergingMeans
  <2>3. AllMerged(core') BY <1>1, <2>1, <2>2, ProposedMerged
  <2> QED BY <1>2, <2>1, <2>3, NothingToCarry DEF Carrying
<1>5. ASSUME NEW p \in Proposals, ApplyReviewed(p) PROVE Merging'
  <2>1. /\ req.pc # "receipted"
        /\ req' = [Idle EXCEPT !.pc = "submitted", !.ch = "review", !.p = p]
        /\ core' = core /\ work' = work /\ save' = save
    BY <1>5 DEF ApplyReviewed
  <2>2. req'.pc \notin Carrying BY <2>1 DEF Idle, Carrying
  <2> QED BY <2>1, <2>2, MergingMeans, NothingToCarry
<1> QED BY <1>3, <1>4, <1>5

\* A leading store has a row for the target once it is loaded.
LEMMA LoadedLeads ==
  ASSUME NEW s, NEW c, Solid(c), NEW p \in Proposals,
         c.prop[p].target \in Objects, NEW primary \in BOOLEAN, primary
  PROVE  Loaded(s, c, p, primary).row[c.prop[p].target].rev # NoRevision
<1> DEFINE o == c.prop[p].target
           pinned == IF Pinned(c, p) THEN EnsureManifest(s, c, c.prop[p].turn) ELSE c
           d == Loaded(s, c, p, primary)
<1>1. CASE pinned.row[o].rev = NoRevision
  <2>1. d = SeedRow(pinned, o) BY <1>1 DEF Loaded, Target
  <2>2. Solid(pinned)
    <3>1. CASE Pinned(c, p)
      BY <3>1, PinnedTurnTyped, EnsureManifestGrown DEF Grown, Solid
    <3>2. CASE ~ Pinned(c, p) BY <3>2
    <3> QED BY <3>1, <3>2
  <2> HIDE DEF pinned, d
  <2>3. o \in Objects /\ pinned \in Core BY <2>2 DEF Solid
  <2> HIDE DEF o
  <2>4. d.row[o] = [rev |-> 1, val |-> pinned.mirror[o]]
    BY <2>1, <2>3 DEF SeedRow, Written, Core
  <2>5. d.row[o].rev # NoRevision BY <2>4 DEF NoRevision
  <2> QED BY <2>5 DEF d, o
<1>2. CASE pinned.row[o].rev # NoRevision BY <1>2 DEF Loaded, Target
<1> QED BY <1>1, <1>2

\* What apply_proposal works on is the revision the proposal is based on:
\* what the turn reads, or else the current row of a leading store, which is
\* the newest revision.
LEMMA LoadCarries ==
  ASSUME Inv, Load, Writes(req.ch)
  PROVE  Carries(work, req.p)'
<1> DEFINE p == req.p
           o == work.prop[p].target
           t == work.prop[p].turn
           c == Loaded(story, work, p, Leads(req.ch))
           before == BeforeView(c, p, Leads(req.ch))
           after == [before EXCEPT ![Target(c, p)] = @ \cup {p}]
<1>1. /\ req.pc = "submitted" /\ Resolvable(c, p) /\ BaseIsVisible(c, p, TRUE)
      /\ work' = c /\ req'.p = p /\ req'.after = after
  BY DEF Load, Inv, TypeOK, RequestState
<1>2. Healthy(work) /\ Solid(work) BY <1>1, InvMeans DEF Midway
<1>3. p \in Proposals /\ o \in Objects
  BY <1>1, InvMeans DEF Inv, OnItsWay, InHand
<1>4. Grown(c, work) BY <1>2, <1>3, LoadedGrown
<1>5. Solid(c) /\ c.prop = work.prop BY <1>4 DEF Grown
<1>6. Leads(req.ch) <=> StorePrimary BY SwitchAssumption DEF Writes, Leads
<1>7. StorePrimary => c.row[o].rev # NoRevision
  <2>1. Leads(req.ch) \in BOOLEAN BY SwitchAssumption DEF Leads
  <2> HIDE DEF p
  <2> QED BY <2>1, <1>2, <1>3, <1>6, LoadedLeads
<1> HIDE DEF c
<1>8. Target(c, p) = o /\ c.prop[p].turn = t BY <1>5 DEF Target
<1>9. before \in [Objects -> Value]
  BY <1>1, <1>3, <1>5, BeforeViewTyped
<1>10. ASSUME OnBase(c, p)
       PROVE  /\ c.prop[p].base \in DOMAIN c.revs[o]
              /\ before[o] = c.revs[o][c.prop[p].base].val
  <2>1. c.prop[p].base # NoRevision BY <1>10 DEF OnBase
  <2>2. c.prop[p].base = VisibleRevision(c, p, TRUE)
    BY <2>1, <1>1 DEF BaseIsVisible
  <2>3. /\ DOMAIN c.revs[o] = 1..Len(c.revs[o]) /\ Len(c.revs[o]) \in Nat
        /\ Len(c.revs[o]) = c.row[o].rev
    BY <1>3, <1>5, RowLength, LenProperties
  <2>4. CASE Pinned(c, p)
    <3>1. c.prop[p].base = AsOf(c, t, o) BY <2>2, <2>4, <1>8 DEF VisibleRevision
    <3>2. t \in Turns BY <1>3, <1>5, <1>8, <2>4, PinnedTurnTyped DEF Solid
    <3>3. AsOf(c, t, o) \in Nat /\ AsOf(c, t, o) <= Len(c.revs[o])
      BY <1>3, <1>5, <3>2, AsOfThere
    <3>4. before[o] = c.revs[o][AsOf(c, t, o)].val
      <4>1. CurrentView(c, Leads(req.ch)) \in [Objects -> Value]
        BY <1>5, CurrentViewTyped DEF Solid
      <4> QED BY <4>1, <2>4, <1>3, <1>8 DEF BeforeView
    <3>5. c.prop[p].base \in 1..Len(c.revs[o])
      BY <2>1, <2>3, <3>1, <3>3 DEF NoRevision
    <3> HIDE DEF before
    <3> QED BY <2>3, <3>1, <3>4, <3>5
  <2>5. CASE ~ Pinned(c, p)
    <3>1. StorePrimary BY <1>10, <2>5 DEF OnBase, Pinned
    <3>2. c.prop[p].base = c.row[o].rev
      BY <2>2, <2>5, <1>8 DEF VisibleRevision, CurrentRevision
    <3>3. before[o] = c.row[o].val
      BY <3>1, <1>3, <1>6, <1>7, <2>5 DEF BeforeView, CurrentView
    <3>4. c.row[o].val = c.revs[o][c.row[o].rev].val
      BY <1>3, <1>5, <1>7, <2>3, <3>1 DEF Solid, RowsAreNewest, NoRevision
    <3>5. c.prop[p].base \in 1..Len(c.revs[o])
      BY <2>1, <2>3, <3>2, SMTT(40) DEF NoRevision
    <3> HIDE DEF before
    <3> QED BY <2>3, <3>2, <3>3, <3>4, <3>5
  <2> QED BY <2>4, <2>5
<1> HIDE DEF before
<1>11. after[o] = before[o] \cup {p} BY <1>3, <1>8, <1>9
<1>12. c.prop[p].target = o BY <1>8 DEF Target
<1>13. /\ work' = c /\ req'.p = p /\ req'.after[o] = before[o] \cup {p}
  BY <1>1, <1>11
<1> HIDE DEF after, o, p
<1> QED BY <1>10, <1>12, <1>13 DEF Carries, OnBase

LEMMA LoadMerging ==
  ASSUME Inv, Merging, Load
  PROVE  Merging'
<1> DEFINE c == Loaded(story, work, req.p, Leads(req.ch))
<1>1. req.pc = "submitted" /\ core' = core /\ save' = work /\ work' = c
  BY DEF Load
<1>2. req'.pc = "loaded" /\ req'.ch = req.ch
  BY DEF Load, Inv, TypeOK, RequestState
<1>3. Solid(work) /\ AllMerged(work) BY <1>1, InvMeans, MergingMeans
<1>4. req.p \in Proposals /\ work.prop[req.p].target \in Objects
  BY <1>1, InvMeans DEF Inv, OnItsWay, InHand
<1>5. Grown(c, work) BY <1>3, <1>4, LoadedGrown
<1> HIDE DEF c
<1>6. AllMerged(c) BY <1>3, <1>5, AllMergedKept DEF Grown, Solid
<1>7. Writes(req.ch)' => Carries(work, req.p)'
  BY <1>2, LoadCarries DEF Writes
<1> QED BY <1>1, <1>2, <1>3, <1>6, <1>7, MergingMeans DEF Merging, AllMerged

LEMMA ReceiptMerging ==
  ASSUME Inv, Merging, Receipt
  PROVE  Merging'
<1> DEFINE p == req.p
           w == Writes(req.ch)
           c == IF Leads(req.ch) THEN work ELSE [work EXCEPT !.mirror = req.after]
           d == Receipted(c, p, req.rev, w)
<1>1. req.pc = "loaded" /\ Flush(d) /\ Goto("receipted") BY DEF Receipt
<1>2. /\ core' = core /\ save' = save /\ work' = d
      /\ req'.pc = "receipted" /\ req'.p = p
  BY <1>1, StepFields DEF PC
<1>3. req'.ch = req.ch /\ req'.after = req.after
  BY <1>1 DEF Goto, Inv, TypeOK, RequestState
<1>4. Solid(work) /\ AllMerged(work) BY <1>1, InvMeans, MergingMeans
<1>5. p \in Proposals BY <1>1 DEF Inv, OnItsWay, Applying, InHand
<1>6. req.after \in [Objects -> Value] /\ req.rev \in Nat /\ w \in BOOLEAN
  BY RequestFields DEF View
<1>7. Solid(c) /\ Keeps(c, work) /\ c.prop = work.prop /\ SameStore(c, work)
  <2>1. CASE Leads(req.ch)
    BY <2>1, <1>4, KeepsReflexive DEF Solid, SameStore
  <2>2. CASE ~ Leads(req.ch)
    BY <2>2, <1>4, <1>6, MirrorGrown DEF Grown
  <2> QED BY <2>1, <2>2
<1> HIDE DEF c
<1>8. /\ Solid(d) /\ Keeps(d, c) /\ SameStore(d, c)
      /\ OneMoreReceipt(d, c, p, req.rev, w)
  BY <1>5, <1>6, <1>7, ReceiptedSolid
<1> HIDE DEF d, w
<1>9. Keeps(d, work) BY <1>4, <1>7, <1>8, KeepsTransitive DEF Solid
<1>10. \A q \in Proposals \ {p} : SameRecord(d, work, q)
  BY <1>7, <1>8 DEF OneMoreReceipt, SameRecord
<1>11. \A q \in Proposals \ {p} : Merged(d, q)
  BY <1>4, <1>8, <1>9, <1>10, MergedKept DEF AllMerged, Solid
<1>12. /\ d.prop[p].target = work.prop[p].target
       /\ d.prop[p].turn = work.prop[p].turn /\ d.prop[p].base = work.prop[p].base
       /\ d.revs = work.revs
  BY <1>7, <1>8 DEF OneMoreReceipt, SameStore
<1>13. Writes(req.ch)' => Carries(work, req.p)'
  <2>1. Writes(req.ch)' => Carries(work, p) BY <1>1, <1>3 DEF Merging, Writes
  <2> QED BY <2>1, <1>2, <1>3, <1>12, ZenonT(40) DEF Carries, OnBase
<1> QED BY <1>2, <1>11, <1>13, MergingMeans DEF Merging, AllMerged

\* apply_authoritative_mutation writes what the request carries.
Holds(c, o, n, v) == n \in DOMAIN c.revs[o] /\ c.revs[o][n].val = v

LEMMA MutatedRevision ==
  ASSUME NEW c, Solid(c), NEW p \in Proposals, c.prop[p].target \in Objects,
         NEW n \in Nat, n = c.row[c.prop[p].target].rev + 1,
         NEW before, NEW after \in Value
  PROVE  Holds(Mutated(c, p, n, before, after), c.prop[p].target, n, after)
<1> DEFINE o == c.prop[p].target
           r == [val |-> after, by |-> p]
           h == Append(c.revs[o], r)
           d == Mutated(c, p, n, before, after)
<1>1. ~ (n > 1 /\ c.revs[o] = <<>>) BY RowLength DEF NoRevision
<1>2. d = Written(c, o, n, after, p) BY <1>1 DEF Mutated, Target
<1>3. c \in Core /\ c.revs \in [Objects -> Seq(Revision)] BY CoreFields DEF Solid
<1>4. /\ c.revs[o] \in Seq(Revision) /\ Len(c.revs[o]) \in Nat
      /\ n = Len(c.revs[o]) + 1 /\ ~ (n <= Len(c.revs[o])) /\ n \in 1..n
  <2>1. /\ c.revs[o] \in Seq(Revision) /\ c.row[o].rev \in Nat
        /\ Len(c.revs[o]) = c.row[o].rev
    BY RowLength
  <2> HIDE DEF o
  <2>2. n = c.row[o].rev + 1 BY DEF o
  <2>3. n = Len(c.revs[o]) + 1 BY <2>1, <2>2
  <2>4. \A k \in Nat : n = k + 1 => ~ (n <= k) /\ n \in 1..n OBVIOUS
  <2> QED BY <2>1, <2>3, <2>4
<1>5. r \in Revision /\ r.val = after BY DEF Revision
<1> HIDE DEF r
<1>6. h \in Seq(Revision) /\ Len(h) = n /\ h[n] = r
  BY <1>4, <1>5, AppendProperties, SMTT(30)
<1>7. DOMAIN h = 1..n BY <1>6, LenProperties
<1> HIDE DEF d
<1>8. d.revs[o] = h
  <2>1. Upserted(c.revs[o], n, r) = h BY <1>4 DEF Upserted
  <2> HIDE DEF h
  <2> QED BY <1>2, <1>3, <2>1 DEF Written, Core, r
<1> HIDE DEF h
<1>9. n \in DOMAIN d.revs[o] /\ d.revs[o][n].val = after
  BY <1>4, <1>5, <1>6, <1>7, <1>8
<1> QED BY <1>9 DEF d, Holds

LEMMA WriteStoreMerging ==
  ASSUME Inv, Pieces, Merging, WriteStore
  PROVE  Merging'
<1> DEFINE p == req.p
           o == work.prop[p].target
           after == req.after[o]
           d == IF Writes(req.ch)
                THEN Mutated(work, p, req.rev, req.before, after) ELSE work
<1>1. req.pc = "receipted" /\ Flush(d) /\ Goto("written")
  BY DEF WriteStore, Target
<1>2. /\ core' = core /\ save' = save /\ work' = d
      /\ req'.pc = "written" /\ req'.p = p
  BY <1>1, StepFields DEF PC
<1>3. /\ Solid(work) /\ Keeps(work, work) /\ p \in Proposals /\ o \in Objects
  BY <1>1, MidwayMeans DEF Midway
<1>4. req.rev \in Nat /\ after \in Value BY <1>3, RequestFields DEF View
<1>5. Claimed(work, p) = Claims BY <1>1 DEF Pieces
<1>6. CASE Writes(req.ch)
  <2>1. d = Mutated(work, p, req.rev, req.before, after) BY <1>6
  <2>2. req.rev = work.row[o].rev + 1
    BY <1>1, <1>6 DEF Inv, OnItsWay, Target
  <2>3. Carries(work, p) BY <1>1, <1>6 DEF Merging
  <2> HIDE DEF d
  <2>4. Grown(d, work) BY <2>1, <2>2, <1>3, <1>4, MutatedGrown
  <2>5. req.rev \in DOMAIN d.revs[o] /\ d.revs[o][req.rev].val = after
    <3> HIDE DEF after
    <3>1. Holds(Mutated(work, p, req.rev, req.before, after), o, req.rev, after)
      BY <2>2, <1>3, <1>4, MutatedRevision
    <3> QED BY <3>1, <2>1 DEF Holds
  <2>6. /\ work \in Core /\ d \in Core /\ Keeps(d, work) /\ d.prop = work.prop
    BY <2>4, <1>3 DEF Solid, Grown
  <2>7. \A q \in Proposals \ {p} : SameRecord(d, work, q) BY <2>6 DEF SameRecord
  <2>8. \A q \in Proposals \ {p} : Merged(d, q)
    BY <2>6, <2>7, MergingMeans, MergedKept
  <2>9. Claimed(d, p) = {req.rev} BY <2>6, <1>5, <1>6 DEF Claimed, Claims
  <2>10. Merged(d, p)
    <3> DEFINE base == work.prop[p].base
    <3>1. ASSUME OnBase(work, p)
          PROVE  /\ base \in DOMAIN d.revs[o]
                 /\ d.revs[o][req.rev].val = d.revs[o][base].val \cup {p}
      <4>1. base \in DOMAIN work.revs[o] /\ after = work.revs[o][base].val \cup {p}
        BY <2>3, <3>1 DEF Carries
      <4>2. base \in DOMAIN d.revs[o] /\ d.revs[o][base] = work.revs[o][base]
        <5> HIDE DEF base, o
        <5> QED BY <4>1, <2>6, <1>3, RevisionsStay
      <4> QED BY <4>1, <4>2, <2>5
    <3>2. OnBase(d, p) <=> OnBase(work, p) BY <2>6 DEF OnBase
    <3> QED BY <3>1, <3>2, <2>5, <2>6, <2>9, <1>3 DEF Merged
  <2>11. AllMerged(d) BY <2>8, <2>10 DEF AllMerged
  <2> QED BY <2>11, <1>2, MergingMeans, NothingToCarry DEF Carrying
<1>7. CASE ~ Writes(req.ch)
  <2>1. d = work /\ Claimed(work, p) = {} BY <1>5, <1>7 DEF Claims
  <2>2. Merged(work, p) BY <2>1 DEF Merged
  <2>3. AllMerged(work) BY <2>2, MergingMeans DEF AllMerged
  <2> QED BY <2>1, <2>3, <1>2, MergingMeans, NothingToCarry DEF Carrying
<1> QED BY <1>6, <1>7

LEMMA RecordMerging ==
  ASSUME Inv, Merging, Record
  PROVE  Merging'
<1> DEFINE p == req.p
           o == work.prop[p].target
           t == work.prop[p].turn
           d == IF Writes(req.ch) /\ Pinned(work, p)
                THEN RecordMutation(story, work, t, o, req.rev) ELSE work
<1>1. req.pc = "written" /\ Flush(d) /\ Goto("recorded")
  BY DEF Record, Target
<1>2. /\ core' = core /\ save' = save /\ work' = d /\ req'.pc = "recorded"
  BY <1>1, StepFields DEF PC
<1>3. Solid(work) /\ p \in Proposals /\ o \in Objects
  BY <1>1, MidwayMeans DEF Midway
<1>4. AllMerged(work) BY <1>1, MergingMeans
<1>5. AllMerged(d)
  <2>1. CASE Writes(req.ch) /\ Pinned(work, p)
    <3>1. d = RecordMutation(story, work, t, o, req.rev) BY <2>1
    <3>2. t \in Turns BY <2>1, <1>3, PinnedTurnTyped DEF Solid
    <3>3. req.rev \in Nat /\ req.rev <= Len(work.revs[o])
      BY <1>1, <2>1, RequestFields DEF Inv, OnItsWay, Target
    <3> HIDE DEF d
    <3>4. Grown(d, work) BY <3>1, <3>2, <3>3, <1>3, RecordMutationGrown
    <3> QED BY <3>4, <1>3, <1>4, AllMergedKept DEF Grown, Solid
  <2>2. CASE ~ (Writes(req.ch) /\ Pinned(work, p)) BY <2>2, <1>4
  <2> QED BY <2>1, <2>2
<1> HIDE DEF d
<1> QED BY <1>2, <1>5, MergingMeans, NothingToCarry DEF Carrying

LEMMA FinishMerging ==
  ASSUME Inv, Merging, Finish
  PROVE  Merging'
<1> DEFINE p == req.p
           c == IF Leads(req.ch) THEN [work EXCEPT !.mirror = req.after] ELSE work
           d == Marked(c, p, "applied")
<1>1. req.pc = "recorded" /\ Flush(d) /\ Goto("routed") BY DEF Finish
<1>2. /\ core' = core /\ save' = save /\ work' = d /\ req'.pc = "routed"
  BY <1>1, StepFields DEF PC
<1>3. Solid(work) /\ p \in Proposals /\ AllMerged(work)
  BY <1>1, MidwayMeans, MergingMeans DEF Midway
<1>4. Grown(c, work)
  <2>1. CASE Leads(req.ch)
    <3>1. req.after \in [Objects -> Value] BY RequestFields DEF View
    <3> QED BY <3>1, <2>1, <1>3, MirrorGrown
  <2>2. CASE ~ Leads(req.ch) BY <2>2, <1>3, GrownReflexive
  <2> QED BY <2>1, <2>2
<1> HIDE DEF c
<1>5. Solid(c) /\ AllMerged(c) BY <1>3, <1>4, AllMergedKept DEF Grown, Solid
<1>6. "applied" \in ProposalStatus BY DEF ProposalStatus
<1>7. AllMerged(d) BY <1>3, <1>5, <1>6, MarkedMerged
<1> HIDE DEF d
<1> QED BY <1>2, <1>7, MergingMeans, NothingToCarry DEF Carrying

LEMMA ApplyMerging ==
  ASSUME Inv, Pieces, Merging, Apply
  PROVE  Merging'
<1>1. ASSUME NEW c, Healthy(c), AllMerged(c), InHand(c),
             Flush(Marked(c, req.p, "failed")), Goto("failed")
      PROVE  Merging'
  <2>1. "failed" \in ProposalStatus BY DEF ProposalStatus
  <2>2. AllMerged(Marked(c, req.p, "failed"))
    BY <1>1, <2>1, MarkedMerged DEF Healthy, InHand
  <2>3. /\ core' = core /\ save' = save /\ req'.pc = "failed"
        /\ work' = Marked(c, req.p, "failed")
    BY <1>1, StepFields DEF PC
  <2> QED BY <2>2, <2>3, MergingMeans, NothingToCarry DEF Carrying
<1>2. CASE Refuse
  <2>1. req.pc = "submitted" BY <1>2 DEF Refuse
  <2>2. Healthy(work) /\ AllMerged(work) /\ InHand(work)
    BY <2>1, InvMeans, MergingMeans DEF Midway, Inv, OnItsWay
  <2> QED BY <2>2, <1>1, <1>2 DEF Refuse
<1>3. CASE Fail
  <2>1. req.pc \in Applying BY <1>3 DEF Fail, Applying
  <2>2. Healthy(save) /\ AllMerged(save) /\ InHand(save)
    BY <2>1, InvMeans, MergingMeans DEF Inv, OnItsWay
  <2> QED BY <2>2, <1>1, <1>3 DEF Fail
<1> QED BY <1>2, <1>3, LoadMerging, ReceiptMerging, WriteStoreMerging,
           RecordMerging, FinishMerging DEF Apply

LEMMA EndMerging ==
  ASSUME Inv, Merging, EndApplied \/ EndFailed \/ Crash
  PROVE  Merging'
<1>1. /\ work' = core' /\ save' = core' /\ req' = Idle
      /\ \/ core' = core
         \/ core' = work /\ req.pc \in {"routed", "failed"}
  BY DEF EndApplied, EndFailed, Crash, Discard, Commit
<1>2. AllMerged(core') BY <1>1, MergingMeans
<1>3. req'.pc \notin Carrying BY <1>1 DEF Idle, Carrying
<1> QED BY <1>1, <1>2, <1>3, NothingToCarry

LEMMA TurnsMerging ==
  ASSUME Inv, Merging,
         \/ \E reads \in BOOLEAN : TakeTurn(reads)
         \/ \E t \in Turns, b \in Branches : ForkBranch(t, b)
         \/ \E b \in Branches : SwitchBranch(b)
         \/ \E t \in Turns : RollbackToTurn(t)
  PROVE  Merging'
<1> DEFINE t == story.turns + 1
           s == Settle(CreateTurn(story, story.active, TurnCommand(TRUE)), t)
<1>1. /\ req' = req /\ req.pc = "idle" /\ work' = core' /\ save' = core'
      /\ \/ core' = core
         \/ core' = EnsureManifest(s, core, t) /\ story.turns < MaxTurns
  BY DEF TakeTurn, ForkBranch, SwitchBranch, RollbackToTurn, Committed
<1>2. Solid(core) /\ AllMerged(core) BY InvMeans, MergingMeans DEF Healthy
<1>3. CASE core' = EnsureManifest(s, core, t) /\ story.turns < MaxTurns
  <2>1. t \in Turns BY <1>3, TurnIds DEF Inv, TypeOK
  <2> HIDE DEF t, s
  <2>2. Grown(core', core) BY <2>1, <1>2, <1>3, EnsureManifestGrown
  <2>3. AllMerged(core') BY <2>2, <1>2, AllMergedKept DEF Grown, Solid
  <2> QED BY <2>3, <1>1, NothingToCarry DEF Carrying
<1>4. CASE core' = core BY <1>1, <1>2, <1>4, NothingToCarry DEF Carrying
<1> QED BY <1>1, <1>3, <1>4

LEMMA MergingNext == Inv /\ Pieces /\ Merging /\ [Next]_vars => Merging'
<1> SUFFICES ASSUME Inv, Pieces, Merging, [Next]_vars PROVE Merging' OBVIOUS
<1>1. CASE UNCHANGED vars
  BY <1>1 DEF vars, Merging, Carries, Writes
<1> QED
  BY <1>1, SubmissionMerging, ApplyMerging, EndMerging, TurnsMerging DEF Next

LEMMA MergingInit == Init => Merging
<1> SUFFICES ASSUME Init PROVE Merging OBVIOUS
<1>1. \A p \in Proposals : /\ EmptyCore.prop[p].receipts = <<>>
                           /\ SeedRows(EmptyCore).prop[p].receipts = <<>>
  BY DEF EmptyCore, NoProposal, SeedRows
<1>2. AllMerged(core) BY <1>1, BareIsMerged DEF Init, AllMerged
<1>3. work = core /\ save = core /\ req.pc = "idle" BY DEF Init, Idle
<1> QED BY <1>2, <1>3 DEF Merging, AllMerged

\* What a proposal adds to is the revision it was based on.
THEOREM AlwaysMergedOnBase == Spec => []MergedOnBase
<1>1. Spec => []Pieces BY PiecesInit, PiecesNext, CoreSound, PTL DEF Spec
<1>2. Spec => []Merging BY <1>1, MergingInit, MergingNext, CoreSound, PTL DEF Spec
<1>3. Merging => MergedOnBase
  BY DEF Merging, MergedOnBase, Merged, OnBase
<1> QED BY <1>2, <1>3, PTL

-----------------------------------------------------------------------------
(* Adding: no change is lost or doubled in the copy that leads.            *)

\* Rows stay, but that one may be seeded; the mirror stays.
Seeded(d, c) ==
    /\ d.mirror = c.mirror
    /\ \A o \in Objects : c.row[o].rev # NoRevision => d.row[o] = c.row[o]

\* What is applied or claims a revision is the same.
SameChanges(d, c) ==
    \A q \in Proposals :
        /\ Applied(d, q) <=> Applied(c, q)
        /\ d.prop[q].receipts = c.prop[q].receipts
        /\ Applied(c, q) => /\ d.prop[q].target = c.prop[q].target
                            /\ d.prop[q].turn = c.prop[q].turn

LEMMA SeedRowsSeeds ==
  ASSUME NEW c, Solid(c), ~ HasRows(c)
  PROVE  Seeded(SeedRows(c), c)
  BY DEF Seeded, SeedRows, HasRows, Solid, Core

LEMMA RecordedSeeds ==
  ASSUME NEW c, NEW d, Solid(c), Solid(d), Seeded(d, c), NEW t, NEW map, NEW kind
  PROVE  Seeded(Recorded(d, t, map, kind), c)
<1> DEFINE e == Recorded(d, t, map, kind)
<1>1. e.mirror = d.mirror /\ e.row = d.row BY DEF Recorded, Solid, Core
<1> HIDE DEF e
<1>2. Seeded(e, c) BY <1>1 DEF Seeded
<1> QED BY <1>2 DEF e

LEMMA EnsureManifestSeeds ==
  ASSUME NEW s, NEW c, Solid(c), NEW t \in Turns
  PROVE  Seeded(EnsureManifest(s, c, t), c)
<1> DEFINE inherited == LatestVisible(s, c, t, FALSE)
           seeded == IF HasRows(c) THEN c ELSE SeedRows(c)
           d == EnsureManifest(s, c, t)
<1>1. CASE d = c BY <1>1 DEF Seeded
<1>2. CASE d = [c EXCEPT !.bound[t] = inherited]
  <2>1. [c EXCEPT !.bound[t] = inherited].mirror = c.mirror
    BY DEF Solid, Core
  <2>2. [c EXCEPT !.bound[t] = inherited].row = c.row
    BY DEF Solid, Core
  <2> HIDE DEF d, inherited
  <2> QED BY <1>2, <2>1, <2>2 DEF Seeded, d
<1>3. CASE d = ManifestFromRows(c, t)
  <2>1. Solid(seeded) /\ Seeded(seeded, c)
    <3>1. CASE HasRows(c) BY <3>1 DEF Seeded
    <3>2. CASE ~ HasRows(c)
      BY <3>2, SeedRowsSeeds, SeedRowsGrown DEF Grown
    <3> QED BY <3>1, <3>2
  <2> HIDE DEF seeded, d
  <2>2. Seeded(ManifestFromRows(c, t), c)
    BY <2>1, RecordedSeeds DEF ManifestFromRows, seeded
  <2> QED BY <1>3, <2>2 DEF d
<1>4. CASE d = UnavailableManifest(c, t)
  <2>1. Seeded(c, c) BY DEF Seeded
  <2>2. Seeded(UnavailableManifest(c, t), c)
    BY <2>1, RecordedSeeds DEF UnavailableManifest
  <2> HIDE DEF d
  <2> QED BY <1>4, <2>2 DEF d
<1>5. \/ d = c \/ d = [c EXCEPT !.bound[t] = inherited]
      \/ d = ManifestFromRows(c, t) \/ d = UnavailableManifest(c, t)
  BY DEF EnsureManifest
<1> QED BY <1>1, <1>2, <1>3, <1>4, <1>5

LEMMA LoadedSeeds ==
  ASSUME NEW s, NEW c, Solid(c), NEW p \in Proposals,
         c.prop[p].target \in Objects, NEW primary \in BOOLEAN
  PROVE  Seeded(Loaded(s, c, p, primary), c)
<1> DEFINE o == c.prop[p].target
           t == c.prop[p].turn
           pinned == IF Pinned(c, p) THEN EnsureManifest(s, c, t) ELSE c
           d == Loaded(s, c, p, primary)
<1>1. Solid(pinned) /\ Seeded(pinned, c)
  <2>1. CASE Pinned(c, p)
    BY <2>1, PinnedTurnTyped, EnsureManifestGrown, EnsureManifestSeeds
       DEF Grown, Solid
  <2>2. CASE ~ Pinned(c, p) BY <2>2 DEF Seeded
  <2> QED BY <2>1, <2>2
<1>2. \/ d = pinned
      \/ pinned.row[o].rev = NoRevision /\ d = SeedRow(pinned, o)
  BY DEF Loaded, Target
<1> HIDE DEF pinned, d
<1>3. CASE pinned.row[o].rev = NoRevision /\ d = SeedRow(pinned, o)
  <2>1. /\ d.mirror = pinned.mirror
        /\ \A x \in Objects \ {o} : d.row[x] = pinned.row[x]
    BY <1>1, <1>3 DEF SeedRow, Written, Solid, Core
  <2> QED BY <1>1, <1>3, <2>1 DEF Seeded, d
<1> QED BY <1>1, <1>2, <1>3 DEF d

\* What Seeded needs of an operation that writes neither rows nor the mirror.
LEMMA RecordsSeed ==
  ASSUME NEW c, Solid(c), NEW p \in Proposals, NEW st, NEW o, NEW t, NEW base
  PROVE  /\ Marked(c, p, st).mirror = c.mirror /\ Marked(c, p, st).row = c.row
         /\ Proposed(c, p, st, o, t, base).mirror = c.mirror
         /\ Proposed(c, p, st, o, t, base).row = c.row
<1>1. Marked(c, p, st).mirror = c.mirror /\ Marked(c, p, st).row = c.row
  BY DEF Marked, Solid, Core
<1>2. /\ Proposed(c, p, st, o, t, base).mirror = c.mirror
      /\ Proposed(c, p, st, o, t, base).row = c.row
  BY DEF Proposed, Solid, Core
<1> QED BY <1>1, <1>2

LEMMA ReceiptedMirror ==
  ASSUME NEW c, Solid(c), NEW p \in Proposals, NEW n, NEW w
  PROVE  Receipted(c, p, n, w).mirror = c.mirror
  BY DEF Receipted, Solid, Core

\* apply_authoritative_mutation: the row of the target, and nothing else.
RowWritten(d, c, o, v) ==
    /\ d.row[o].val = v
    /\ \A x \in Objects \ {o} : d.row[x] = c.row[x]
    /\ d.mirror = c.mirror

LEMMA MutatedRow ==
  ASSUME NEW c, Solid(c), NEW p \in Proposals, c.prop[p].target \in Objects,
         NEW n \in Nat, n = c.row[c.prop[p].target].rev + 1,
         NEW before, NEW after
  PROVE  RowWritten(Mutated(c, p, n, before, after), c, c.prop[p].target, after)
<1> DEFINE o == c.prop[p].target
           d == Written(c, o, n, after, p)
<1>1. ~ (n > 1 /\ c.revs[o] = <<>>) BY RowLength DEF NoRevision
<1>2. Mutated(c, p, n, before, after) = d BY <1>1 DEF Mutated, Target
<1>3. c \in Core BY DEF Solid
<1>4. /\ d.row[o] = [rev |-> n, val |-> after]
      /\ \A x \in Objects \ {o} : d.row[x] = c.row[x]
      /\ d.mirror = c.mirror
  BY <1>3 DEF Written, Core
<1> HIDE DEF d
<1>5. d.row[o].val = after BY <1>4
<1> QED BY <1>2, <1>4, <1>5 DEF RowWritten

\* A proposal that claims a revision has a target with a row.
LEMMA ClaimedHasRow ==
  ASSUME NEW c, Healthy(c), AllWhole(c), NEW q \in Proposals,
         Claimed(c, q) # {}
  PROVE  /\ Applied(c, q) /\ c.prop[q].target \in Objects
         /\ c.row[c.prop[q].target].rev # NoRevision
<1> DEFINE o == c.prop[q].target
<1>1. c.prop[q].receipts # <<>> BY BareIsWhole
<1>2. Applied(c, q) /\ o \in Objects
  BY <1>1 DEF Healthy, Once, Applied
<1>3. WrittenBy(c, q, o) # {} BY <1>2 DEF AllWhole, Whole, HasWritten
<1>4. c.revs[o] # <<>>
  <2>1. c.revs[o] = <<>> => DOMAIN c.revs[o] = {} OBVIOUS
  <2> QED BY <1>3, <2>1 DEF WrittenBy
<1> QED BY <1>2, <1>4, RowLength DEF Healthy

\* An operation that may seed rows and changes nothing about the proposals
\* that count keeps them all.
LEMMA AddsUpKept ==
  ASSUME NEW c, Healthy(c), AllWhole(c), NEW d, Seeded(d, c), SameChanges(d, c),
         AddsUp(c)
  PROVE  AddsUp(d)
<1> SUFFICES ASSUME Untied(d)
             PROVE  IF StorePrimary THEN \A p \in Proposals : InRow(d, p)
                                    ELSE InMirror(d)
  BY DEF AddsUp
<1>1. Untied(c) BY DEF Untied, SameChanges
<1>2. CASE StorePrimary
  <2>1. ASSUME NEW p \in Proposals, Claimed(d, p) # {}
        PROVE  p \in d.row[d.prop[p].target].val
    <3>1. Claimed(c, p) # {} BY <2>1 DEF Claimed, SameChanges
    <3>2. /\ c.prop[p].target \in Objects
          /\ d.prop[p].target = c.prop[p].target
          /\ c.row[c.prop[p].target].rev # NoRevision
      BY <3>1, ClaimedHasRow DEF SameChanges
    <3>3. d.row[d.prop[p].target] = c.row[c.prop[p].target]
      BY <3>2 DEF Seeded
    <3>4. p \in c.row[c.prop[p].target].val
      BY <1>1, <1>2, <3>1 DEF AddsUp, InRow
    <3> QED BY <3>3, <3>4
  <2> QED BY <1>2, <2>1 DEF InRow
<1>3. CASE ~ StorePrimary
  <2>1. InMirror(c) BY <1>1, <1>3 DEF AddsUp
  <2>2. InMirror(d) BY <2>1 DEF InMirror, Seeded, SameChanges
  <2> QED BY <1>3, <2>2
<1> QED BY <1>2, <1>3

LEMMA ProposedAddsUp ==
  ASSUME NEW c, Healthy(c), AllWhole(c), AddsUp(c),
         NEW p \in Proposals, c.prop[p].status = "absent",
         NEW st \in {"pending", "review_required"},
         NEW o \in Objects, NEW t \in TurnRef, NEW base \in Nat
  PROVE  AddsUp(Proposed(c, p, st, o, t, base))
<1> DEFINE d == Proposed(c, p, st, o, t, base)
<1>1. c.prop[p].receipts = <<>> BY NotAppliedIsBare DEF Applied
<1>2. st \in ProposalStatus BY DEF ProposalStatus
<1>3. /\ d.prop[p] = [status |-> st, target |-> o, turn |-> t, base |-> base,
                      receipts |-> <<>>]
      /\ \A q \in Proposals \ {p} : d.prop[q] = c.prop[q]
  BY <1>1, <1>2, ProposedSolid DEF Healthy
<1>4. d.prop[p].receipts = <<>> /\ d.prop[p].status = st BY <1>3
<1>5. d.mirror = c.mirror /\ d.row = c.row BY RecordsSeed DEF Healthy
<1> HIDE DEF d
<1>6. ~ Applied(d, p) /\ ~ Applied(c, p) BY <1>4 DEF Applied
<1>7. Seeded(d, c) BY <1>5 DEF Seeded
<1>8. SameChanges(d, c)
  BY <1>1, <1>3, <1>4, <1>6 DEF SameChanges, Applied
<1> QED BY <1>7, <1>8, AddsUpKept DEF d

LEMMA FailedAddsUp ==
  ASSUME NEW c, Healthy(c), AllWhole(c), AddsUp(c), NEW p \in Proposals,
         ~ Applied(c, p)
  PROVE  AddsUp(Marked(c, p, "failed"))
<1> DEFINE d == Marked(c, p, "failed")
<1>1. "failed" \in ProposalStatus /\ "failed" # "applied" BY DEF ProposalStatus
<1>2. /\ d.prop[p] = [c.prop[p] EXCEPT !.status = "failed"]
      /\ \A q \in Proposals \ {p} : d.prop[q] = c.prop[q]
  BY <1>1, MarkedSolid DEF Healthy
<1>3. c.prop[p] \in Proposal BY CoreFields DEF Healthy, Solid
<1>4. d.prop[p].status = "failed" /\ d.prop[p].receipts = c.prop[p].receipts
  BY <1>2, <1>3 DEF Proposal
<1>5. d.mirror = c.mirror /\ d.row = c.row BY RecordsSeed DEF Healthy
<1> HIDE DEF d
<1>6. Seeded(d, c) BY <1>5 DEF Seeded
<1>7. ~ Applied(d, p) BY <1>1, <1>4 DEF Applied
<1>8. SameChanges(d, c) BY <1>2, <1>4, <1>7 DEF SameChanges, Applied
<1> QED BY <1>6, <1>8, AddsUpKept DEF d

-----------------------------------------------------------------------------
(* What each action makes of Adding.                                        *)

LEMMA NothingToAdd ==
  ASSUME AddsUp(core'), AddsUp(work'), AddsUp(save'), req'.pc \notin Applying
  PROVE  Adding'
  BY DEF Adding

LEMMA SubmissionAdding ==
  ASSUME Inv, Pieces, Adding,
         \/ \E ch \in Channels, p \in Proposals, o \in Objects,
               t \in TurnRef, base \in Bases : Submit(ch, p, o, t, base)
         \/ \E ch \in Channels, p \in Proposals, o \in Objects,
               base \in Bases : SubmitForReview(ch, p, o, base)
         \/ \E p \in Proposals : ApplyReviewed(p)
  PROVE  Adding'
<1>1. Bases \subseteq Nat /\ NoTurn \in TurnRef
  BY InputAssumption, MaxTurnsAssumption DEF NoTurn, TurnRef
<1>2. Idle.pc = "idle" BY DEF Idle
<1>3. ASSUME NEW ch \in Channels, NEW p \in Proposals, NEW o \in Objects,
             NEW t \in TurnRef, NEW base \in Bases, Submit(ch, p, o, t, base)
      PROVE  Adding'
  <2>1. /\ req.pc \notin Applying /\ req.pc \notin Midway /\ req.pc \notin Writing
        /\ work.prop[p].status = "absent"
        /\ work' = Proposed(work, p, "pending", o, t, base)
        /\ core' = core /\ save' = save
        /\ req' = [Idle EXCEPT !.pc = "submitted", !.ch = ch, !.p = p]
    BY <1>3 DEF Submit, MaySubmit, Flush, Applying, Midway, Writing
  <2>2. Healthy(work) /\ AllWhole(work) /\ AddsUp(work)
    BY <2>1, InvMeans, PiecesMean DEF Adding
  <2>3. AddsUp(work') BY <1>1, <2>1, <2>2, ProposedAddsUp
  <2>4. req'.pc \notin Applying BY <2>1 DEF Idle, Applying
  <2>5. AddsUp(core') /\ AddsUp(save') BY <2>1 DEF Adding
  <2> QED BY <2>3, <2>4, <2>5, NothingToAdd
<1>4. ASSUME NEW ch \in Channels, NEW p \in Proposals, NEW o \in Objects,
             NEW base \in Bases, SubmitForReview(ch, p, o, base)
      PROVE  Adding'
  <2>1. /\ core.prop[p].status = "absent" /\ req' = Idle
        /\ core' = Proposed(core, p, "review_required", o, NoTurn, base)
        /\ work' = core' /\ save' = core'
    BY <1>4 DEF SubmitForReview, Commit
  <2>2. Healthy(core) /\ AllWhole(core) /\ AddsUp(core)
    BY InvMeans, PiecesMean DEF Adding
  <2>3. AddsUp(core') BY <1>1, <2>1, <2>2, ProposedAddsUp
  <2> QED BY <1>2, <2>1, <2>3, NothingToAdd DEF Applying
<1>5. ASSUME NEW p \in Proposals, ApplyReviewed(p) PROVE Adding'
  <2>1. /\ req.pc \notin Applying
        /\ req' = [Idle EXCEPT !.pc = "submitted", !.ch = "review", !.p = p]
        /\ core' = core /\ work' = work /\ save' = save
    BY <1>5 DEF ApplyReviewed, Applying
  <2>2. req'.pc \notin Applying BY <2>1 DEF Idle, Applying
  <2>3. AddsUp(core') /\ AddsUp(work') /\ AddsUp(save') BY <2>1 DEF Adding
  <2> QED BY <2>2, <2>3, NothingToAdd
<1> QED BY <1>3, <1>4, <1>5

\* What a proposal for no turn carries is what there is, and itself.
LEMMA LoadAdding ==
  ASSUME Inv, Pieces, Adding, Load
  PROVE  Adding'
<1> DEFINE p == req.p
           o == work.prop[p].target
           L == Leads(req.ch)
           c == Loaded(story, work, p, L)
           before == BeforeView(c, p, L)
           after == [before EXCEPT ![Target(c, p)] = @ \cup {p}]
<1>1. /\ req.pc = "submitted" /\ core' = core /\ save' = work /\ work' = c
      /\ req'.pc = "loaded" /\ req'.ch = req.ch /\ req'.p = p
      /\ req'.after = after
  BY DEF Load, Inv, TypeOK, RequestState
<1>2. Healthy(work) /\ AllWhole(work) /\ Solid(work) /\ AddsUp(work)
  <2>1. req.pc \notin Midway /\ req.pc \notin Writing /\ req.pc \notin Applying
    BY <1>1 DEF Midway, Writing, Applying
  <2> QED BY <2>1, InvMeans, PiecesMean DEF Adding
<1>3. p \in Proposals /\ o \in Objects
  BY <1>1, InvMeans DEF Inv, OnItsWay, InHand
<1>4. L \in BOOLEAN BY SwitchAssumption DEF Leads
<1>5. Solid(c) /\ c.prop = work.prop BY <1>2, <1>3, LoadedGrown DEF Grown
<1>6. Seeded(c, work) BY <1>2, <1>3, <1>4, LoadedSeeds
<1>7. L => c.row[o].rev # NoRevision
  <2> HIDE DEF L, p
  <2> QED BY <1>2, <1>3, <1>4, LoadedLeads
<1> HIDE DEF c
<1>8. AddsUp(c)
  <2>1. SameChanges(c, work) BY <1>5 DEF SameChanges, Applied
  <2> QED BY <2>1, <1>2, <1>6, AddsUpKept
<1>9. Target(c, p) = o BY <1>5 DEF Target
<1>10. before \in [Objects -> Value]
  <2>1. Resolvable(c, p) BY DEF Load, c
  <2> QED BY <2>1, <1>3, <1>5, BeforeViewTyped
<1>11. ASSUME ~ Pinned(c, p)
       PROVE  before = CurrentView(c, L)
  BY <1>11 DEF BeforeView
<1> HIDE DEF before
<1>12. /\ after[o] = before[o] \cup {p}
       /\ \A x \in Objects \ {o} : after[x] = before[x]
  BY <1>3, <1>9, <1>10
<1> HIDE DEF after
<1>13. ASSUME Untied(c), ~ Pinned(c, p), StorePrimary
       PROVE  RowAdding'
  <2>1. \A q \in Proposals : InRow(c, q) BY <1>8, <1>13 DEF AddsUp
  <2>2. ASSUME L, NEW q \in Proposals, c.prop[q].target = o,
               Claimed(c, q) # {} \/ q = p
        PROVE  q \in after[o]
    <3>1. before[o] = c.row[o].val
      BY <1>3, <1>7, <1>11, <1>13, <2>2 DEF CurrentView
    <3> HIDE DEF o
    <3>2. Claimed(c, q) # {} => q \in c.row[o].val BY <2>1, <2>2 DEF InRow
    <3> QED BY <3>1, <3>2, <2>2, <1>12
  <2> HIDE DEF o, p
  <2>3. /\ \A q \in Proposals : InRow(c, q)
        /\ L => \A q \in Proposals :
                  /\ c.prop[q].target = Target(c, p)
                  /\ Claimed(c, q) # {} \/ q = p
                  => q \in after[Target(c, p)]
    BY <2>1, <2>2, <1>9
  <2> QED BY <2>3, <1>1 DEF RowAdding
<1>14. ASSUME Untied(c), ~ Pinned(c, p), ~ StorePrimary
       PROVE  MirrorAdding'
  <2>1. InMirror(c) BY <1>8, <1>14 DEF AddsUp
  <2>2. \A x \in Objects : before[x] = c.mirror[x]
    BY <1>11, <1>14 DEF CurrentView, Leads
  <2>3. c.prop[p].target = o BY <1>9 DEF Target
  <2> HIDE DEF o, p
  <2>4. \A q \in Proposals, x \in Objects :
          q \in after[x]
            <=> x = c.prop[q].target /\ (Applied(c, q) \/ q = p)
    <3> TAKE q \in Proposals, x \in Objects
    <3>1. q \in c.mirror[x] <=> x = c.prop[q].target /\ Applied(c, q)
      BY <2>1 DEF InMirror
    <3>2. CASE x = o
      BY <3>1, <3>2, <2>2, <2>3, <1>12
    <3>3. CASE x # o
      BY <3>1, <3>3, <2>2, <2>3, <1>12
    <3> QED BY <3>2, <3>3
  <2> QED BY <2>4, <1>1 DEF MirrorAdding
<1> HIDE DEF p
<1>15. AddsUp(core') /\ AddsUp(save') BY <1>1, <1>2 DEF Adding
<1>16. req'.pc \in Applying BY <1>1 DEF Applying
<1> QED BY <1>1, <1>13, <1>14, <1>15, <1>16 DEF Adding

LEMMA ReceiptAdding ==
  ASSUME Inv, Adding, Receipt
  PROVE  Adding'
<1> DEFINE p == req.p
           w == Writes(req.ch)
           c == IF Leads(req.ch) THEN work ELSE [work EXCEPT !.mirror = req.after]
           d == Receipted(c, p, req.rev, w)
<1>1. req.pc = "loaded" /\ Flush(d) /\ Goto("receipted") BY DEF Receipt
<1>2. /\ core' = core /\ save' = save /\ work' = d
      /\ req'.pc = "receipted" /\ req'.p = p
  BY <1>1, StepFields DEF PC
<1>3. req'.ch = req.ch /\ req'.after = req.after
  BY <1>1 DEF Goto, Inv, TypeOK, RequestState
<1>4. Solid(work) BY InvMeans
<1>5. p \in Proposals BY <1>1 DEF Inv, OnItsWay, Applying, InHand
<1>6. req.after \in [Objects -> Value] /\ req.rev \in Nat /\ w \in BOOLEAN
  BY RequestFields DEF View
<1>7. /\ Solid(c) /\ c.prop = work.prop /\ c.row = work.row
      /\ ~ Leads(req.ch) => c.mirror = req.after
  <2>1. CASE Leads(req.ch) BY <2>1, <1>4
  <2>2. CASE ~ Leads(req.ch)
    <3>1. [work EXCEPT !.mirror = req.after].mirror = req.after
      BY <1>4 DEF Solid, Core
    <3> QED BY <3>1, <2>2, <1>4, <1>6, MirrorGrown DEF Grown, SameStore
  <2> QED BY <2>1, <2>2
<1> HIDE DEF c
<1>8. /\ SameStore(d, c) /\ OneMoreReceipt(d, c, p, req.rev, w)
      /\ d.mirror = c.mirror
  BY <1>5, <1>6, <1>7, ReceiptedSolid, ReceiptedMirror
<1> HIDE DEF d, w
<1>9. /\ \A q \in Proposals : /\ Applied(d, q) <=> Applied(work, q)
                              /\ d.prop[q].target = work.prop[q].target
                              /\ d.prop[q].turn = work.prop[q].turn
      /\ \A q \in Proposals \ {p} : d.prop[q] = work.prop[q]
      /\ d.row = work.row
  BY <1>7, <1>8 DEF OneMoreReceipt, Applied, SameStore
<1>10. AddsUp(core') /\ AddsUp(save') BY <1>2 DEF Adding
<1>11. ASSUME Untied(d), ~ Pinned(d, p)
       PROVE  IF StorePrimary THEN RowAdding' ELSE MirrorAdding'
  <2>1. Untied(work) /\ ~ Pinned(work, p)
    BY <1>5, <1>9, <1>11 DEF Untied, Pinned
  <2>2. req.pc \in Applying BY <1>1 DEF Applying
  <2>3. CASE StorePrimary
    <3>1. RowAdding BY <2>1, <2>2, <2>3 DEF Adding
    <3>2. \A q \in Proposals \ {p} :
            (InRow(d, q) <=> InRow(work, q)) /\ Claimed(d, q) = Claimed(work, q)
      <4> TAKE q \in Proposals \ {p}
      <4>1. d.prop[q] = work.prop[q] /\ d.row = work.row BY <1>9
      <4>2. Claimed(d, q) = Claimed(work, q) BY <4>1 DEF Claimed
      <4> QED BY <4>1, <4>2 DEF InRow
    <3>3. Target(d, p) = Target(work, p) BY <1>5, <1>9 DEF Target
    <3>4. \A q \in Proposals \ {p} : InRow(d, q)
      BY <3>1, <3>2, <1>1 DEF RowAdding
    <3>5. ASSUME Leads(req.ch), NEW q \in Proposals,
                 d.prop[q].target = Target(d, p), Claimed(d, q) # {} \/ q = p
          PROVE  q \in req.after[Target(d, p)]
      BY <3>1, <3>2, <3>3, <3>5, <1>1, <1>9 DEF RowAdding
    <3>6. RowAdding'
      BY <3>4, <3>5, <1>2, <1>3 DEF RowAdding, Leads
    <3> QED BY <2>3, <3>6
  <2>4. CASE ~ StorePrimary
    <3>1. MirrorAdding BY <2>1, <2>2, <2>4 DEF Adding
    <3>2. d.mirror = req.after BY <2>4, <1>7, <1>8 DEF Leads
    <3>3. \A q \in Proposals, x \in Objects :
            q \in req.after[x]
              <=> x = d.prop[q].target /\ (Applied(d, q) \/ q = p)
      BY <3>1, <1>9 DEF MirrorAdding
    <3>4. MirrorAdding' BY <3>2, <3>3, <1>2, <1>3 DEF MirrorAdding
    <3> QED BY <2>4, <3>4
  <2> QED BY <2>3, <2>4
<1>12. req'.pc \in Applying BY <1>2 DEF Applying
<1> QED BY <1>2, <1>10, <1>11, <1>12 DEF Adding

LEMMA WriteStoreAdding ==
  ASSUME Inv, Pieces, Adding, WriteStore
  PROVE  Adding'
<1> DEFINE p == req.p
           o == work.prop[p].target
           after == req.after[o]
           d == IF Writes(req.ch)
                THEN Mutated(work, p, req.rev, req.before, after) ELSE work
<1>1. req.pc = "receipted" /\ Flush(d) /\ Goto("written")
  BY DEF WriteStore, Target
<1>2. /\ core' = core /\ save' = save /\ work' = d
      /\ req'.pc = "written" /\ req'.p = p
  BY <1>1, StepFields DEF PC
<1>3. req'.ch = req.ch /\ req'.after = req.after
  BY <1>1 DEF Goto, Inv, TypeOK, RequestState
<1>4. Solid(work) /\ p \in Proposals /\ o \in Objects
  BY <1>1, MidwayMeans DEF Midway
<1>5. req.rev \in Nat /\ after \in Value BY <1>4, RequestFields DEF View
<1>6. Claimed(work, p) = Claims BY <1>1 DEF Pieces
<1>7. AddsUp(core') /\ AddsUp(save') BY <1>2 DEF Adding
<1>8. /\ d.prop = work.prop /\ d.mirror = work.mirror
      /\ IF Writes(req.ch) THEN RowWritten(d, work, o, after) ELSE d = work
  <2>1. CASE Writes(req.ch)
    <3>1. d = Mutated(work, p, req.rev, req.before, after) BY <2>1
    <3>2. req.rev = work.row[o].rev + 1
      BY <1>1, <2>1 DEF Inv, OnItsWay, Target
    <3> HIDE DEF d, after
    <3>3. Grown(d, work) BY <3>1, <3>2, <1>4, <1>5, MutatedGrown
    <3>4. RowWritten(d, work, o, after) BY <3>1, <3>2, <1>4, <1>5, MutatedRow
    <3> QED BY <2>1, <3>3, <3>4 DEF Grown, RowWritten
  <2>2. CASE ~ Writes(req.ch) BY <2>2
  <2> QED BY <2>1, <2>2
<1> HIDE DEF d
<1>9. ASSUME Untied(d), ~ Pinned(d, p)
      PROVE  IF StorePrimary THEN RowAdding' ELSE MirrorAdding'
  <2>1. Untied(work) /\ ~ Pinned(work, p)
    BY <1>8, <1>9 DEF Untied, Pinned, Applied
  <2>2. req.pc \in Applying BY <1>1 DEF Applying
  <2>3. CASE StorePrimary
    <3>1. RowAdding BY <2>1, <2>2, <2>3 DEF Adding
    <3>2. \A q \in Proposals : Claimed(d, q) = Claimed(work, q)
      BY <1>8 DEF Claimed
    <3>3. ASSUME NEW q \in Proposals, Claimed(d, q) # {}
          PROVE  q \in d.row[d.prop[q].target].val
      <4> DEFINE x == work.prop[q].target
      <4>1. Claimed(work, q) # {} /\ d.prop[q].target = x
        BY <3>2, <3>3, <1>8
      <4>2. CASE ~ Writes(req.ch)
        <5>1. q # p BY <4>1, <4>2, <1>6 DEF Claims
        <5>2. InRow(work, q) BY <5>1, <3>1 DEF RowAdding
        <5> QED BY <5>2, <4>1, <4>2, <1>8 DEF InRow
      <4>3. CASE Writes(req.ch) /\ x = o
        <5>1. Leads(req.ch) BY <4>3, <2>3 DEF Writes, Leads
        <5>2. q \in after BY <5>1, <4>1, <4>3, <3>1, <1>1 DEF RowAdding, Target
        <5> QED BY <5>2, <4>1, <4>3, <1>8 DEF RowWritten
      <4>4. CASE Writes(req.ch) /\ x # o
        <5>1. q # p BY <4>4
        <5>2. InRow(work, q) BY <5>1, <3>1 DEF RowAdding
        <5>3. x \in Objects
          <6>1. work.prop[q].receipts # <<>> BY <4>1, BareIsWhole
          <6>2. Once(work, q) BY <5>1 DEF Inv, Sound
          <6> QED BY <6>1, <6>2, InvMeans DEF Once, Applied
        <5>4. d.row[x] = work.row[x] BY <5>3, <4>4, <1>8 DEF RowWritten
        <5> QED BY <5>2, <5>4, <4>1 DEF InRow
      <4> QED BY <4>2, <4>3, <4>4
    <3>4. \A q \in Proposals : InRow(d, q) BY <3>3 DEF InRow
    <3>5. RowAdding' BY <3>4, <1>2 DEF RowAdding
    <3> QED BY <2>3, <3>5
  <2>4. CASE ~ StorePrimary
    <3>1. MirrorAdding BY <2>1, <2>2, <2>4 DEF Adding
    <3>2. d.mirror = req.after BY <3>1, <1>1, <1>8 DEF MirrorAdding
    <3>3. \A q \in Proposals, x \in Objects :
            q \in req.after[x]
              <=> x = d.prop[q].target /\ (Applied(d, q) \/ q = p)
      BY <3>1, <1>8 DEF MirrorAdding, Applied
    <3>4. MirrorAdding' BY <3>2, <3>3, <1>2, <1>3 DEF MirrorAdding
    <3> QED BY <2>4, <3>4
  <2> QED BY <2>3, <2>4
<1> HIDE DEF p
<1>10. req'.pc \in Applying BY <1>2 DEF Applying
<1> QED BY <1>2, <1>7, <1>9, <1>10 DEF Adding

\* A proposal for no turn has no manifest to record.
LEMMA RecordAdding ==
  ASSUME Inv, Adding, Record
  PROVE  Adding'
<1> DEFINE p == req.p
           o == work.prop[p].target
           t == work.prop[p].turn
           d == IF Writes(req.ch) /\ Pinned(work, p)
                THEN RecordMutation(story, work, t, o, req.rev) ELSE work
<1>1. req.pc = "written" /\ Flush(d) /\ Goto("recorded")
  BY DEF Record, Target
<1>2. /\ core' = core /\ save' = save /\ work' = d
      /\ req'.pc = "recorded" /\ req'.p = p
  BY <1>1, StepFields DEF PC
<1>3. req'.ch = req.ch /\ req'.after = req.after
  BY <1>1 DEF Goto, Inv, TypeOK, RequestState
<1>4. d.prop = work.prop /\ (~ Pinned(work, p) => d = work)
  <2>1. CASE Writes(req.ch) /\ Pinned(work, p)
    <3>1. d = RecordMutation(story, work, t, o, req.rev) BY <2>1
    <3>2. Solid(work) /\ p \in Proposals /\ o \in Objects
      BY <1>1, MidwayMeans DEF Midway
    <3>3. t \in Turns BY <2>1, <3>2, PinnedTurnTyped DEF Solid
    <3>4. req.rev \in Nat /\ req.rev <= Len(work.revs[o])
      BY <1>1, <2>1, RequestFields DEF Inv, OnItsWay, Target
    <3> HIDE DEF d
    <3>5. Grown(d, work) BY <3>1, <3>2, <3>3, <3>4, RecordMutationGrown
    <3> QED BY <2>1, <3>5 DEF Grown
  <2>2. CASE ~ (Writes(req.ch) /\ Pinned(work, p)) BY <2>2
  <2> QED BY <2>1, <2>2
<1> HIDE DEF d
<1>5. AddsUp(core') /\ AddsUp(save') BY <1>2 DEF Adding
<1>6. ASSUME Untied(d), ~ Pinned(d, p)
      PROVE  IF StorePrimary THEN RowAdding' ELSE MirrorAdding'
  <2>1. ~ Pinned(work, p) /\ d = work BY <1>4, <1>6 DEF Pinned
  <2>2. IF StorePrimary THEN RowAdding ELSE MirrorAdding
    BY <2>1, <1>1, <1>6 DEF Adding, Applying
  <2>3. CASE StorePrimary
    <3>1. RowAdding' BY <2>1, <2>2, <2>3, <1>1, <1>2 DEF RowAdding
    <3> QED BY <2>3, <3>1
  <2>4. CASE ~ StorePrimary
    <3>1. MirrorAdding'
      BY <2>1, <2>2, <2>4, <1>1, <1>2, <1>3 DEF MirrorAdding
    <3> QED BY <2>4, <3>1
  <2> QED BY <2>3, <2>4
<1> HIDE DEF p
<1>7. req'.pc \in Applying BY <1>2 DEF Applying
<1> QED BY <1>2, <1>5, <1>6, <1>7 DEF Adding

\* What the leading copy already has becomes applied.
LEMMA FinishAdding ==
  ASSUME Inv, Adding, Finish
  PROVE  Adding'
<1> DEFINE p == req.p
           c == IF Leads(req.ch) THEN [work EXCEPT !.mirror = req.after] ELSE work
           d == Marked(c, p, "applied")
<1>1. req.pc = "recorded" /\ Flush(d) /\ Goto("routed") BY DEF Finish
<1>2. /\ core' = core /\ save' = save /\ work' = d /\ req'.pc = "routed"
  BY <1>1, StepFields DEF PC
<1>3. Solid(work) /\ p \in Proposals BY <1>1, MidwayMeans DEF Midway
<1>4. /\ Solid(c) /\ c.prop = work.prop /\ c.row = work.row
      /\ ~ Leads(req.ch) => c.mirror = work.mirror
  <2>1. CASE Leads(req.ch)
    <3>1. req.after \in [Objects -> Value] BY RequestFields DEF View
    <3> QED BY <3>1, <2>1, <1>3, MirrorGrown DEF Grown, SameStore
  <2>2. CASE ~ Leads(req.ch) BY <2>2, <1>3
  <2> QED BY <2>1, <2>2
<1> HIDE DEF c
<1>5. "applied" \in ProposalStatus BY DEF ProposalStatus
<1>6. /\ d.prop[p] = [c.prop[p] EXCEPT !.status = "applied"]
      /\ \A q \in Proposals \ {p} : d.prop[q] = c.prop[q]
  BY <1>3, <1>4, <1>5, MarkedSolid
<1>7. c.prop[p] \in Proposal BY <1>3, <1>4, CoreFields DEF Solid
<1>8. d.mirror = c.mirror /\ d.row = c.row BY <1>3, <1>4, RecordsSeed
<1> HIDE DEF d, p
<1>9. /\ d.prop[p].status = "applied"
      /\ d.prop[p].target = c.prop[p].target /\ d.prop[p].turn = c.prop[p].turn
      /\ d.prop[p].receipts = c.prop[p].receipts
  BY <1>6, <1>7 DEF Proposal
<1>10. \A q \in Proposals :
         /\ Applied(d, q) <=> Applied(work, q) \/ q = p
         /\ d.prop[q].target = work.prop[q].target
         /\ d.prop[q].turn = work.prop[q].turn
         /\ d.prop[q].receipts = work.prop[q].receipts
  BY <1>4, <1>6, <1>9 DEF Applied
<1>11. ASSUME Untied(d)
       PROVE  IF StorePrimary THEN \A q \in Proposals : InRow(d, q)
                              ELSE InMirror(d)
  <2>1. Untied(work) /\ ~ Pinned(work, p)
    BY <1>3, <1>10, <1>11 DEF Untied, Pinned
  <2>2. req.pc \in Applying BY <1>1 DEF Applying
  <2>3. CASE StorePrimary
    <3>1. RowAdding BY <2>1, <2>2, <2>3 DEF Adding, p
    <3>2. ASSUME NEW q \in Proposals PROVE InRow(d, q)
      <4>1. InRow(work, q) BY <3>1, <1>1 DEF RowAdding
      <4>2. Claimed(d, q) = Claimed(work, q) BY <1>10 DEF Claimed
      <4>3. d.row = work.row /\ d.prop[q].target = work.prop[q].target
        BY <1>4, <1>8, <1>10
      <4> QED BY <4>1, <4>2, <4>3 DEF InRow
    <3> QED BY <2>3, <3>2
  <2>4. CASE ~ StorePrimary
    <3>1. MirrorAdding BY <2>1, <2>2, <2>4 DEF Adding, p
    <3>2. d.mirror = req.after
      BY <3>1, <2>4, <1>1, <1>4, <1>8 DEF MirrorAdding, Leads
    <3>3. InMirror(d) BY <3>1, <3>2, <1>10 DEF InMirror, MirrorAdding, p
    <3> QED BY <2>4, <3>3
  <2> QED BY <2>3, <2>4
<1>12. AddsUp(d) BY <1>11 DEF AddsUp
<1>13. AddsUp(core') /\ AddsUp(save') BY <1>2 DEF Adding
<1>14. req'.pc \notin Applying BY <1>2 DEF Applying
<1> QED BY <1>2, <1>12, <1>13, <1>14, NothingToAdd

LEMMA ApplyAdding ==
  ASSUME Inv, Pieces, Adding, Apply
  PROVE  Adding'
<1>1. ASSUME NEW c, Healthy(c), AllWhole(c), AddsUp(c), InHand(c),
             Flush(Marked(c, req.p, "failed")), Goto("failed")
      PROVE  Adding'
  <2>1. req.p \in Proposals /\ ~ Applied(c, req.p) BY <1>1 DEF InHand, Applied
  <2>2. AddsUp(Marked(c, req.p, "failed")) BY <1>1, <2>1, FailedAddsUp
  <2>3. /\ core' = core /\ save' = save /\ req'.pc = "failed"
        /\ work' = Marked(c, req.p, "failed")
    BY <1>1, StepFields DEF PC
  <2>4. AddsUp(core') /\ AddsUp(save') BY <2>3 DEF Adding
  <2>5. req'.pc \notin Applying BY <2>3 DEF Applying
  <2> QED BY <2>2, <2>3, <2>4, <2>5, NothingToAdd
<1>2. CASE Refuse
  <2>1. req.pc = "submitted" BY <1>2 DEF Refuse
  <2>2. /\ Healthy(work) /\ AllWhole(work) /\ InHand(work)
        /\ AddsUp(work)
    BY <2>1, InvMeans, PiecesMean
       DEF Midway, Writing, Applying, Adding, Inv, OnItsWay
  <2> QED BY <2>2, <1>1, <1>2 DEF Refuse
<1>3. CASE Fail
  <2>1. req.pc \in Applying BY <1>3 DEF Fail, Applying
  <2>2. Healthy(save) /\ AllWhole(save) /\ InHand(save) /\ AddsUp(save)
    BY <2>1, InvMeans, PiecesMean DEF Inv, OnItsWay, Adding
  <2> QED BY <2>2, <1>1, <1>3 DEF Fail
<1> QED BY <1>2, <1>3, LoadAdding, ReceiptAdding, WriteStoreAdding,
           RecordAdding, FinishAdding DEF Apply

LEMMA EndAdding ==
  ASSUME Adding, EndApplied \/ EndFailed \/ Crash
  PROVE  Adding'
<1>1. /\ work' = core' /\ save' = core' /\ req' = Idle
      /\ \/ core' = core
         \/ core' = work /\ req.pc \in {"routed", "failed"}
  BY DEF EndApplied, EndFailed, Crash, Discard, Commit
<1>2. AddsUp(core') BY <1>1 DEF Adding, Applying
<1>3. req'.pc \notin Applying BY <1>1 DEF Idle, Applying
<1> QED BY <1>1, <1>2, <1>3, NothingToAdd

LEMMA TurnsAdding ==
  ASSUME Inv, Pieces, Adding,
         \/ \E reads \in BOOLEAN : TakeTurn(reads)
         \/ \E t \in Turns, b \in Branches : ForkBranch(t, b)
         \/ \E b \in Branches : SwitchBranch(b)
         \/ \E t \in Turns : RollbackToTurn(t)
  PROVE  Adding'
<1> DEFINE t == story.turns + 1
           s == Settle(CreateTurn(story, story.active, TurnCommand(TRUE)), t)
<1>1. /\ req' = req /\ req.pc = "idle" /\ work' = core' /\ save' = core'
      /\ \/ core' = core
         \/ core' = EnsureManifest(s, core, t) /\ story.turns < MaxTurns
  BY DEF TakeTurn, ForkBranch, SwitchBranch, RollbackToTurn, Committed
<1>2. Healthy(core) /\ AllWhole(core) /\ AddsUp(core)
  BY InvMeans, PiecesMean DEF Adding
<1>3. req'.pc \notin Applying BY <1>1 DEF Applying
<1>4. CASE core' = EnsureManifest(s, core, t) /\ story.turns < MaxTurns
  <2>1. t \in Turns BY <1>4, TurnIds DEF Inv, TypeOK
  <2> HIDE DEF t, s
  <2>2. Grown(core', core) /\ Seeded(core', core)
    BY <2>1, <1>2, <1>4, EnsureManifestGrown, EnsureManifestSeeds DEF Healthy
  <2>3. SameChanges(core', core) BY <2>2 DEF Grown, SameChanges, Applied
  <2>4. AddsUp(core') BY <2>2, <2>3, <1>2, AddsUpKept
  <2> QED BY <2>4, <1>1, <1>3, NothingToAdd
<1>5. CASE core' = core BY <1>1, <1>2, <1>3, <1>5, NothingToAdd
<1> QED BY <1>1, <1>4, <1>5

LEMMA AddingNext == Inv /\ Pieces /\ Adding /\ [Next]_vars => Adding'
<1> SUFFICES ASSUME Inv, Pieces, Adding, [Next]_vars PROVE Adding' OBVIOUS
<1>1. CASE UNCHANGED vars
  BY <1>1 DEF vars, Adding, RowAdding, MirrorAdding, Leads
<1> QED
  BY <1>1, SubmissionAdding, ApplyAdding, EndAdding, TurnsAdding DEF Next

LEMMA AddingInit == Init => Adding
<1> SUFFICES ASSUME Init PROVE Adding OBVIOUS
<1>1. /\ \A p \in Proposals : EmptyCore.prop[p] = NoProposal
      /\ \A o \in Objects : EmptyCore.mirror[o] = {}
  BY DEF EmptyCore
<1>2. /\ SeedRows(EmptyCore).prop = EmptyCore.prop
      /\ SeedRows(EmptyCore).mirror = EmptyCore.mirror
  BY DEF EmptyCore, SeedRows
<1>3. \A p \in Proposals : ~ Applied(core, p) /\ core.prop[p].receipts = <<>>
  BY <1>1, <1>2 DEF Init, NoProposal, Applied
<1>4. InMirror(core) BY <1>1, <1>2, <1>3 DEF Init, InMirror
<1>5. \A p \in Proposals : InRow(core, p) BY <1>3, BareIsWhole DEF InRow
<1>6. AddsUp(core) BY <1>4, <1>5 DEF AddsUp
<1>7. work = core /\ save = core /\ req.pc = "idle" BY DEF Init, Idle
<1> QED BY <1>6, <1>7 DEF Adding, Applying

\* No change is lost and none half made is left behind in the leading copy.
THEOREM ChangesAlwaysAddUp == Spec => []ChangesAddUp
<1>1. Spec => []Pieces BY PiecesInit, PiecesNext, CoreSound, PTL DEF Spec
<1>2. Spec => []Adding
  BY <1>1, AddingInit, AddingNext, CoreSound, PTL DEF Spec
<1>3. Adding => ChangesAddUp BY DEF Adding, ChangesAddUp
<1> QED BY <1>2, <1>3, PTL

-----------------------------------------------------------------------------
(* Seeding: where the store leads, no proposal claims a first revision.     *)

\* A state with the receipts of another, or with fewer of them.
FewerClaims(d, c) == \A q \in Proposals : Claimed(d, q) \subseteq Claimed(c, q)

NoFirst(c) == \A q \in Proposals : 1 \notin Claimed(c, q)

LEMMA NoFirstKept ==
  ASSUME NEW c, NEW d, NoFirst(c), FewerClaims(d, c)
  PROVE  NoFirst(d)
  BY DEF NoFirst, FewerClaims

LEMMA GrownClaims ==
  ASSUME NEW c, NEW d, Grown(d, c)
  PROVE  FewerClaims(d, c)
  BY DEF Grown, FewerClaims, Claimed

LEMMA MarkedClaims ==
  ASSUME NEW c, Solid(c), NEW p \in Proposals, NEW st \in ProposalStatus
  PROVE  FewerClaims(Marked(c, p, st), c)
<1> DEFINE d == Marked(c, p, st)
<1>1. c.prop[p] \in Proposal BY CoreFields DEF Solid
<1>2. /\ d.prop[p] = [c.prop[p] EXCEPT !.status = st]
      /\ \A q \in Proposals \ {p} : d.prop[q] = c.prop[q]
  BY MarkedSolid
<1> HIDE DEF d
<1>3. \A q \in Proposals : d.prop[q].receipts = c.prop[q].receipts
  BY <1>1, <1>2 DEF Proposal
<1>4. FewerClaims(d, c) BY <1>3 DEF FewerClaims, Claimed
<1> QED BY <1>4 DEF d

LEMMA ProposedClaims ==
  ASSUME NEW c, Healthy(c), NEW p \in Proposals, c.prop[p].status = "absent",
         NEW st \in {"pending", "review_required"},
         NEW o \in Objects, NEW t \in TurnRef, NEW base \in Nat
  PROVE  FewerClaims(Proposed(c, p, st, o, t, base), c)
<1> DEFINE d == Proposed(c, p, st, o, t, base)
<1>1. c.prop[p].receipts = <<>> BY NotAppliedIsBare DEF Applied
<1>2. st \in ProposalStatus BY DEF ProposalStatus
<1>3. /\ d.prop[p] = [status |-> st, target |-> o, turn |-> t, base |-> base,
                      receipts |-> <<>>]
      /\ \A q \in Proposals \ {p} : d.prop[q] = c.prop[q]
  BY <1>1, <1>2, ProposedSolid DEF Healthy
<1>4. d.prop[p].receipts = <<>> BY <1>3
<1> HIDE DEF d
<1>5. \A q \in Proposals : d.prop[q].receipts = c.prop[q].receipts
  BY <1>1, <1>3, <1>4
<1>6. FewerClaims(d, c) BY <1>5 DEF FewerClaims, Claimed
<1> QED BY <1>6 DEF d

LEMMA SeedingMeans ==
  ASSUME Seeding
  PROVE  NoFirst(core) /\ NoFirst(work) /\ NoFirst(save)
  BY DEF Seeding, NoFirst

LEMMA NothingLoaded ==
  ASSUME NoFirst(core'), NoFirst(work'), NoFirst(save'), req'.pc # "loaded"
  PROVE  Seeding'
  BY DEF Seeding, NoFirst

LEMMA SubmissionSeeding ==
  ASSUME Inv, Seeding,
         \/ \E ch \in Channels, p \in Proposals, o \in Objects,
               t \in TurnRef, base \in Bases : Submit(ch, p, o, t, base)
         \/ \E ch \in Channels, p \in Proposals, o \in Objects,
               base \in Bases : SubmitForReview(ch, p, o, base)
         \/ \E p \in Proposals : ApplyReviewed(p)
  PROVE  Seeding'
<1>1. Bases \subseteq Nat /\ NoTurn \in TurnRef
  BY InputAssumption, MaxTurnsAssumption DEF NoTurn, TurnRef
<1>2. Idle.pc = "idle" BY DEF Idle
<1>3. ASSUME NEW ch \in Channels, NEW p \in Proposals, NEW o \in Objects,
             NEW t \in TurnRef, NEW base \in Bases, Submit(ch, p, o, t, base)
      PROVE  Seeding'
  <2>1. /\ req.pc \notin Midway
        /\ work.prop[p].status = "absent"
        /\ work' = Proposed(work, p, "pending", o, t, base)
        /\ core' = core /\ save' = save
        /\ req' = [Idle EXCEPT !.pc = "submitted", !.ch = ch, !.p = p]
    BY <1>3 DEF Submit, MaySubmit, Flush, Midway
  <2>2. NoFirst(work')
    BY <1>1, <2>1, InvMeans, SeedingMeans, ProposedClaims, NoFirstKept
  <2>3. req'.pc # "loaded" BY <2>1 DEF Idle
  <2> QED BY <2>1, <2>2, <2>3, SeedingMeans, NothingLoaded
<1>4. ASSUME NEW ch \in Channels, NEW p \in Proposals, NEW o \in Objects,
             NEW base \in Bases, SubmitForReview(ch, p, o, base)
      PROVE  Seeding'
  <2>1. /\ core.prop[p].status = "absent" /\ req' = Idle
        /\ core' = Proposed(core, p, "review_required", o, NoTurn, base)
        /\ work' = core' /\ save' = core'
    BY <1>4 DEF SubmitForReview, Commit
  <2>2. NoFirst(core')
    BY <1>1, <2>1, InvMeans, SeedingMeans, ProposedClaims, NoFirstKept
  <2> QED BY <1>2, <2>1, <2>2, NothingLoaded
<1>5. ASSUME NEW p \in Proposals, ApplyReviewed(p) PROVE Seeding'
  <2>1. /\ req' = [Idle EXCEPT !.pc = "submitted", !.ch = "review", !.p = p]
        /\ core' = core /\ work' = work /\ save' = save
    BY <1>5 DEF ApplyReviewed
  <2>2. req'.pc # "loaded" BY <2>1 DEF Idle
  <2> QED BY <2>1, <2>2, SeedingMeans, NothingLoaded
<1> QED BY <1>3, <1>4, <1>5

\* The number a proposal takes is one more than that of a row there is.
LEMMA LoadSeeding ==
  ASSUME Inv, Seeding, Load
  PROVE  Seeding'
<1> DEFINE p == req.p
           o == work.prop[p].target
           c == Loaded(story, work, p, Leads(req.ch))
<1>1. /\ req.pc = "submitted" /\ core' = core /\ save' = work /\ work' = c
      /\ req'.pc = "loaded" /\ req'.ch = req.ch
      /\ req'.rev = NextRevision(c, p, Writes(req.ch))
  BY DEF Load, Inv, TypeOK, RequestState
<1>2. Solid(work) BY InvMeans
<1>3. p \in Proposals /\ o \in Objects
  BY <1>1, InvMeans DEF Inv, OnItsWay, InHand
<1>4. Grown(c, work) BY <1>2, <1>3, LoadedGrown
<1>5. NoFirst(c) BY <1>4, GrownClaims, NoFirstKept, SeedingMeans
<1>6. ASSUME Leads(req.ch) PROVE req'.rev # 1
  <2>1. Writes(req.ch) /\ Leads(req.ch) \in BOOLEAN
    BY <1>6, SwitchAssumption DEF Writes, Leads
  <2>2. c.row[o].rev # NoRevision
    <3> HIDE DEF p
    <3> QED BY <1>2, <1>3, <1>6, <2>1, LoadedLeads
  <2> HIDE DEF c
  <2>3. Target(c, p) = o BY <1>4 DEF Grown, Target
  <2>4. req'.rev = c.row[o].rev + 1
    BY <1>1, <2>1, <2>3 DEF NextRevision, CurrentRevision
  <2>5. c.row[o].rev \in Nat BY <1>3, <1>4, RowLength DEF Grown
  <2> QED BY <2>2, <2>4, <2>5 DEF NoRevision
<1> HIDE DEF c
<1>7. Leads(req.ch)' => req'.rev # 1 BY <1>1, <1>6 DEF Leads
<1> QED BY <1>1, <1>5, <1>7, SeedingMeans DEF Seeding, NoFirst

LEMMA ReceiptSeeding ==
  ASSUME Inv, Seeding, StorePrimary, Receipt
  PROVE  Seeding'
<1> DEFINE p == req.p
           w == Writes(req.ch)
           c == IF Leads(req.ch) THEN work ELSE [work EXCEPT !.mirror = req.after]
           d == Receipted(c, p, req.rev, w)
           x == [rev |-> req.rev, stored |-> w]
<1>1. req.pc = "loaded" /\ Flush(d) /\ Goto("receipted") BY DEF Receipt
<1>2. /\ core' = core /\ save' = save /\ work' = d /\ req'.pc = "receipted"
  BY <1>1, StepFields DEF PC
<1>3. Healthy(work) BY <1>1, InvMeans DEF Midway
<1>4. InHand(work) BY <1>1 DEF Inv, OnItsWay, Applying
<1>5. p \in Proposals /\ work.prop[p].receipts = <<>>
  BY <1>3, <1>4, NotAppliedIsBare DEF InHand, Applied
<1>6. req.after \in [Objects -> Value] /\ req.rev \in Nat /\ w \in BOOLEAN
  BY RequestFields DEF View
<1>7. Solid(c) /\ c.prop = work.prop
  <2>1. CASE Leads(req.ch) BY <2>1, <1>3 DEF Healthy
  <2>2. CASE ~ Leads(req.ch)
    BY <2>2, <1>3, <1>6, MirrorGrown DEF Grown, Healthy
  <2> QED BY <2>1, <2>2
<1> HIDE DEF c
<1>8. OneMoreReceipt(d, c, p, req.rev, w) BY <1>5, <1>6, <1>7, ReceiptedSolid
<1>9. w => req.rev # 1
  BY <1>1 DEF Seeding, Writes, Leads
<1> HIDE DEF d, w
<1>10. d.prop[p].receipts = <<x>>
  <2> HIDE DEF x
  <2>1. Append(<<>>, x) = <<x>> OBVIOUS
  <2> QED BY <2>1, <1>5, <1>7, <1>8 DEF OneMoreReceipt, x
<1>11. 1 \notin Claimed(d, p)
  <2>1. x.stored <=> w BY <1>6
  <2>2. x.rev = req.rev OBVIOUS
  <2> HIDE DEF x
  <2>3. \A i \in DOMAIN <<x>> : <<x>>[i] = x OBVIOUS
  <2>4. Claimed(d, p)
          = {<<x>>[i].rev : i \in {j \in DOMAIN <<x>> : <<x>>[j].stored}}
    BY <1>10 DEF Claimed
  <2>5. ASSUME 1 \in Claimed(d, p)
        PROVE  x.stored /\ x.rev = 1
    BY <2>3, <2>4, <2>5
  <2>6. ASSUME 1 \in Claimed(d, p) PROVE FALSE
    <3>1. x.stored /\ x.rev = 1 BY <2>5, <2>6
    <3>2. w BY <3>1, <2>1, Zenon
    <3>3. req.rev # 1 BY <3>2, <1>9
    <3> QED BY <3>1, <3>3, <2>2
  <2> QED BY <2>6
<1>12. \A q \in Proposals \ {p} : Claimed(d, q) = Claimed(work, q)
  <2>1. \A q \in Proposals \ {p} : d.prop[q] = work.prop[q]
    BY <1>7, <1>8 DEF OneMoreReceipt
  <2> QED BY <2>1 DEF Claimed
<1>13. NoFirst(d) BY <1>11, <1>12, SeedingMeans DEF NoFirst
<1> QED BY <1>2, <1>13, SeedingMeans, NothingLoaded

LEMMA WritingSeeding ==
  ASSUME Inv, Seeding, WriteStore \/ Record \/ Finish
  PROVE  Seeding'
<1> DEFINE p == req.p
           o == work.prop[p].target
           t == work.prop[p].turn
           after == req.after[o]
<1>1. req.pc \in Midway BY DEF WriteStore, Record, Finish, Midway
<1>2. Solid(work) /\ p \in Proposals /\ o \in Objects BY <1>1, MidwayMeans
<1>3. req.rev \in Nat /\ after \in Value /\ req.after \in [Objects -> Value]
  BY <1>2, RequestFields DEF View
<1>4. ASSUME NEW d, FewerClaims(d, work), Flush(d),
             NEW pc \in PC, pc # "loaded", Goto(pc)
      PROVE  Seeding'
  <2>1. core' = core /\ save' = save /\ work' = d /\ req'.pc = pc
    BY <1>4, StepFields
  <2> QED BY <2>1, <1>4, NoFirstKept, SeedingMeans, NothingLoaded
<1>5. FewerClaims(work, work) BY DEF FewerClaims
<1>6. CASE WriteStore
  <2> DEFINE d == IF Writes(req.ch)
                  THEN Mutated(work, p, req.rev, req.before, after) ELSE work
  <2>1. req.pc = "receipted" /\ Flush(d) /\ Goto("written")
    BY <1>6 DEF WriteStore, Target
  <2>2. FewerClaims(d, work)
    <3>1. CASE Writes(req.ch)
      <4>1. d = Mutated(work, p, req.rev, req.before, after) BY <3>1
      <4>2. req.rev = work.row[o].rev + 1
        BY <2>1, <3>1 DEF Inv, OnItsWay, Target
      <4> HIDE DEF d, after
      <4> QED BY <4>1, <4>2, <1>2, <1>3, MutatedGrown, GrownClaims
    <3>2. CASE ~ Writes(req.ch) BY <3>2, <1>5
    <3> QED BY <3>1, <3>2
  <2> HIDE DEF d
  <2> QED BY <2>1, <2>2, <1>4 DEF PC
<1>7. CASE Record
  <2> DEFINE d == IF Writes(req.ch) /\ Pinned(work, p)
                  THEN RecordMutation(story, work, t, o, req.rev) ELSE work
  <2>1. req.pc = "written" /\ Flush(d) /\ Goto("recorded")
    BY <1>7 DEF Record, Target
  <2>2. FewerClaims(d, work)
    <3>1. CASE Writes(req.ch) /\ Pinned(work, p)
      <4>1. d = RecordMutation(story, work, t, o, req.rev) BY <3>1
      <4>2. t \in Turns BY <3>1, <1>2, PinnedTurnTyped DEF Solid
      <4>3. req.rev <= Len(work.revs[o])
        BY <2>1, <3>1, <1>2, RowLength DEF Inv, OnItsWay, Target
      <4> HIDE DEF d
      <4> QED BY <4>1, <4>2, <4>3, <1>2, <1>3, RecordMutationGrown, GrownClaims
    <3>2. CASE ~ (Writes(req.ch) /\ Pinned(work, p)) BY <3>2, <1>5
    <3> QED BY <3>1, <3>2
  <2> HIDE DEF d
  <2> QED BY <2>1, <2>2, <1>4 DEF PC
<1>8. CASE Finish
  <2> DEFINE c == IF Leads(req.ch) THEN [work EXCEPT !.mirror = req.after]
                                   ELSE work
             d == Marked(c, p, "applied")
  <2>1. Flush(d) /\ Goto("routed") BY <1>8 DEF Finish
  <2>2. Grown(c, work)
    <3>1. CASE Leads(req.ch) BY <3>1, <1>2, <1>3, MirrorGrown
    <3>2. CASE ~ Leads(req.ch) BY <3>2, <1>2, GrownReflexive
    <3> QED BY <3>1, <3>2
  <2> HIDE DEF c
  <2>3. FewerClaims(d, c)
    BY <2>2, <1>2, MarkedClaims DEF Grown, ProposalStatus
  <2>4. FewerClaims(d, work)
    BY <2>2, <2>3, GrownClaims DEF FewerClaims
  <2> HIDE DEF d
  <2> QED BY <2>1, <2>4, <1>4 DEF PC
<1> QED BY <1>6, <1>7, <1>8

LEMMA ApplySeeding ==
  ASSUME Inv, Seeding, StorePrimary, Apply
  PROVE  Seeding'
<1>1. ASSUME NEW c, Solid(c), NoFirst(c), req.p \in Proposals,
             Flush(Marked(c, req.p, "failed")), Goto("failed")
      PROVE  Seeding'
  <2>1. "failed" \in ProposalStatus BY DEF ProposalStatus
  <2>2. NoFirst(Marked(c, req.p, "failed"))
    BY <1>1, <2>1, MarkedClaims, NoFirstKept
  <2>3. /\ core' = core /\ save' = save /\ req'.pc = "failed"
        /\ work' = Marked(c, req.p, "failed")
    BY <1>1, StepFields DEF PC
  <2> QED BY <2>2, <2>3, SeedingMeans, NothingLoaded
<1>2. CASE Refuse
  <2>1. Solid(work) /\ req.p \in Proposals
    BY <1>2, InvMeans DEF Refuse, Inv, OnItsWay, InHand
  <2> QED BY <2>1, <1>1, <1>2, SeedingMeans DEF Refuse
<1>3. CASE Fail
  <2>1. Solid(save) /\ req.p \in Proposals
    BY <1>3, InvMeans DEF Fail, Applying, Inv, OnItsWay, InHand, Healthy
  <2> QED BY <2>1, <1>1, <1>3, SeedingMeans DEF Fail
<1> QED BY <1>2, <1>3, LoadSeeding, ReceiptSeeding, WritingSeeding DEF Apply

LEMMA SeedingNext ==
  ASSUME StorePrimary
  PROVE  Inv /\ Seeding /\ [Next]_vars => Seeding'
<1> SUFFICES ASSUME Inv, Seeding, [Next]_vars PROVE Seeding' OBVIOUS
<1>1. CASE UNCHANGED vars BY <1>1 DEF vars, Seeding, Leads
<1>2. CASE EndApplied \/ EndFailed \/ Crash
  <2>1. /\ work' = core' /\ save' = core' /\ req' = Idle
        /\ core' = core \/ core' = work
    BY <1>2 DEF EndApplied, EndFailed, Crash, Discard, Commit
  <2>2. req'.pc # "loaded" BY <2>1 DEF Idle
  <2> QED BY <2>1, <2>2, SeedingMeans, NothingLoaded
<1>3. CASE \/ \E reads \in BOOLEAN : TakeTurn(reads)
           \/ \E t \in Turns, b \in Branches : ForkBranch(t, b)
           \/ \E b \in Branches : SwitchBranch(b)
           \/ \E t \in Turns : RollbackToTurn(t)
  <2> DEFINE t == story.turns + 1
             s == Settle(CreateTurn(story, story.active, TurnCommand(TRUE)), t)
  <2>1. /\ req' = req /\ req.pc = "idle" /\ work' = core' /\ save' = core'
        /\ \/ core' = core
           \/ core' = EnsureManifest(s, core, t) /\ story.turns < MaxTurns
    BY <1>3 DEF TakeTurn, ForkBranch, SwitchBranch, RollbackToTurn, Committed
  <2>2. CASE core' = EnsureManifest(s, core, t) /\ story.turns < MaxTurns
    <3>1. t \in Turns BY <2>2, TurnIds DEF Inv, TypeOK
    <3> HIDE DEF t, s
    <3>2. Grown(core', core)
      BY <3>1, <2>2, InvMeans, EnsureManifestGrown DEF Healthy
    <3>3. NoFirst(core') BY <3>2, GrownClaims, NoFirstKept, SeedingMeans
    <3> QED BY <3>3, <2>1, NothingLoaded
  <2>3. CASE core' = core BY <2>1, <2>3, SeedingMeans, NothingLoaded
  <2> QED BY <2>1, <2>2, <2>3
<1> QED BY <1>1, <1>2, <1>3, SubmissionSeeding, ApplySeeding DEF Next

LEMMA SeedingInit == Init => Seeding
<1> SUFFICES ASSUME Init PROVE Seeding OBVIOUS
<1>1. \A p \in Proposals : /\ EmptyCore.prop[p].receipts = <<>>
                           /\ SeedRows(EmptyCore).prop[p].receipts = <<>>
  BY DEF EmptyCore, NoProposal, SeedRows
<1>2. NoFirst(core) BY <1>1, BareIsWhole DEF Init, NoFirst
<1>3. work = core /\ save = core /\ req.pc = "idle" BY DEF Init, Idle
<1> QED BY <1>2, <1>3 DEF Seeding, NoFirst

\* What no proposal claims no proposal has written.
LEMMA SeedingSeeds ==
  ASSUME Inv, Pieces, Seeding
  PROVE  FirstRevisionIsSeed
<1> SUFFICES ASSUME NEW o \in Objects, core.revs[o] # <<>>
             PROVE  core.revs[o][1].by = None
  BY DEF FirstRevisionIsSeed
<1>1. core.revs[o] \in Seq(Revision) BY InvMeans, RowLength DEF Healthy
<1>2. 1 \in DOMAIN core.revs[o] BY <1>1
<1>3. core.revs[o][1] \in Revision BY <1>1, <1>2, SeqDomain
<1>4. ASSUME NEW q \in Proposals, core.revs[o][1].by = q PROVE FALSE
  <2>1. 1 \in WrittenBy(core, q, o) BY <1>2, <1>4 DEF WrittenBy
  <2>2. 1 \in Claimed(core, q)
    BY <2>1, PiecesMean DEF AllWhole, Whole, HasWritten
  <2> QED BY <2>2 DEF Seeding
<1> QED BY <1>3, <1>4 DEF Revision

\* Where the store leads, the first revision of an object is its state before
\* any proposal.
THEOREM FirstRevisionAlwaysSeed ==
  ASSUME StorePrimary
  PROVE  Spec => []FirstRevisionIsSeed
<1>1. Spec => []Pieces BY PiecesInit, PiecesNext, CoreSound, PTL DEF Spec
<1>2. Spec => []Seeding BY SeedingInit, SeedingNext, CoreSound, PTL DEF Spec
<1> QED BY <1>1, <1>2, SeedingSeeds, CoreSound, PTL
=============================================================================
