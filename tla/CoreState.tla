----------------------------- MODULE CoreState ------------------------------
(***************************************************************************)
(* The core state store of one roleplay session: the memory objects the    *)
(* story is written from, their numbered revisions, and the manifests that *)
(* say which revision of each object a turn reads.  Next to it lives the   *)
(* legacy mirror, StorySession.current_state_json, that the store replaces *)
(* step by step (StoreWrite, then StorePrimary).                           *)
(*                                                                         *)
(* Objects change by proposals only, and a proposal has one target.  The   *)
(* value of an object is the set of proposals merged into it since the     *)
(* session was activated.  A core state is a record; every service         *)
(* operation is an operator from core states to core states, given the     *)
(* branches and turns s of StoryStore where it reads them.                 *)
(***************************************************************************)
EXTENDS StoryStore, Sequences

CONSTANTS
    Objects,       \* the bindings of memory_object_mapper
    Proposals,     \* every memory proposal the session can ever have
    StoreWrite,    \* rp_memory_core_state_store_write_enabled
    StorePrimary   \* ... and rp_memory_core_state_store_write_switch_enabled

ASSUME ProposalAssumption ==
    /\ None \notin Proposals /\ None \notin Objects
    /\ IsFiniteSet(Proposals)
ASSUME SwitchAssumption ==
    /\ StoreWrite \in BOOLEAN
    /\ StorePrimary \in BOOLEAN
    /\ StorePrimary => StoreWrite

Value == SUBSET Proposals

\* Row and manifest numbers start at 1.
NoRevision == 0
NoManifest == 0

Row      == [rev : Nat, val : Value]
Revision == [val : Value, by : Proposals \cup {None}]

ManifestKind == {"runtime_initial", "compatibility_snapshot",
                 "historical_as_of_unavailable", "runtime_mutation"}

Manifest == [turn : Turns, map : [Objects -> Nat], kind : ManifestKind]

ProposalStatus == {"absent", "review_required", "pending", "applied", "failed"}

\* stored is apply_backend # "adapter_backed".
ApplyReceipt == [rev : Nat, stored : BOOLEAN]

\* turn is the identity of the mutation's envelope, base its base_refs.
Proposal == [status : ProposalStatus, target : Objects \cup {None},
             turn : TurnRef, base : Nat, receipts : Seq(ApplyReceipt)]

Core ==
    [ row    : [Objects -> Row],
      revs   : [Objects -> Seq(Revision)],
      mans   : Seq(Manifest),
      bound  : [Turns -> Nat],
      mirror : [Objects -> Value],
      prop   : [Proposals -> Proposal] ]

NoRow == [rev |-> NoRevision, val |-> {}]

NoProposal == [status |-> "absent", target |-> None, turn |-> NoTurn,
               base |-> NoRevision, receipts |-> <<>>]

EmptyCore ==
    [ row    |-> [x \in Objects |-> NoRow],
      revs   |-> [x \in Objects |-> <<>>],
      mans   |-> <<>>,
      bound  |-> [t \in Turns |-> NoManifest],
      mirror |-> [x \in Objects |-> {}],
      prop   |-> [p \in Proposals |-> NoProposal] ]

-----------------------------------------------------------------------------
(* Rows and revisions.                                                     *)

\* upsert_authoritative_revision: an existing number is overwritten.
Upserted(history, n, r) ==
    IF n <= Len(history) THEN [history EXCEPT ![n] = r] ELSE Append(history, r)

WrittenMutant(c, o, n, v, p) ==
    [c EXCEPT !.row[o] = [rev |-> IF @.rev = NoRevision THEN n ELSE @.rev, val |-> v],
              !.revs[o] = Upserted(@, n, [val |-> v, by |-> p])]

\* upsert_authoritative_object and upsert_authoritative_revision together
Written(c, o, n, v, p) ==
    [c EXCEPT !.row[o] = [rev |-> n, val |-> v],
              !.revs[o] = Upserted(@, n, [val |-> v, by |-> p])]

SeedRow(c, o) == Written(c, o, 1, c.mirror[o], None)

\* Every object from the mirror: ensure_authoritative_seed at activation and
\* _seed_compatibility_rows_from_session_mirror
SeedRows(c) ==
    [c EXCEPT !.row = [o \in Objects |-> [rev |-> 1, val |-> c.mirror[o]]],
              !.revs = [o \in Objects |-> <<[val |-> c.mirror[o], by |-> None]>>]]

HasRows(c) == \E o \in Objects : c.row[o].rev # NoRevision

-----------------------------------------------------------------------------
(* What a turn reads.                                                      *)

CutoffForMutant(s, t, b) == IF b = s.on[t] THEN t ELSE s.head[b]

\* turn_cutoff_by_branch of build_runtime_scope for turn t
CutoffFor(s, t, b) ==
    IF b = s.on[t]
    THEN t
    ELSE s.forkedFrom[CHOOSE d \in Lineage(s, s.on[t]) : s.parent[d] = b]

\* The turns of branch b whose manifests turn t may inherit.
InScope(s, t, b) ==
    {u \in Created(s) :
        /\ s.on[u] = b
        /\ s.on[CutoffFor(s, t, b)] = b => u <= CutoffFor(s, t, b)
        /\ u \notin s.hiddenIds[b]}

\* The manifests of one branch that turn t may inherit, with or without the
\* ones made for turns of its own branch from t on.
Inheritable(s, c, t, b, before) ==
    {m \in DOMAIN c.mans :
        /\ c.mans[m].turn \in InScope(s, t, b)
        /\ before /\ b = s.on[t] => c.mans[m].turn < t}

\* The manifest of the latest turn, and of these the one made last.
Newest(c, ms) ==
    CHOOSE m \in ms : \A n \in ms :
        \/ c.mans[n].turn < c.mans[m].turn
        \/ c.mans[n].turn = c.mans[m].turn /\ n <= m

\* _latest_visible_manifest_by_scope: the newest of the nearest branch that
\* has any
LatestVisible(s, c, t, before) ==
    LET up == Ancestry(s, s.on[t])
        having == {n \in 0..Cardinality(Branches) :
                     Inheritable(s, c, t, up[n], before) # {}}
    IN  IF having = {}
        THEN NoManifest
        ELSE LET n == CHOOSE x \in having : \A k \in having : x <= k
             IN  Newest(c, Inheritable(s, c, t, up[n], before))

\* create_core_state_snapshot_manifest and _bind_turn_to_manifest
Recorded(c, t, map, kind) ==
    [c EXCEPT !.mans = Append(@, [turn |-> t, map |-> map, kind |-> kind]),
              !.bound[t] = Len(c.mans) + 1]

\* _can_seed_compatibility_snapshot
CanSeed(s, t) ==
    LET b == s.on[t]
    IN  s.parent[b] = None /\ s.hiddenIds[b] = {}

\* _all_current_rows_are_initial
AllInitial(c) == HasRows(c) /\ \A o \in Objects : c.row[o].rev <= 1

\* _create_manifest_from_current_rows
ManifestFromRows(c, t) ==
    LET seeded == IF HasRows(c) THEN c ELSE SeedRows(c)
    IN  Recorded(seeded, t, [o \in Objects |-> seeded.row[o].rev],
                 IF AllInitial(c) THEN "runtime_initial"
                 ELSE "compatibility_snapshot")

\* _create_empty_unavailable_manifest
UnavailableManifest(c, t) ==
    Recorded(c, t, [o \in Objects |-> NoRevision], "historical_as_of_unavailable")

\* ensure_manifest_for_identity: after it the turn is bound.
EnsureManifest(s, c, t) ==
    LET inherited == LatestVisible(s, c, t, FALSE)
    IN  IF c.bound[t] # NoManifest THEN c
        ELSE IF inherited # NoManifest THEN [c EXCEPT !.bound[t] = inherited]
        ELSE IF CanSeed(s, t) THEN ManifestFromRows(c, t)
        ELSE UnavailableManifest(c, t)

\* resolve_object_revision for a bound turn; NoRevision is the error
\* core_state_as_of_revision_missing.
AsOf(c, t, o) ==
    IF c.bound[t] = NoManifest THEN NoRevision
    ELSE c.mans[c.bound[t]].map[o]

\* _earliest_revision_map
EarliestMap(c) ==
    [o \in Objects |-> IF c.revs[o] = <<>> THEN NoRevision ELSE 1]

\* record_core_mutation: copy on write from the manifest before the turn.
RecordMutation(s, c, t, o, n) ==
    LET parent == LatestVisible(s, c, t, TRUE)
        map == IF parent = NoManifest THEN EarliestMap(c) ELSE c.mans[parent].map
    IN  Recorded(c, t, [map EXCEPT ![o] = n], "runtime_mutation")

-----------------------------------------------------------------------------
(* The steps of apply_proposal.  A service built without a dual-write      *)
(* service (the memory tools') works on the mirror alone: w is whether the *)
(* service writes the store, and primary whether the store leads.          *)

Pinned(c, p) == c.prop[p].turn # NoTurn

Target(c, p) == c.prop[p].target

\* latest_revision_for_target: 1, or the highest receipt for the object
LatestReceipt(c, o) ==
    LET ns == {1} \cup
              UNION {{c.prop[p].receipts[i].rev : i \in DOMAIN c.prop[p].receipts} :
                        p \in {q \in Proposals : c.prop[q].target = o}}
    IN  CHOOSE n \in ns : \A k \in ns : k <= n

\* _current_revision_for_base_ref, _next_revision_for_target
CurrentRevision(c, o, w) == IF w THEN c.row[o].rev ELSE LatestReceipt(c, o)

LoadedMutant(s, c, p, primary) ==
    IF Pinned(c, p) THEN EnsureManifest(s, c, c.prop[p].turn) ELSE c

\* The core state once the before snapshot is loaded: the turn is bound, and
\* a leading store has a row for the target.
Loaded(s, c, p, primary) ==
    LET pinned == IF Pinned(c, p) THEN EnsureManifest(s, c, c.prop[p].turn) ELSE c
        o == Target(c, p)
    IN  IF primary /\ pinned.row[o].rev = NoRevision THEN SeedRow(pinned, o)
        ELSE pinned

CurrentViewMutant(c, primary) == [o \in Objects |-> c.row[o].val]

\* materialize_authoritative_snapshot, or the mirror
CurrentView(c, primary) ==
    [o \in Objects |-> IF primary /\ c.row[o].rev # NoRevision
                       THEN c.row[o].val ELSE c.mirror[o]]

BeforeViewMutant(c, p, primary) == CurrentView(c, primary)

\* _load_before_snapshot: a pinned proposal works on what its turn reads.
BeforeView(c, p, primary) ==
    LET o == Target(c, p)
    IN  IF Pinned(c, p)
        THEN [CurrentView(c, primary) EXCEPT
                 ![o] = c.revs[o][AsOf(c, c.prop[p].turn, o)].val]
        ELSE CurrentView(c, primary)

\* resolve_object_revision raises for an object the manifest does not have.
Resolvable(c, p) ==
    Pinned(c, p) => AsOf(c, c.prop[p].turn, Target(c, p)) # NoRevision

VisibleRevision(c, p, w) ==
    IF Pinned(c, p) THEN AsOf(c, c.prop[p].turn, Target(c, p))
    ELSE CurrentRevision(c, Target(c, p), w)

\* _validate_base_revisions
BaseIsVisible(c, p, w) ==
    c.prop[p].base # NoRevision => c.prop[p].base = VisibleRevision(c, p, w)

NextRevisionMutant(c, p, w) == VisibleRevision(c, p, w) + 1

\* revision_after
NextRevision(c, p, w) == CurrentRevision(c, Target(c, p), w) + 1

\* create_apply_receipt
Receipted(c, p, n, w) ==
    [c EXCEPT !.prop[p].receipts = Append(@, [rev |-> n, stored |-> w])]

MutatedMutant(c, p, n, before, after) ==
    [c EXCEPT !.row[Target(c, p)] = [rev |-> n, val |-> after]]

\* apply_authoritative_mutation, _ensure_authoritative_revision_one included
Mutated(c, p, n, before, after) ==
    LET o == Target(c, p)
        repaired == IF n > 1 /\ c.revs[o] = <<>>
                    THEN Written(c, o, 1, before, None) ELSE c
    IN  Written(repaired, o, n, after, p)

ProposedMutant(c, p, status, o, t, base) ==
    [c EXCEPT !.prop[p] = [status |-> status, target |-> t, turn |-> o,
                           base |-> base, receipts |-> <<>>]]

\* create_proposal
Proposed(c, p, status, o, t, base) ==
    [c EXCEPT !.prop[p] = [status |-> status, target |-> o, turn |-> t,
                           base |-> base, receipts |-> <<>>]]

\* update_proposal_status
Marked(c, p, status) == [c EXCEPT !.prop[p].status = status]

-----------------------------------------------------------------------------
(* What core states are required to satisfy.                               *)

Applied(c, p) == c.prop[p].status = "applied"

\* p has its one receipt exactly when it is applied.
Once(c, p) ==
    /\ Len(c.prop[p].receipts) <= 1
    /\ Applied(c, p) <=> c.prop[p].receipts # <<>>

RowsAreNewest(c) ==
    \A o \in Objects :
        LET n == Len(c.revs[o])
        IN  /\ c.row[o].rev = n
            /\ n # 0 => c.row[o].val = c.revs[o][n].val

MapsResolve(c) ==
    /\ \A m \in DOMAIN c.mans, o \in Objects : c.mans[m].map[o] <= Len(c.revs[o])
    /\ \A t \in Turns : c.bound[t] <= Len(c.mans)

\* The revisions of o that proposal p has written, and those of its target
\* that its receipts claim.
WrittenBy(c, p, o) == {n \in DOMAIN c.revs[o] : c.revs[o][n].by = p}

Claimed(c, p) ==
    LET rs == c.prop[p].receipts
    IN  {rs[i].rev : i \in {j \in DOMAIN rs : rs[j].stored}}

\* A manifest of p's turn leads to what p claims.
Manifested(c, p) ==
    LET pr == c.prop[p]
    IN  pr.turn # NoTurn => \A n \in Claimed(c, p) :
            \E m \in DOMAIN c.mans : /\ c.mans[m].turn = pr.turn
                                     /\ c.mans[m].map[pr.target] = n

\* p has written the revisions ns of its target and no other.
HasWritten(c, p, ns) ==
    \A o \in Objects :
        WrittenBy(c, p, o) = IF o = c.prop[p].target THEN ns ELSE {}

Whole(c, p) == HasWritten(c, p, Claimed(c, p)) /\ Manifested(c, p)

Extends(longer, shorter) ==
    /\ Len(shorter) <= Len(longer)
    /\ \A i \in 1..Len(shorter) : longer[i] = shorter[i]

\* d has all the history of c.
Keeps(d, c) ==
    /\ \A o \in Objects : Extends(d.revs[o], c.revs[o])
    /\ Extends(d.mans, c.mans)
    /\ \A p \in Proposals : Extends(d.prop[p].receipts, c.prop[p].receipts)
=============================================================================
