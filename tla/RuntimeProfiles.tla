--------------------------- MODULE RuntimeProfiles ---------------------------
(***************************************************************************)
(* The runtime profile of one story session                                *)
(* (runtime_profile_snapshot_service.py) and the control plane that edits  *)
(* it (runtime_config_control_service.py).  A turn runs on the snapshot it *)
(* was created with; a snapshot is compiled from the registry defaults and *)
(* the session's config, and an edit of the config publishes a snapshot    *)
(* that is patched from the active one.                                    *)
(*                                                                         *)
(* Every operation is one request and one transaction; a refused one       *)
(* leaves nothing.  What varies is the order of the requests, and how old  *)
(* the page is that an edit was made on.                                   *)
(***************************************************************************)
EXTENDS Naturals, SequencesExt, FiniteSetsExt

CONSTANTS
    Fields,          \* the fields of a profile that the config can set
    MaxValue,        \* their values are 1..MaxValue, and 0 for a null
    Configs,         \* the configs a session can have
    Governs,         \* per version of the defaults and field: who decides it
    Patched,         \* the fields whose plain setting an edit writes
    MaxDefaults,     \* versions of the registry and mode profile defaults
    MaxSnapshots,
    MaxProfileTurns

FieldValues == 0..MaxValue

\* A config may set a field plainly (retrieval_embedding_model_id,
\* post_write_policy_preset, model_profile_ref) and in a section of patches
\* (retrieval_policy_patch, worker_overrides, model_profile_patch), where a null
\* is Nulled, and 0 if the section does not name the field.
Nulled == MaxValue + 1
Setting == [plain : FieldValues, section : FieldValues \cup {Nulled}]

\* open: the config decides; mode: the mode profile does, over what is set
\* plainly; registry: the registry does, over everything.
Deciders == {"open", "mode", "registry"}

ASSUME ProfileBounds ==
    /\ MaxValue \in Nat /\ MaxDefaults \in Nat /\ MaxSnapshots \in Nat
    /\ Configs \subseteq [Fields -> Setting]
    /\ Governs \in [0..MaxDefaults -> [Fields -> Deciders]]

VARIABLES
    defaults,     \* the defaults in force
    config,       \* runtime_story_config_json of the session
    snapshots,    \* in the order they were created
    pinned,       \* active_runtime_profile_snapshot_id, 0 for none
    receipts,     \* of the control plane
    turnProfile   \* per turn: the snapshot it was created with

profileVars ==
    <<defaults, config, snapshots, pinned, receipts, turnProfile>>

SnapshotIds == 1..MaxSnapshots
SnapshotStatus == {"draft", "active", "superseded"}

\* A field of the compiled profile shows a value of the config, or the
\* defaults (0) as of the version the profile was compiled from.  followed: by
\* which value of a field the parts that follow it were set up (the activation
\* of workers by a retrieval policy field, worker profiles by a session's).
Compiled == [defaults : 0..MaxDefaults, values : [Fields -> FieldValues],
             followed : [Fields -> FieldValues]]
\* source_config_revision: from: 0 for a compilation, else the base snapshot.
SnapshotSource == [compiled : Compiled, config : [Fields -> Setting],
                   from : 0..MaxSnapshots]

ProfilesTypeOK ==
    /\ defaults \in 0..MaxDefaults /\ config \in Configs
    /\ \A i \in DOMAIN snapshots :
         snapshots[i] \in [compiled : Compiled, source : SnapshotSource,
                           status : SnapshotStatus]
    /\ Len(snapshots) <= MaxSnapshots /\ pinned \in 0..MaxSnapshots
    /\ \A i \in DOMAIN receipts :
         receipts[i] \in [before : SnapshotIds, after : SnapshotIds]
    /\ turnProfile \in Seq(SnapshotIds)

\* The config a session is created with has no sections.
ProfilesInit ==
    /\ defaults = 0
    /\ config \in {c \in Configs : \A f \in Fields : c[f].section = 0}
    /\ snapshots = <<>> /\ pinned = 0 /\ receipts = <<>>
    /\ turnProfile = <<>>

\* A store as the operations change it before they commit.
ProfileStore == [snapshots |-> snapshots, pinned |-> pinned]

\* create_snapshot_record.
CreatedSnapshot(s, compiled, source) ==
    [s EXCEPT !.snapshots =
       Append(@, [compiled |-> compiled, source |-> source,
                  status |-> "draft"])]

\* publish_snapshot: whatever is active is superseded.
PublishedProfile(s, id) ==
    [snapshots |->
       [i \in DOMAIN s.snapshots |->
          IF i = id THEN [s.snapshots[i] EXCEPT !.status = "active"]
          ELSE IF s.snapshots[i].status = "active"
            THEN [s.snapshots[i] EXCEPT !.status = "superseded"]
          ELSE s.snapshots[i]],
     pinned |-> id]

\* _compile_profile, of field f with the defaults of version d and setting c.
CompiledValue(f, d, c) ==
    IF Governs[d][f] = "registry" THEN 0
    ELSE IF c.section \in 1..MaxValue THEN c.section
    ELSE IF c.section = 0 /\ Governs[d][f] = "mode" THEN 0
    ELSE c.plain

CompiledNow ==
    LET values == [f \in Fields |-> CompiledValue(f, defaults, config[f])]
    IN  [defaults |-> defaults, values |-> values, followed |-> values]
SourceNow == [compiled |-> CompiledNow, config |-> config, from |-> 0]

\* ensure_active_snapshot: the pinned one if it was compiled from the same
\* sources, else a new one.
EnsuredProfile(s) ==
    IF s.pinned # 0 /\ s.snapshots[s.pinned].source = SourceNow
      THEN s
      ELSE PublishedProfile(CreatedSnapshot(s, CompiledNow, SourceNow), Len(s.snapshots) + 1)

\* require_active_snapshot, and ensure_active_snapshot where it finds none.
ActiveIn(s) ==
    LET active == {i \in DOMAIN s.snapshots : s.snapshots[i].status = "active"}
    IN  IF s.pinned \in active THEN s
        ELSE IF active # {} THEN [s EXCEPT !.pinned = Max(active)]
        ELSE EnsuredProfile(s)

SaveProfiles(s) ==
    /\ Len(s.snapshots) <= MaxSnapshots
    /\ snapshots' = s.snapshots /\ pinned' = s.pinned

-----------------------------------------------------------------------------
\* Registry descriptors or the mode profile are changed, outside the session.
ChangeDefaults ==
    /\ defaults < MaxDefaults /\ defaults' = defaults + 1
    /\ UNCHANGED <<config, snapshots, pinned, receipts, turnProfile>>

\* Activation of the workspace, first or repeated.
EnsureActive ==
    /\ SaveProfiles(EnsuredProfile(ProfileStore))
    /\ UNCHANGED <<defaults, config, receipts, turnProfile>>

\* resolve_runtime_entry_identity and create_turn; requested: the snapshot
\* the client names, or 0.  One that is no longer active is refused.
EnterTurn(requested) ==
    LET s == IF requested = 0 THEN ActiveIn(ProfileStore) ELSE ProfileStore
        id == IF requested = 0 THEN s.pinned ELSE requested
    IN  /\ Len(turnProfile) < MaxProfileTurns /\ requested <= Len(snapshots)
        /\ s.snapshots[id].status = "active"
        /\ SaveProfiles(s) /\ turnProfile' = Append(turnProfile, id)
        /\ UNCHANGED <<defaults, config, receipts>>

\* Wrong: the edit is compiled afresh from the defaults.
PatchedProfileMutant(compiled, next) ==
    LET values == [f \in Fields |-> CompiledValue(f, defaults, next[f])]
    IN  [defaults |-> defaults, values |-> values, followed |-> values]

\* _apply_runtime_config_patch_to_compiled_profile: the settings of the edited
\* config over the compiled profile of the base, whoever decided a field there.
\* What is not patched is left as it is, and so is what follows a field.
PatchedProfile(compiled, next) ==
    [compiled EXCEPT !.values =
       [f \in Fields |->
          IF next[f].section \in 1..MaxValue THEN next[f].section
          ELSE IF next[f].section = 0 /\ next[f].plain # 0 /\ f \in Patched
            THEN next[f].plain
          ELSE @[f]]]

\* publish_patch: the edit turns the config into next; expected: the snapshot
\* the client saw as active, or 0 if it names none.
PublishPatch(next, expected) ==
    LET s == ActiveIn(ProfileStore)
        compiled == PatchedProfile(s.snapshots[s.pinned].compiled, next)
        created == CreatedSnapshot(s, compiled,
                           [compiled |-> compiled, config |-> next,
                            from |-> s.pinned])
    IN  /\ config # next
        /\ expected \in {0, s.pinned}
        /\ SaveProfiles(PublishedProfile(created, Len(created.snapshots)))
        /\ config' = next
        /\ receipts' = Append(receipts, [before |-> s.pinned,
                                         after |-> Len(created.snapshots)])
        /\ UNCHANGED <<defaults, turnProfile>>

ProfilesNext ==
    \/ ChangeDefaults \/ EnsureActive
    \/ \E requested \in 0..MaxSnapshots : EnterTurn(requested)
    \/ \E next \in Configs, expected \in 0..MaxSnapshots :
         PublishPatch(next, expected)

ProfilesSpec == ProfilesInit /\ [][ProfilesNext]_profileVars

-----------------------------------------------------------------------------
\* The session runs on one profile: at most one snapshot is active, and it is
\* the one the session is pinned to, however edits, turns and activations
\* alternate.
OneActiveProfile ==
    \A i \in DOMAIN snapshots : snapshots[i].status = "active" <=> i = pinned

\* Field f with setting c is shown as it is set: in a section, or plainly where
\* no section names it and edits write it.
ShownAsSet(f, c, value) ==
    /\ c.section \in 1..MaxValue => value = c.section
    /\ c.section = 0 /\ c.plain # 0 /\ f \in Patched => value = c.plain

\* What the config sets, the active profile shows, where the defaults it was
\* compiled from leave it to the config and, once the config was edited,
\* wherever it is set: no edit is stored that the next turn does not run on.
ConfigIsInForce ==
    pinned # 0 =>
      LET snapshot == snapshots[pinned]
      IN  \A f \in Fields :
            (\/ Governs[snapshot.compiled.defaults][f] = "open"
             \/ snapshot.source.from # 0)
              => ShownAsSet(f, config[f], snapshot.compiled.values[f])

\* compile_snapshot_from_runtime_config_patch must "not silently rebase an
\* existing story onto a newer active ModeProfile or registry default": an
\* edit moves nothing to what the defaults became.  A field it does not set
\* stays as it was, or, if the defaults decided it till then, comes to show
\* what the config had set before.
EditsDoNotRebase ==
    Len(receipts') > Len(receipts) =>
      LET r == Last(receipts')
          before == snapshots'[r.before].compiled
          after == snapshots'[r.after].compiled
      IN  /\ after.defaults = before.defaults
          /\ after.followed = before.followed
          /\ \A f \in Fields :
               after.values[f] # before.values[f] =>
                 /\ after.values[f] \in {config'[f].section, config'[f].plain}
                 /\ \/ config'[f] # config[f]
                    \/ Governs[before.defaults][f] # "open"

\* A session has one active profile snapshot; what a control publish changed
\* is in force for the next turn; and an edit of the draft configuration does
\* not move a profile onto newer defaults (RuntimeProfileSnapshotService).
ProfilesStand ==
    /\ [](OneActiveProfile /\ ConfigIsInForce)
    /\ [][EditsDoNotRebase]_profileVars
=============================================================================
