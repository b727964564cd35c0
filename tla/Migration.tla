------------------------------- MODULE Migration -------------------------------
(***************************************************************************)
(* The migration of a BlessingSkin site to the shared identity tables and  *)
(* its reversible resolution of blocked players: what the commands of      *)
(* cmd/shared-auth-migrate do to the schema, to the state row that gates   *)
(* the runtime and to the identities, while other operators run commands,  *)
(* the site edits its tables and the runtime serves players.               *)
(*                                                                         *)
(* A command is the steps between which others may act: each DDL statement *)
(* commits by itself, what is checked outside a transaction is a step, and *)
(* a transaction is one step per table that it locks; its writes appear    *)
(* with the last.  A plan file is the snapshot it was built from: every    *)
(* write command confirms its digest, and Build is a function.             *)
(***************************************************************************)
EXTENDS Integers, FiniteSets, Functions

CONSTANTS
    Operator,            \* processes of cmd/shared-auth-migrate
    Pid, Name, Mapping,  \* players, player names, rows of the legacy uuid table
    Weight,              \* Weight[n]: the sort weight of n (WEIGHT_STRING)
    Uuid, Offline,       \* UUIDs; Offline[n]: the version 3 UUID of name n
    Malformed,           \* what is no RFC 4122 UUID
    None,                \* an absent row or value
    MigrationId,         \* the ids that plans are given
    InitialSites,        \* the site's tables at the start
    Edits, MaxEdits,     \* the rows that the site writes, and how many
    Draws                \* the UUIDs that the runtime draws

VARIABLES
    site,         \* tables players and uuid of the site
    edits,        \* how often the site has written them
    plans,        \* the migration plans on file
    resolutions,  \* the resolution plans on file
    objects,      \* tables, columns and triggers of the shared schema
    state,        \* the row of ygg_go_state
    identities,   \* the rows of ygg_go_identities
    references,   \* identities that a token or a join session refers to
    run           \* run[o]: the command of o and where it is

vars == <<site, edits, plans, resolutions, objects, state, identities, references, run>>

-----------------------------------------------------------------------------
(* Data.                                                                   *)

MappingRow == [name: Name, uuid: Uuid \cup {Malformed}]
Site == [players: [Pid -> Name \cup {None}], mappings: [Mapping -> MappingRow \cup {None}]]
Plan == [id: MigrationId, source: Site]

\* A row's identity_id is the action that inserted it: no two rows begin alike.
Action == [state: {"active", "blocked", "reserved"}, player: Pid \cup {None},
           uuid: Uuid \cup {None}, mapping: Mapping \cup {None}]
Identity == [state: {"active", "blocked", "reserved", "resolved"}, player: Pid \cup {None},
             uuid: Uuid \cup {None}, mapping: Mapping \cup {None}, into: Action \cup {None}]
Decision == [player: Pid, name: Name, blocked: Action, reserved: Action, uuid: Uuid,
             mappings: SUBSET Mapping]
StateRow == [version: {1, 2}, phase: {"staged", "active"}, id: MigrationId,
             watermark: Nat]

Tables == {"identities", "subjects", "tokens", "sessions", "state"}
Hooks == {"userUpdate", "userDelete"}
ResolutionSchema == {"column", "resolutionInsert", "resolutionUpdate"}
Objects == Tables \cup Hooks \cup ResolutionSchema

\* The statement after each one of Upgrade, UpgradeResolutionSchema and DowngradeResolutionSchema.
Following ==
    [upgrade |-> [identities |-> "subjects", subjects |-> "tokens", tokens |-> "sessions",
                  sessions |-> "state", state |-> "userUpdate", userUpdate |-> "userDelete",
                  userDelete |-> "done"],
     upgradeV2 |-> [column |-> "resolutionInsert", resolutionInsert |-> "resolutionUpdate",
                    resolutionUpdate |-> "done"],
     downgradeV2 |-> [resolutionUpdate |-> "resolutionInsert", resolutionInsert |-> "column",
                      column |-> "done"]]
Ddl == DOMAIN Following

\* at: the statement to run, "checked" before the transaction, or the last row locked.
Command == [cmd: Ddl \cup {"apply", "activate", "activateV2", "deactivateV2",
                           "resolve", "rollback", "activateResolved"},
            at: Objects \cup {"checked", "source", "gate"}, plan: Plan \cup Decision \cup {None}]
Idle == [cmd |-> "none", at |-> "done", plan |-> None]

ASSUME MigrationAssumption ==
    /\ Pid \subseteq Nat \ {0} /\ Mapping \subseteq Nat \ {0}
    /\ \A ps \in SUBSET Pid : ps # {} => \E p \in ps : \A q \in ps : q <= p
    /\ IsFiniteSet(Mapping)
    /\ Offline \in [Name -> Uuid] /\ Weight \in [Name -> Nat]
    /\ None \notin Pid \cup Name \cup Mapping \cup Uuid \cup Plan \cup Decision \cup MappingRow
    /\ None \notin StateRow \cup Action
    /\ Malformed \notin Uuid \cup {None}
    /\ InitialSites \subseteq Site /\ Draws \subseteq Uuid
    /\ Edits \in [players: [Pid -> SUBSET (Name \cup {None})],
                  mappings: [Mapping -> SUBSET (MappingRow \cup {None})]]
    /\ MaxEdits \in Nat

-----------------------------------------------------------------------------
(* Build: what becomes of every player and of every legacy UUID.           *)

Players(s) == {p \in Pid : s.players[p] # None}
Mappings(s) == {m \in Mapping : s.mappings[m] # None}
NamedPlayers(s, n) == {p \in Players(s) : s.players[p] = n}
NamedMappings(s, n) == {m \in Mappings(s) : s.mappings[m].name = n}

\* Names of the site that the collation takes for n.
Equivalent(s, n) ==
    {k \in {s.players[p] : p \in Players(s)} \cup {s.mappings[m].name : m \in Mappings(s)} :
        Weight[k] = Weight[n]}

Holders(s, x) == {m \in Mappings(s) : s.mappings[m].uuid = x}

playerReason(s, p) ==
    LET n == s.players[p]
        rows == NamedMappings(s, n)
        x == s.mappings[CHOOSE m \in rows : TRUE].uuid
    IN  IF NamedPlayers(s, n) # {p} THEN "duplicate_current_name"
        ELSE IF Equivalent(s, n) # {n} THEN "collation_equivalent_name"
        ELSE IF rows = {} THEN "missing_legacy_mapping"
        ELSE IF Cardinality(rows) # 1 THEN "duplicate_legacy_name"
        ELSE IF x = Malformed THEN "invalid_legacy_uuid"
        ELSE IF Holders(s, x) # rows THEN "duplicate_legacy_uuid"
        ELSE "active"

Missing(s) == {p \in Players(s) : playerReason(s, p) = "missing_legacy_mapping"}

\* (A slip: a generated UUID is checked against the other generated ones only.)
FreeOfGenerated(s, p) == \A q \in Missing(s) \ {p} : Offline[s.players[q]] # Offline[s.players[p]]
GeneratedFree(s, p) ==
    /\ \A q \in Missing(s) \ {p} : Offline[s.players[q]] # Offline[s.players[p]]
    /\ Holders(s, Offline[s.players[p]]) = {}

ActiveActions(s) ==
    {[state |-> "active", player |-> p, uuid |-> Offline[s.players[p]], mapping |-> None] :
        p \in {q \in Missing(s) : GeneratedFree(s, q)}}
    \cup
    {[state |-> "active", player |-> given[1], uuid |-> s.mappings[given[2]].uuid, mapping |-> given[2]] :
        given \in {pm \in Players(s) \X Mappings(s) :
            playerReason(s, pm[1]) = "active" /\ s.mappings[pm[2]].name = s.players[pm[1]]}}

BlockedActions(s) ==
    {[state |-> "blocked", player |-> p, uuid |-> None, mapping |-> None] :
        p \in {q \in Players(s) : \A a \in ActiveActions(s) : a.player # q}}

\* The first row of a UUID that went to no player stands for all of them.
ReservedActions(s) ==
    {[state |-> "reserved", player |-> None, uuid |-> s.mappings[m].uuid, mapping |-> m] :
        m \in {k \in Mappings(s) :
            /\ s.mappings[k].uuid # Malformed
            /\ \A a \in ActiveActions(s) : a.uuid # s.mappings[k].uuid
            /\ \A j \in Holders(s, s.mappings[k].uuid) : k <= j}}

Build(s) == ActiveActions(s) \cup BlockedActions(s) \cup ReservedActions(s)

Watermark(s) == IF Players(s) = {} THEN 0
                ELSE CHOOSE p \in Players(s) : \A q \in Players(s) : q <= p

-----------------------------------------------------------------------------
(* Rows and locks.                                                         *)

Row(a) == [state |-> a.state, player |-> a.player, uuid |-> a.uuid,
           mapping |-> a.mapping, into |-> None]

\* verifyIdentities: the rows are those of the plan, one for each action.
AsPlanned(plan) ==
    /\ DOMAIN identities = Build(plan.source)
    /\ \A a \in DOMAIN identities : identities[a] = Row(a)

Active == state # None /\ state.phase = "active"
Staged == state # None /\ state.phase = "staged"
Version(v) == state # None /\ state.version = v

\* readStateForGateChange: the state row was made of this plan; readState wants version 1, too.
StateOf(plan) ==
    /\ state # None
    /\ state.id = plan.id /\ state.watermark = Watermark(plan.source)

\* (A slip: a damaged hook passes.)
AnyHook == Hooks \cap objects # {} \/ "state" \in objects
VerifyHooks == Hooks \subseteq objects

VerifyResolutionSchema == ResolutionSchema \subseteq objects

Unresolved == \A a \in DOMAIN identities : identities[a].state # "resolved"

Others(o) == Operator \ {o}
InDdl(o) == run[o].cmd \in Ddl

\* Apply and Activate lock the site's tables for share until they end.
\* (A slip: the snapshot is read without FOR SHARE.)
Unlocked(o) == FALSE
HoldsSite(o) == run[o].cmd \in {"apply", "activate"} /\ run[o].at \in {"source", "gate"}
HoldsGate(o) == run[o].at = "gate"
GateFree(o) == \A other \in Others(o) : ~HoldsGate(other)
SiteFree == \A o \in Operator : ~HoldsSite(o)

\* DDL has a maintenance window of its own (src/sharedauth/README.md:40).
Ready(o) == run[o] = Idle /\ \A other \in Others(o) : ~InDdl(other)
Go(o, cmd, at, plan) == run' = [run EXCEPT ![o] = [cmd |-> cmd, at |-> at, plan |-> plan]]
End(o) == run' = [run EXCEPT ![o] = Idle]

-----------------------------------------------------------------------------
(* The schema.                                                             *)

BeginDdl(o, cmd, first) ==
    /\ run[o] = Idle
    /\ \A other \in Others(o) : run[other] = Idle
    /\ Go(o, cmd, first, None)
    /\ UNCHANGED <<site, edits, plans, resolutions, objects, state, identities, references>>

\* No target table and no trigger on users: a schema that was left half-way is not touched again.
Upgrade(o) ==
    /\ objects \cap (Tables \cup Hooks) = {}
    /\ BeginDdl(o, "upgrade", "identities")

UpgradeResolutionSchema(o) ==
    /\ Version(1) /\ "column" \notin objects
    /\ BeginDdl(o, "upgradeV2", "column")

DowngradeResolutionSchema(o) ==
    /\ VerifyResolutionSchema /\ Version(1) /\ Unresolved
    /\ BeginDdl(o, "downgradeV2", "resolutionUpdate")

\* (A slip: the command does not end with its last statement.)
Endless(o) ==
    /\ InDdl(o)
    /\ Go(o, run[o].cmd, Following[run[o].cmd][run[o].at], None)
    /\ objects' = objects \cup {run[o].at}
    /\ UNCHANGED <<site, edits, plans, resolutions, state, identities, references>>
Statement(o) ==
    LET object == run[o].at
        next == Following[run[o].cmd][object]
    IN  /\ InDdl(o)
        /\ IF run[o].cmd = "downgradeV2"
           THEN /\ object \in objects
                /\ objects' = objects \ {object}
           ELSE /\ object \notin objects
                /\ objects' = objects \cup {object}
        /\ IF next = "done" THEN End(o) ELSE Go(o, run[o].cmd, next, None)
        /\ UNCHANGED <<site, edits, plans, resolutions, state, identities, references>>

\* ActivateResolutionSchema and DeactivateResolutionSchema verify before their transactions.
VerifySchema(o, cmd) ==
    /\ cmd \in {"activateV2", "deactivateV2"}
    /\ Ready(o) /\ VerifyResolutionSchema
    /\ Go(o, cmd, "checked", None)
    /\ UNCHANGED <<site, edits, plans, resolutions, objects, state, identities, references>>

ActivateResolutionSchema(o) ==
    /\ run[o].cmd = "activateV2" /\ GateFree(o)
    /\ Version(1)
    /\ state' = [state EXCEPT !.version = 2]
    /\ End(o)
    /\ UNCHANGED <<site, edits, plans, resolutions, objects, identities, references>>

DeactivateResolutionSchema(o) ==
    /\ run[o].cmd = "deactivateV2" /\ GateFree(o)
    /\ Version(2) /\ Unresolved
    /\ state' = [state EXCEPT !.version = 1]
    /\ End(o)
    /\ UNCHANGED <<site, edits, plans, resolutions, objects, identities, references>>

-----------------------------------------------------------------------------
(* The migration plan.                                                     *)

\* dry-run: ReadSnapshot, Build and Save.
DryRun(o, id) ==
    /\ Ready(o)
    /\ \A plan \in plans : plan.id # id
    /\ plans' = plans \cup {[id |-> id, source |-> site]}
    /\ UNCHANGED <<site, edits, resolutions, objects, state, identities, references, run>>

\* Activate before its transaction: the hooks and, under version 2, the resolution schema.
VerifyBeforeActivate(o, plan) ==
    /\ Ready(o) /\ state # None
    /\ VerifyHooks
    /\ Version(2) => VerifyResolutionSchema
    /\ Go(o, "activate", "checked", plan)
    /\ UNCHANGED <<site, edits, plans, resolutions, objects, state, identities, references>>

\* requireSnapshot: FOR SHARE on both tables of the site, which are as when the plan was built.
requireSnapshot(o, cmd, plan) ==
    /\ \/ cmd = "apply" /\ Ready(o) /\ Tables \subseteq objects
       \/ run[o] = [cmd |-> cmd, at |-> "checked", plan |-> plan] /\ cmd = "activate"
    /\ site = plan.source
    /\ Go(o, cmd, "source", plan)
    /\ UNCHANGED <<site, edits, plans, resolutions, objects, state, identities, references>>

\* The state row FOR UPDATE; a missing one leaves a gap that several transactions may lock.
LockGate(o) ==
    LET plan == run[o].plan
    IN  /\ run[o].at = "source"
        /\ state # None => GateFree(o) /\ Staged /\ StateOf(plan)
        /\ run[o].cmd = "apply" => IF state = None THEN identities = <<>> /\ references = {}
                                                   ELSE Version(1)
        /\ run[o].cmd = "activate" => state # None
        /\ Go(o, run[o].cmd, "gate", plan)
        /\ UNCHANGED <<site, edits, plans, resolutions, objects, state, identities, references>>

\* The INSERT of the state row waits for every lock on its gap.
Apply(o) ==
    LET plan == run[o].plan
    IN  /\ run[o].cmd = "apply" /\ HoldsGate(o) /\ GateFree(o)
        /\ IF state = None
           THEN /\ identities' = [a \in Build(plan.source) |-> Row(a)]
                /\ state' = [version |-> 1, phase |-> "staged", id |-> plan.id,
                             watermark |-> Watermark(plan.source)]
           ELSE AsPlanned(plan) /\ UNCHANGED <<state, identities>>
        /\ End(o)
        /\ UNCHANGED <<site, edits, plans, resolutions, objects, references>>

Activate(o) ==
    /\ run[o].cmd = "activate" /\ HoldsGate(o)
    /\ AsPlanned(run[o].plan)
    /\ state' = [state EXCEPT !.phase = "active"]
    /\ End(o)
    /\ UNCHANGED <<site, edits, plans, resolutions, objects, identities, references>>

Deactivate(o, plan) ==
    /\ Ready(o) /\ GateFree(o)
    /\ Active /\ StateOf(plan)
    /\ state' = [state EXCEPT !.phase = "staged"]
    /\ UNCHANGED <<site, edits, plans, resolutions, objects, identities, references, run>>

-----------------------------------------------------------------------------
(* The resolution plan: one reviewed pair of rows; a plan of several pairs *)
(* treats each one like this in the same transaction.                      *)

EquivalentPlayers(n) == {p \in Players(site) : Weight[site.players[p]] = Weight[n]}
EquivalentMappings(n) == {m \in Mappings(site) : Weight[site.mappings[m].name] = Weight[n]}

\* readDecision: the rows that an operator selected are what the review saw.
readDecision(rows, d) ==
    /\ d.player \in Players(site) /\ site.players[d.player] = d.name
    /\ EquivalentPlayers(d.name) = {d.player}
    /\ {d.blocked, d.reserved} \subseteq DOMAIN rows
    /\ rows[d.blocked] = [state |-> "blocked", player |-> d.player, uuid |-> None,
                                mapping |-> None, into |-> None]
    /\ LET reserved == rows[d.reserved]
       IN  /\ reserved.state = "reserved" /\ reserved.player = None /\ reserved.into = None
           /\ reserved.uuid = d.uuid
           /\ reserved.mapping \in d.mappings \cup {None}
    /\ d.mappings # {} /\ EquivalentMappings(d.name) = d.mappings
    /\ \A m \in d.mappings : site.mappings[m].uuid = d.uuid

\* verifyPlanRows after the plan has been applied.
Resolved(d) ==
    /\ {d.blocked, d.reserved} \subseteq DOMAIN identities
    /\ identities[d.blocked] = [state |-> "resolved", player |-> None, uuid |-> None,
                                mapping |-> None, into |-> d.reserved]
    /\ LET active == identities[d.reserved]
       IN  /\ active.state = "active" /\ active.player = d.player
           /\ active.uuid = d.uuid /\ active.into = None

\* (A slip: only the blocked row, which no token refers to, is looked at.)
BlockedUnused(d) == d.blocked \notin references
NoLiveReferences(d) == {d.blocked, d.reserved} \cap references = {}

ResolutionDryRun(o) ==
    /\ Ready(o) /\ Version(2)
    /\ \E blocked, reserved \in DOMAIN identities, p \in Players(site) :
           LET n == site.players[p]
               d == [player |-> p, name |-> n, blocked |-> blocked, reserved |-> reserved,
                     uuid |-> identities[reserved].uuid, mappings |-> EquivalentMappings(n)]
           IN  /\ readDecision(identities, d) /\ NoLiveReferences(d)
               /\ resolutions' = resolutions \cup {d}
    /\ UNCHANGED <<site, edits, plans, objects, state, identities, references, run>>

\* requireV2State of a transaction that writes identities: the gate is closed.
requireStaged(o, cmd, d) ==
    /\ cmd \in {"resolve", "rollback"}
    /\ Ready(o) /\ GateFree(o)
    /\ Version(2) /\ Staged
    /\ Go(o, cmd, "gate", d)
    /\ UNCHANGED <<site, edits, plans, resolutions, objects, state, identities, references>>

\* Both rows in one UPDATE each, and the rows of the site FOR UPDATE.
Resolve(o) ==
    LET d == run[o].plan
    IN  /\ run[o].cmd = "resolve" /\ SiteFree
        /\ readDecision(identities, d) /\ NoLiveReferences(d)
        /\ identities' = [identities EXCEPT
               ![d.blocked] = [state |-> "resolved", player |-> None, uuid |-> None,
                               mapping |-> None, into |-> d.reserved],
               ![d.reserved].state = "active", ![d.reserved].player = d.player]
        /\ End(o)
        /\ UNCHANGED <<site, edits, plans, resolutions, objects, state, references>>

Restored(d) ==
    [identities EXCEPT
        ![d.blocked] = [state |-> "blocked", player |-> d.player, uuid |-> None,
                        mapping |-> None, into |-> None],
        ![d.reserved].state = "reserved", ![d.reserved].player = None]

\* (A slip: each UPDATE commits, and the process ends between the two.)
RollbackHalf(o) ==
    LET d == run[o].plan
    IN  /\ run[o].cmd = "rollback" /\ SiteFree
        /\ Resolved(d) /\ NoLiveReferences(d)
        /\ identities' = [identities EXCEPT ![d.reserved].state = "reserved",
                                            ![d.reserved].player = None]
        /\ End(o)
        /\ UNCHANGED <<site, edits, plans, resolutions, objects, state, references>>

\* The restored rows must be those that the plan was reviewed for.
Rollback(o) ==
    LET d == run[o].plan
    IN  /\ run[o].cmd = "rollback" /\ SiteFree
        /\ Resolved(d) /\ NoLiveReferences(d)
        /\ readDecision(Restored(d), d)
        /\ identities' = Restored(d)
        /\ End(o)
        /\ UNCHANGED <<site, edits, plans, resolutions, objects, state, references>>

VerifyBeforeResolved(o, d) ==
    /\ Ready(o)
    /\ VerifyHooks /\ VerifyResolutionSchema
    /\ Go(o, "activateResolved", "checked", d)
    /\ UNCHANGED <<site, edits, plans, resolutions, objects, state, identities, references>>

ActivateResolved(o) ==
    /\ run[o].cmd = "activateResolved" /\ GateFree(o)
    /\ Version(2) /\ Staged
    /\ Resolved(run[o].plan)
    /\ state' = [state EXCEPT !.phase = "active"]
    /\ End(o)
    /\ UNCHANGED <<site, edits, plans, resolutions, objects, identities, references>>

DeactivateResolved(o) ==
    /\ resolutions # {}
    /\ Ready(o) /\ GateFree(o)
    /\ Version(2) /\ Active
    /\ state' = [state EXCEPT !.phase = "staged"]
    /\ UNCHANGED <<site, edits, plans, resolutions, objects, identities, references, run>>

-----------------------------------------------------------------------------
(* An error, a timeout or the end of the process: a transaction is rolled  *)
(* back, a DDL statement that has run stays.                               *)

Stop(o) ==
    /\ run[o] # Idle
    /\ End(o)
    /\ UNCHANGED <<site, edits, plans, resolutions, objects, state, identities, references>>

(* The site, outside src: renamed, new and removed players, legacy rows.   *)

EditPlayer(p, n) ==
    /\ edits < MaxEdits /\ SiteFree
    /\ site' = [site EXCEPT !.players[p] = n]
    /\ edits' = edits + 1
    /\ UNCHANGED <<plans, resolutions, objects, state, identities, references, run>>

EditMapping(m, row) ==
    /\ edits < MaxEdits /\ SiteFree
    /\ site' = [site EXCEPT !.mappings[m] = row]
    /\ edits' = edits + 1
    /\ UNCHANGED <<plans, resolutions, objects, state, identities, references, run>>

(* The runtime, whose transactions lock the state row for share: a new     *)
(* player is given an identity, an active identity a token, and tokens end.*)

RuntimeOpen == Active /\ \A o \in Operator : ~HoldsGate(o)

EnsureIdentity(p, x) ==
    LET new == [state |-> "active", player |-> p, uuid |-> x, mapping |-> None]
    IN  /\ RuntimeOpen
        /\ p \in Players(site) /\ p > state.watermark
        /\ \A a \in DOMAIN identities : identities[a].player # p /\ identities[a].uuid # x
        /\ new \notin DOMAIN identities
        /\ identities' = [a \in DOMAIN identities \cup {new} |->
                             IF a = new THEN Row(new) ELSE identities[a]]
        /\ UNCHANGED <<site, edits, plans, resolutions, objects, state, references, run>>

Refer(a) ==
    /\ RuntimeOpen
    /\ identities[a].state = "active" /\ identities[a].player \in Players(site)
    /\ references' = references \cup {a}
    /\ UNCHANGED <<site, edits, plans, resolutions, objects, state, identities, run>>

Release(a) ==
    /\ RuntimeOpen
    /\ references' = references \ {a}
    /\ UNCHANGED <<site, edits, plans, resolutions, objects, state, identities, run>>

-----------------------------------------------------------------------------

Init ==
    /\ site \in InitialSites
    /\ edits = 0
    /\ plans = {} /\ resolutions = {}
    /\ objects = {}
    /\ state = None
    /\ identities = <<>>
    /\ references = {}
    /\ run = [o \in Operator |-> Idle]

Schema(o) ==
    \/ Upgrade(o) \/ UpgradeResolutionSchema(o) \/ DowngradeResolutionSchema(o)
    \/ Statement(o)
    \/ \E cmd \in {"activateV2", "deactivateV2"} : VerifySchema(o, cmd)
    \/ ActivateResolutionSchema(o) \/ DeactivateResolutionSchema(o)

Migrate(o) ==
    \/ \E id \in MigrationId : DryRun(o, id)
    \/ \E plan \in plans : \/ VerifyBeforeActivate(o, plan)
                           \/ \E cmd \in {"apply", "activate"} : requireSnapshot(o, cmd, plan)
                           \/ Deactivate(o, plan)
    \/ LockGate(o) \/ Apply(o) \/ Activate(o)

ResolvePairs(o) ==
    \/ ResolutionDryRun(o)
    \/ \E d \in resolutions : \/ \E cmd \in {"resolve", "rollback"} : requireStaged(o, cmd, d)
                              \/ VerifyBeforeResolved(o, d)
    \/ Resolve(o) \/ Rollback(o) \/ ActivateResolved(o) \/ DeactivateResolved(o)

Outside ==
    \/ \E p \in Pid : \E n \in Edits.players[p] : EditPlayer(p, n)
    \/ \E m \in Mapping : \E row \in Edits.mappings[m] : EditMapping(m, row)
    \/ \E p \in Pid, x \in Draws : EnsureIdentity(p, x)
    \/ \E a \in DOMAIN identities : Refer(a)
    \/ \E a \in references : Release(a)

Next ==
    \/ \E o \in Operator : Schema(o) \/ Migrate(o) \/ ResolvePairs(o) \/ Stop(o)
    \/ Outside

Spec == Init /\ [][Next]_vars

-----------------------------------------------------------------------------
(* Properties.                                                             *)

\* Every variable has its type, and the schema is there before the rows are.
TypeOK ==
    /\ site \in Site /\ edits \in 0 .. MaxEdits
    /\ plans \subseteq Plan /\ resolutions \subseteq Decision
    /\ objects \subseteq Objects
    /\ state \in StateRow \cup {None}
    /\ DOMAIN identities \subseteq Action
    /\ identities \in [DOMAIN identities -> Identity]
    /\ references \subseteq DOMAIN identities
    /\ run \in [Operator -> Command \cup {Idle}]

\* A plan decides every player and keeps every legacy UUID, once, and gives none to a player
\* of another name: plan.go:72-176.
PlanKeepsUuids ==
    LET actions == Build(site)
    IN  /\ \A p \in Players(site) : Cardinality({a \in actions : a.player = p}) = 1
        /\ \A m \in Mappings(site) : site.mappings[m].uuid # Malformed =>
               \E a \in actions : a.uuid = site.mappings[m].uuid
        /\ \A a, b \in actions : a # b => /\ a.uuid # None => a.uuid # b.uuid
                                          /\ a.mapping # None => a.mapping # b.mapping
        /\ \A a \in actions, m \in Mappings(site) :
               a.state = "active" /\ site.mappings[m].uuid = a.uuid =>
                   a.mapping = m /\ site.mappings[m].name = site.players[a.player]

\* The gate opens only over the identities of a plan whose snapshot the site still is, or over
\* a resolved pair that the review recorded: apply.go:250-287, resolutionplan/apply.go:96-135.
OpensOnReviewed ==
    [][~Active /\ Active' =>
          \/ \E plan \in plans : plan.id = state.id /\ site = plan.source /\ AsPlanned(plan)
          \/ \E d \in resolutions : Resolved(d)]_vars

\* While the gate is open the security triggers are installed, and version 2 has its schema,
\* whatever statements of earlier commands were left out: apply.go:201-217, migrations.go:91.
GuardedGate ==
    /\ Active => Hooks \subseteq objects
    /\ Version(2) => ResolutionSchema \subseteq objects

\* A resolved row leads to the active identity of the player it was blocked for, so that the
\* player has one identity and the audit link its target: resolutionplan/apply.go:17-66.
AuditLinks ==
    \A a \in DOMAIN identities : identities[a].state = "resolved" =>
        LET into == identities[a].into
        IN  /\ into \in DOMAIN identities
            /\ identities[into].state = "active" /\ identities[into].player = a.player

\* Tokens refer to active identities only: a rollback takes none from under a token that the
\* runtime has issued since: resolutionplan/apply.go:158-206, 208-247.
ReferencesActive == \A a \in references : identities[a].state = "active"
=============================================================================
