-------------------------- MODULE MigrationProofs --------------------------
(***************************************************************************)
(* What the commands of cmd/shared-auth-migrate keep, for any number of    *)
(* operators, players, legacy rows and edits of the site, whatever command *)
(* is interrupted where.                                                   *)
(***************************************************************************)
EXTENDS Migration, TLAPS, FiniteSetTheorems, WellFoundedInduction

-----------------------------------------------------------------------------
(* The inductive invariant.                                                *)

\* What a command knows between its steps: DDL is alone; the site is locked as the plan saw
\* it; what was verified before the transaction is still there; the plan is on file.
KnownOf(o) ==
  /\ InDdl(o) => /\ run[o].at \in DOMAIN Following[run[o].cmd]
                 /\ \A other \in Others(o) : run[other] = Idle
  /\ run[o].at = "source" => run[o].cmd \in {"apply", "activate"}
  /\ run[o].cmd \in {"apply", "activate"} => run[o].plan \in plans
  /\ HoldsSite(o) => site = run[o].plan.source
  /\ run[o].cmd \in {"activate", "activateResolved"} => Hooks \subseteq objects
  /\ run[o].cmd = "activate" /\ run[o].at = "gate" => state # None /\ state.id = run[o].plan.id
  /\ run[o].cmd \in {"resolve", "rollback", "activateResolved"} => run[o].plan \in resolutions
  /\ run[o].cmd = "activateV2" => ResolutionSchema \subseteq objects
  /\ run[o].cmd = "downgradeV2" => ~Version(2)

KnownOK == \A o \in Operator : KnownOf(o)

\* The rows: none before the first state row; a blocked or resolved row began as blocked, with
\* the player of its key; a reviewed blocked row is that of the reviewed player.
RowsOK ==
  /\ state = None => DOMAIN identities = {} /\ references = {}
  /\ \A a \in DOMAIN identities : identities[a].state \in {"blocked", "resolved"} =>
       a.state = "blocked" /\ a.uuid = None /\ a.mapping = None
  /\ \A a \in DOMAIN identities : identities[a].state = "blocked" => identities[a].player = a.player
  /\ \A d \in resolutions : d.blocked.player = d.player

Inv == TypeOK /\ KnownOK /\ RowsOK /\ GuardedGate /\ AuditLinks /\ ReferencesActive


-----------------------------------------------------------------------------
(* Data.                                                                   *)

\* The commands that change the schema.
LEMMA DdlIs == Ddl = {"upgrade", "upgradeV2", "downgradeV2"}
BY DEF Ddl, Following

\* A command's statements are those of the objects, in order.
LEMMA FollowingIs ==
  /\ DOMAIN Following["upgrade"] = {"identities", "subjects", "tokens", "sessions", "state",
                                    "userUpdate", "userDelete"}
  /\ DOMAIN Following["upgradeV2"] = ResolutionSchema
  /\ DOMAIN Following["downgradeV2"] = ResolutionSchema
BY DEF Following, ResolutionSchema

\* The next statement of a command is one of its statements.
LEMMA FollowingStays ==
  ASSUME NEW cmd \in Ddl, NEW at \in DOMAIN Following[cmd], Following[cmd][at] # "done"
  PROVE  Following[cmd][at] \in DOMAIN Following[cmd]
<1>1. CASE cmd = "upgrade"
  BY <1>1, FollowingIs DEF Following
<1>2. CASE cmd = "upgradeV2"
  BY <1>2, FollowingIs DEF Following, ResolutionSchema
<1>3. CASE cmd = "downgradeV2"
  BY <1>3, FollowingIs DEF Following, ResolutionSchema
<1> QED
  BY <1>1, <1>2, <1>3, DdlIs

\* A statement is about an object of the schema.
LEMMA StatementsTyped ==
  ASSUME NEW cmd \in Ddl, NEW at \in DOMAIN Following[cmd]
  PROVE  at \in Objects
BY FollowingIs, DdlIs DEF Objects, Tables, Hooks, ResolutionSchema

\* The watermark is the highest player id, or 0.
LEMMA WatermarkTyped == ASSUME NEW s \in Site PROVE Watermark(s) \in Nat
<1>1. CASE Players(s) = {}
  BY <1>1 DEF Watermark
<1>2. CASE Players(s) # {}
  <2>1. Players(s) \in SUBSET Pid
    BY DEF Players
  <2>2. \E p \in Players(s) : \A q \in Players(s) : q <= p
    BY <1>2, <2>1, MigrationAssumption
  <2>3. Watermark(s) \in Players(s)
    BY <1>2, <2>2 DEF Watermark
  <2> QED
    BY <2>1, <2>3, MigrationAssumption
<1> QED
  BY <1>1, <1>2

\* Build makes actions.
LEMMA BuildTyped == ASSUME NEW s \in Site PROVE Build(s) \subseteq Action
<1>1. ASSUME NEW p \in Players(s) PROVE p \in Pid /\ s.players[p] \in Name
  BY <1>1 DEF Players, Site
<1>2. ASSUME NEW m \in Mappings(s) PROVE m \in Mapping /\ s.mappings[m] \in MappingRow
  BY <1>2 DEF Mappings, Site
<1>3. ASSUME NEW p \in Players(s), NEW m \in Mappings(s), playerReason(s, p) = "active",
             s.mappings[m].name = s.players[p]
      PROVE  s.mappings[m].uuid \in Uuid
  <2> DEFINE rows == NamedMappings(s, s.players[p])
  <2>1. m \in rows /\ rows \subseteq Mapping
    BY <1>3 DEF NamedMappings, Mappings
  <2>2. Cardinality(rows) = 1 /\ s.mappings[CHOOSE k \in rows : TRUE].uuid # Malformed
    BY <1>3 DEF playerReason
  <2>3. IsFiniteSet(rows)
    BY <2>1, FS_Subset, MigrationAssumption
  <2>4. PICK k : rows = {k}
    BY <2>2, <2>3, FS_Singleton
  <2>5. (CHOOSE j \in rows : TRUE) = m
    BY <2>1, <2>4
  <2> QED
    BY <1>2, <2>2, <2>5 DEF MappingRow
<1>4. ActiveActions(s) \subseteq Action
  <2>1. ASSUME NEW p \in Missing(s)
        PROVE  [state |-> "active", player |-> p, uuid |-> Offline[s.players[p]], mapping |-> None] \in Action
    BY <1>1, <2>1, MigrationAssumption DEF Missing, Action
  <2>2. ASSUME NEW p \in Players(s), NEW m \in Mappings(s), playerReason(s, p) = "active",
               s.mappings[m].name = s.players[p]
        PROVE  [state |-> "active", player |-> p, uuid |-> s.mappings[m].uuid, mapping |-> m] \in Action
    BY <1>1, <1>2, <1>3, <2>2 DEF Action
  <2> QED
    BY <2>1, <2>2 DEF ActiveActions
<1>5. BlockedActions(s) \subseteq Action
  BY <1>1 DEF BlockedActions, Action
<1>6. ReservedActions(s) \subseteq Action
  BY <1>2 DEF ReservedActions, Action, MappingRow
<1> QED
  BY <1>4, <1>5, <1>6 DEF Build

\* A row begins as its action says.
LEMMA RowTyped ==
  ASSUME NEW a \in Action
  PROVE  Row(a) \in Identity /\ Row(a).state = a.state /\ Row(a).player = a.player
         /\ Row(a).uuid = a.uuid /\ Row(a).mapping = a.mapping /\ Row(a).into = None
BY DEF Action, Identity, Row

-----------------------------------------------------------------------------
(* Types.                                                                  *)

Ats == Objects \cup {"checked", "source", "gate"}
Cmds == Ddl \cup {"apply", "activate", "activateV2", "deactivateV2", "resolve", "rollback",
                  "activateResolved"}

\* A command goes on.
LEMMA GoTyped ==
  ASSUME TypeOK, NEW o \in Operator, NEW cmd \in Cmds, NEW at \in Ats,
         NEW plan \in Plan \cup Decision \cup {None}, Go(o, cmd, at, plan)
  PROVE  run' \in [Operator -> Command \cup {Idle}]
<1>1. [cmd |-> cmd, at |-> at, plan |-> plan] \in Command
  BY DEF Command, Cmds, Ats
<1> QED
  BY <1>1 DEF Go, TypeOK

\* A command ends.
LEMMA EndTyped ==
  ASSUME TypeOK, NEW o \in Operator, End(o)
  PROVE  run' \in [Operator -> Command \cup {Idle}]
BY DEF End, TypeOK

\* A running command has its fields.
LEMMA RunningTyped ==
  ASSUME TypeOK, NEW o \in Operator
  PROVE  /\ run[o].cmd \in Cmds \cup {"none"} /\ run[o].at \in Ats \cup {"done"}
         /\ run[o].plan \in Plan \cup Decision \cup {None}
BY DEF TypeOK, Command, Idle, Cmds, Ats

\* The steps of the schema commands keep the types.
LEMMA SchemaTyped ==
  ASSUME TypeOK, KnownOK, NEW o \in Operator, Schema(o)
  PROVE  TypeOK'
<1> USE DEF Cmds, Ats, Objects, Tables, Hooks, ResolutionSchema
<1>1. ASSUME NEW cmd \in Ddl, NEW at \in Objects, BeginDdl(o, cmd, at) PROVE TypeOK'
  BY <1>1, GoTyped DEF BeginDdl, TypeOK
<1>2. CASE Upgrade(o) \/ UpgradeResolutionSchema(o) \/ DowngradeResolutionSchema(o)
  BY <1>1, <1>2, DdlIs DEF Upgrade, UpgradeResolutionSchema, DowngradeResolutionSchema
<1>3. CASE Statement(o)
  <2>1. run[o].cmd \in Ddl /\ run[o].at \in DOMAIN Following[run[o].cmd]
    BY <1>3 DEF Statement, InDdl, KnownOK, KnownOf
  <2>2. objects' \subseteq Objects
    BY <1>3, <2>1, StatementsTyped DEF Statement, TypeOK
  <2>3. run' \in [Operator -> Command \cup {Idle}]
    <3>1. CASE Following[run[o].cmd][run[o].at] = "done"
      BY <1>3, <3>1, EndTyped DEF Statement
    <3>2. CASE Following[run[o].cmd][run[o].at] # "done"
      BY <1>3, <2>1, <3>2, FollowingStays, StatementsTyped, GoTyped DEF Statement
    <3> QED
      BY <3>1, <3>2
  <2> QED
    BY <1>3, <2>2, <2>3 DEF Statement, TypeOK
<1>4. ASSUME NEW cmd, VerifySchema(o, cmd) PROVE TypeOK'
  BY <1>4, GoTyped DEF VerifySchema, TypeOK
<1>5. CASE ActivateResolutionSchema(o) \/ DeactivateResolutionSchema(o)
  <2>1. state \in StateRow /\ state' \in StateRow
    BY <1>5 DEF ActivateResolutionSchema, DeactivateResolutionSchema, Version, TypeOK, StateRow
  <2> QED
    BY <1>5, <2>1, EndTyped DEF ActivateResolutionSchema, DeactivateResolutionSchema, TypeOK
<1> QED
  BY <1>2, <1>3, <1>4, <1>5 DEF Schema

\* The steps of the migration commands keep the types.
LEMMA MigrateTyped ==
  ASSUME TypeOK, KnownOK, RowsOK, NEW o \in Operator, Migrate(o)
  PROVE  TypeOK'
<1> USE DEF Cmds, Ats
<1>1. ASSUME NEW id \in MigrationId, DryRun(o, id) PROVE TypeOK'
  BY <1>1 DEF DryRun, TypeOK, Plan
<1>2. ASSUME NEW plan \in plans, VerifyBeforeActivate(o, plan) PROVE TypeOK'
  BY <1>2, GoTyped DEF VerifyBeforeActivate, TypeOK
<1>3. ASSUME NEW plan \in plans, NEW cmd \in {"apply", "activate"}, requireSnapshot(o, cmd, plan)
      PROVE  TypeOK'
  BY <1>3, GoTyped DEF requireSnapshot, TypeOK
<1>4. ASSUME NEW plan \in plans, Deactivate(o, plan) PROVE TypeOK'
  BY <1>4 DEF Deactivate, Active, TypeOK, StateRow
<1>5. CASE LockGate(o)
  <2>1. run[o].cmd \in {"apply", "activate"} /\ run[o].plan \in Plan
    BY <1>5 DEF LockGate, KnownOK, KnownOf, TypeOK
  <2> QED
    BY <1>5, <2>1, GoTyped DEF LockGate, TypeOK
<1>6. CASE Apply(o)
  <2>1. run[o].plan \in Plan
    BY <1>6 DEF Apply, KnownOK, KnownOf, TypeOK
  <2>2. CASE state = None
    <3>1. identities' = [a \in Build(run[o].plan.source) |-> Row(a)]
          /\ state' = [version |-> 1, phase |-> "staged", id |-> run[o].plan.id,
                       watermark |-> Watermark(run[o].plan.source)]
      BY <1>6, <2>2 DEF Apply
    <3>2. run[o].plan.source \in Site /\ run[o].plan.id \in MigrationId
      BY <2>1 DEF Plan
    <3>3. state' \in StateRow
      BY <3>1, <3>2, WatermarkTyped DEF StateRow
    <3>4. Build(run[o].plan.source) \subseteq Action
      BY <3>2, BuildTyped
    <3>5. DOMAIN identities' \subseteq Action /\ identities' \in [DOMAIN identities' -> Identity]
      BY <3>1, <3>4, RowTyped
    <3>6. references = {}
      BY <2>2 DEF RowsOK
    <3> QED
      BY <1>6, <3>3, <3>5, <3>6, EndTyped DEF Apply, TypeOK
  <2>3. CASE state # None
    BY <1>6, <2>3, EndTyped DEF Apply, TypeOK
  <2> QED
    BY <2>2, <2>3
<1>7. CASE Activate(o)
  <2>1. state \in StateRow /\ state' \in StateRow
    BY <1>7 DEF Activate, HoldsGate, KnownOK, KnownOf, TypeOK, StateRow
  <2> QED
    BY <1>7, <2>1, EndTyped DEF Activate, TypeOK
<1> QED
  BY <1>1, <1>2, <1>3, <1>4, <1>5, <1>6, <1>7 DEF Migrate

\* What a resolution plan reads, with the reviewed players' UUID.
LEMMA DecisionTyped ==
  ASSUME TypeOK, NEW p \in Players(site), NEW blocked \in DOMAIN identities,
         NEW reserved \in DOMAIN identities, NEW x, x = identities[reserved].uuid,
         NEW ms, ms = EquivalentMappings(site.players[p]),
         ms # {}, \A m \in ms : site.mappings[m].uuid = x
  PROVE  [player |-> p, name |-> site.players[p], blocked |-> blocked, reserved |-> reserved,
          uuid |-> x, mappings |-> ms] \in Decision
<1>1. p \in Pid /\ site.players[p] \in Name
  BY DEF Players, TypeOK, Site
<1>2. ms \subseteq Mappings(site) /\ Mappings(site) \subseteq Mapping
  BY DEF EquivalentMappings, Mappings
<1>3. PICK m \in ms : site.mappings[m] \in MappingRow
  BY <1>2 DEF Mappings, TypeOK, Site
<1>4. identities[reserved] \in Identity
  BY DEF TypeOK
<1>5. x \in Uuid
  BY <1>3, <1>4, MigrationAssumption DEF MappingRow, Identity
<1> QED
  BY <1>1, <1>2, <1>5 DEF Decision, TypeOK

\* What Resolve writes, and nothing else.
LEMMA Resolves ==
  ASSUME TypeOK, KnownOK, NEW o \in Operator, Resolve(o), NEW d, d = run[o].plan
  PROVE  /\ d \in Decision /\ d \in resolutions /\ d.blocked # d.reserved
         /\ {d.blocked, d.reserved} \subseteq DOMAIN identities
         /\ DOMAIN identities' = DOMAIN identities
         /\ identities[d.blocked].state = "blocked" /\ identities[d.blocked].player = d.player
         /\ identities[d.reserved].state = "reserved"
         /\ identities'[d.blocked] = [state |-> "resolved", player |-> None, uuid |-> None,
                                      mapping |-> None, into |-> d.reserved]
         /\ identities'[d.reserved] = [state |-> "active", player |-> d.player,
              uuid |-> identities[d.reserved].uuid, mapping |-> identities[d.reserved].mapping,
              into |-> identities[d.reserved].into]
         /\ \A a \in DOMAIN identities \ {d.blocked, d.reserved} : identities'[a] = identities[a]
         /\ UNCHANGED <<site, edits, plans, resolutions, objects, state, references>>
         /\ {d.blocked, d.reserved} \cap references = {}
<1>1. d \in resolutions /\ d \in Decision
  BY DEF Resolve, KnownOK, KnownOf, TypeOK
<1>2. /\ {d.blocked, d.reserved} \subseteq DOMAIN identities
      /\ identities[d.blocked].state = "blocked" /\ identities[d.blocked].player = d.player
      /\ identities[d.reserved].state = "reserved"
  BY DEF Resolve, readDecision
<1>3. d.blocked # d.reserved
  BY <1>2
<1>4. identities[d.reserved] \in Identity
  BY <1>2 DEF TypeOK
<1>5. identities' = [identities EXCEPT
               ![d.blocked] = [state |-> "resolved", player |-> None, uuid |-> None,
                               mapping |-> None, into |-> d.reserved],
               ![d.reserved].state = "active", ![d.reserved].player = d.player]
  BY DEF Resolve
<1>6. DOMAIN identities' = DOMAIN identities
      /\ identities'[d.blocked] = [state |-> "resolved", player |-> None, uuid |-> None,
                                   mapping |-> None, into |-> d.reserved]
      /\ \A a \in DOMAIN identities \ {d.blocked, d.reserved} : identities'[a] = identities[a]
  BY <1>2, <1>3, <1>5 DEF TypeOK
<1>7. identities'[d.reserved] = [state |-> "active", player |-> d.player,
        uuid |-> identities[d.reserved].uuid, mapping |-> identities[d.reserved].mapping,
        into |-> identities[d.reserved].into]
  BY <1>2, <1>3, <1>4, <1>5 DEF Identity, TypeOK
<1> QED
  BY <1>1, <1>2, <1>3, <1>6, <1>7 DEF Resolve, NoLiveReferences

\* What Rollback writes, and nothing else.
LEMMA RollsBack ==
  ASSUME TypeOK, KnownOK, NEW o \in Operator, Rollback(o), NEW d, d = run[o].plan
  PROVE  /\ d \in Decision /\ d \in resolutions /\ d.blocked # d.reserved
         /\ {d.blocked, d.reserved} \subseteq DOMAIN identities
         /\ DOMAIN identities' = DOMAIN identities
         /\ identities[d.blocked].state = "resolved" /\ identities[d.blocked].into = d.reserved
         /\ identities[d.reserved].state = "active" /\ identities[d.reserved].player = d.player
         /\ identities'[d.blocked] = [state |-> "blocked", player |-> d.player, uuid |-> None,
                                      mapping |-> None, into |-> None]
         /\ identities'[d.reserved] = [state |-> "reserved", player |-> None,
              uuid |-> identities[d.reserved].uuid, mapping |-> identities[d.reserved].mapping,
              into |-> identities[d.reserved].into]
         /\ \A a \in DOMAIN identities \ {d.blocked, d.reserved} : identities'[a] = identities[a]
         /\ UNCHANGED <<site, edits, plans, resolutions, objects, state, references>>
         /\ {d.blocked, d.reserved} \cap references = {}
<1>1. d \in resolutions /\ d \in Decision
  BY DEF Rollback, KnownOK, KnownOf, TypeOK
<1>2. /\ {d.blocked, d.reserved} \subseteq DOMAIN identities
      /\ identities[d.blocked].state = "resolved" /\ identities[d.blocked].into = d.reserved
      /\ identities[d.reserved].state = "active" /\ identities[d.reserved].player = d.player
  BY DEF Rollback, Resolved
<1>3. d.blocked # d.reserved
  BY <1>2
<1>4. identities[d.reserved] \in Identity
  BY <1>2 DEF TypeOK
<1>5. identities' = [identities EXCEPT
        ![d.blocked] = [state |-> "blocked", player |-> d.player, uuid |-> None,
                        mapping |-> None, into |-> None],
        ![d.reserved].state = "reserved", ![d.reserved].player = None]
  BY DEF Rollback, Restored
<1>6. DOMAIN identities' = DOMAIN identities
      /\ identities'[d.blocked] = [state |-> "blocked", player |-> d.player, uuid |-> None,
                                   mapping |-> None, into |-> None]
      /\ \A a \in DOMAIN identities \ {d.blocked, d.reserved} : identities'[a] = identities[a]
  BY <1>2, <1>3, <1>5 DEF TypeOK
<1>7. identities'[d.reserved] = [state |-> "reserved", player |-> None,
        uuid |-> identities[d.reserved].uuid, mapping |-> identities[d.reserved].mapping,
        into |-> identities[d.reserved].into]
  BY <1>2, <1>3, <1>4, <1>5 DEF Identity, TypeOK
<1> QED
  BY <1>1, <1>2, <1>3, <1>6, <1>7 DEF Rollback, NoLiveReferences

\* The steps of the resolution commands keep the types.
LEMMA ResolveTyped ==
  ASSUME TypeOK, KnownOK, NEW o \in Operator, ResolvePairs(o)
  PROVE  TypeOK'
<1> USE DEF Cmds, Ats
<1>1. CASE ResolutionDryRun(o)
  <2>1. PICK blocked \in DOMAIN identities, reserved \in DOMAIN identities, p \in Players(site) :
          LET n == site.players[p]
              d == [player |-> p, name |-> n, blocked |-> blocked, reserved |-> reserved,
                    uuid |-> identities[reserved].uuid, mappings |-> EquivalentMappings(n)]
          IN  readDecision(identities, d) /\ resolutions' = resolutions \cup {d}
    BY <1>1 DEF ResolutionDryRun
  <2>2. /\ EquivalentMappings(site.players[p]) # {}
        /\ \A m \in EquivalentMappings(site.players[p]) : site.mappings[m].uuid = identities[reserved].uuid
    BY <2>1 DEF readDecision
  <2>3. resolutions' \subseteq Decision
    BY <2>1, <2>2, DecisionTyped DEF TypeOK
  <2> QED
    BY <1>1, <2>3 DEF ResolutionDryRun, TypeOK
<1>2. ASSUME NEW d \in resolutions, NEW cmd \in {"resolve", "rollback"}, requireStaged(o, cmd, d)
      PROVE  TypeOK'
  BY <1>2, GoTyped DEF requireStaged, TypeOK
<1>3. ASSUME NEW d \in resolutions, VerifyBeforeResolved(o, d) PROVE TypeOK'
  BY <1>3, GoTyped DEF VerifyBeforeResolved, TypeOK
<1>4. CASE Resolve(o)
  <2> DEFINE d == run[o].plan
  <2>1. d \in Decision /\ {d.blocked, d.reserved} \subseteq DOMAIN identities
        /\ DOMAIN identities' = DOMAIN identities
        /\ UNCHANGED <<site, edits, plans, resolutions, objects, state, references>>
        /\ identities'[d.blocked] = [state |-> "resolved", player |-> None,
                                      uuid |-> None, mapping |-> None, into |-> d.reserved]
        /\ identities'[d.reserved] = [state |-> "active", player |-> d.player,
              uuid |-> identities[d.reserved].uuid, mapping |-> identities[d.reserved].mapping,
              into |-> identities[d.reserved].into]
        /\ \A a \in DOMAIN identities \ {d.blocked, d.reserved} : identities'[a] = identities[a]
    BY <1>4, Resolves
  <2> HIDE DEF d
  <2>2. ASSUME NEW a \in DOMAIN identities PROVE identities'[a] \in Identity
    <3>1. identities[a] \in Identity /\ identities[d.reserved] \in Identity /\ d.reserved \in Action
          /\ d.player \in Pid
      BY <2>1 DEF TypeOK, Decision
    <3>2. [state |-> "resolved", player |-> None, uuid |-> None, mapping |-> None, into |-> d.reserved] \in Identity
      BY <3>1 DEF Identity
    <3>3. [state |-> "active", player |-> d.player, uuid |-> identities[d.reserved].uuid,
            mapping |-> identities[d.reserved].mapping, into |-> identities[d.reserved].into] \in Identity
      BY <3>1 DEF Identity
    <3>4. a \in {d.blocked, d.reserved} \/ identities'[a] = identities[a]
      BY <2>1
    <3>5. identities'[d.blocked] \in Identity /\ identities'[d.reserved] \in Identity
      BY <2>1, <3>2, <3>3
    <3> QED
      BY <3>1, <3>4, <3>5
  <2>3. identities' \in [DOMAIN identities -> Identity]
    BY <1>4, <2>1, <2>2 DEF Resolve, TypeOK
  <2> QED
    BY <1>4, <2>1, <2>3, EndTyped DEF Resolve, TypeOK
<1>5. CASE Rollback(o)
  <2> DEFINE d == run[o].plan
  <2>1. d \in Decision /\ {d.blocked, d.reserved} \subseteq DOMAIN identities
        /\ DOMAIN identities' = DOMAIN identities
        /\ UNCHANGED <<site, edits, plans, resolutions, objects, state, references>>
        /\ identities'[d.blocked] = [state |-> "blocked", player |-> d.player,
                                      uuid |-> None, mapping |-> None, into |-> None]
        /\ identities'[d.reserved] = [state |-> "reserved", player |-> None,
              uuid |-> identities[d.reserved].uuid, mapping |-> identities[d.reserved].mapping,
              into |-> identities[d.reserved].into]
        /\ \A a \in DOMAIN identities \ {d.blocked, d.reserved} : identities'[a] = identities[a]
    BY <1>5, RollsBack
  <2> HIDE DEF d
  <2>2. ASSUME NEW a \in DOMAIN identities PROVE identities'[a] \in Identity
    <3>1. identities[a] \in Identity /\ identities[d.reserved] \in Identity /\ d.player \in Pid
      BY <2>1 DEF TypeOK, Decision
    <3>2. [state |-> "blocked", player |-> d.player, uuid |-> None, mapping |-> None, into |-> None] \in Identity
      BY <3>1 DEF Identity
    <3>3. [state |-> "reserved", player |-> None, uuid |-> identities[d.reserved].uuid,
            mapping |-> identities[d.reserved].mapping, into |-> identities[d.reserved].into] \in Identity
      BY <3>1 DEF Identity
    <3>4. a \in {d.blocked, d.reserved} \/ identities'[a] = identities[a]
      BY <2>1
    <3>5. identities'[d.blocked] \in Identity /\ identities'[d.reserved] \in Identity
      BY <2>1, <3>2, <3>3
    <3> QED
      BY <3>1, <3>4, <3>5
  <2>3. identities' \in [DOMAIN identities -> Identity]
    BY <1>5, <2>1, <2>2 DEF Rollback, Restored, TypeOK
  <2> QED
    BY <1>5, <2>1, <2>3, EndTyped DEF Rollback, TypeOK
<1>6. CASE ActivateResolved(o)
  <2>1. state' \in StateRow
    BY <1>6 DEF ActivateResolved, Staged, TypeOK, StateRow
  <2> QED
    BY <1>6, <2>1, EndTyped DEF ActivateResolved, TypeOK
<1>7. CASE DeactivateResolved(o)
  BY <1>7 DEF DeactivateResolved, Active, TypeOK, StateRow
<1> QED
  BY <1>1, <1>2, <1>3, <1>4, <1>5, <1>6, <1>7 DEF ResolvePairs

\* An edit of the site, a new player's identity, a token and its end keep the types.
LEMMA OutsideTyped == ASSUME TypeOK, Outside PROVE TypeOK'
<1>1. ASSUME NEW p \in Pid, NEW n \in Edits.players[p], EditPlayer(p, n) PROVE TypeOK'
  <2>1. n \in Name \cup {None}
    BY MigrationAssumption
  <2>2. [site.players EXCEPT ![p] = n] \in [Pid -> Name \cup {None}]
    BY <2>1 DEF TypeOK, Site
  <2>3. site' \in Site
    BY <1>1, <2>2 DEF EditPlayer, TypeOK, Site
  <2>4. edits' \in 0 .. MaxEdits
    BY <1>1, MigrationAssumption DEF EditPlayer, TypeOK
  <2> QED
    BY <1>1, <2>3, <2>4 DEF EditPlayer, TypeOK
<1>2. ASSUME NEW m \in Mapping, NEW row \in Edits.mappings[m], EditMapping(m, row) PROVE TypeOK'
  <2>1. row \in MappingRow \cup {None}
    BY MigrationAssumption
  <2>2. [site.mappings EXCEPT ![m] = row] \in [Mapping -> MappingRow \cup {None}]
    BY <2>1 DEF TypeOK, Site
  <2>3. site' \in Site
    BY <1>2, <2>2 DEF EditMapping, TypeOK, Site
  <2>4. edits' \in 0 .. MaxEdits
    BY <1>2, MigrationAssumption DEF EditMapping, TypeOK
  <2> QED
    BY <1>2, <2>3, <2>4 DEF EditMapping, TypeOK
<1>3. ASSUME NEW p \in Pid, NEW x \in Draws, EnsureIdentity(p, x) PROVE TypeOK'
  <2>1. PICK new \in Action :
          identities' = [a \in DOMAIN identities \cup {new} |->
                           IF a = new THEN Row(new) ELSE identities[a]]
    BY <1>3, MigrationAssumption DEF EnsureIdentity, Action
  <2>2. identities' \in [DOMAIN identities' -> Identity] /\ DOMAIN identities' \subseteq Action
        /\ DOMAIN identities \subseteq DOMAIN identities'
    BY <2>1, RowTyped DEF TypeOK
  <2> QED
    BY <1>3, <2>2 DEF EnsureIdentity, TypeOK
<1>4. ASSUME NEW a \in DOMAIN identities, Refer(a) PROVE TypeOK'
  BY <1>4 DEF Refer, TypeOK
<1>5. ASSUME NEW a \in references, Release(a) PROVE TypeOK'
  BY <1>5 DEF Release, TypeOK
<1> QED
  BY <1>1, <1>2, <1>3, <1>4, <1>5 DEF Outside

\* The types hold at the start.
LEMMA InitTyped == Init => TypeOK
BY MigrationAssumption DEF Init, TypeOK

\* Every step keeps the types.
LEMMA NextTyped == ASSUME TypeOK, KnownOK, RowsOK, [Next]_vars PROVE TypeOK'
<1>1. ASSUME NEW o \in Operator, Stop(o) PROVE TypeOK'
  BY <1>1, EndTyped DEF Stop, TypeOK
<1>2. CASE UNCHANGED vars
  BY <1>2 DEF vars, TypeOK
<1> QED
  BY <1>1, <1>2, SchemaTyped, MigrateTyped, ResolveTyped, OutsideTyped DEF Next

-----------------------------------------------------------------------------
(* What commands know.                                                     *)

CommandStep(o) == Schema(o) \/ Migrate(o) \/ ResolvePairs(o) \/ Stop(o)

\* While one command changes the schema, no other takes a step.
LEMMA DdlAlone ==
  ASSUME TypeOK, KnownOK, NEW o \in Operator, NEW r \in Operator, r # o, InDdl(r), CommandStep(o)
  PROVE  FALSE
<1>1. run[o] = Idle /\ r \in Others(o)
  BY DEF KnownOK, KnownOf, Others
<1>2. run[o].cmd = "none" /\ run[o].at = "done" /\ run[r] # Idle /\ ~InDdl(o)
  BY <1>1, DdlIs DEF Idle, InDdl
<1>3. ~Ready(o)
  BY <1>1 DEF Ready
<1> QED
  BY <1>1, <1>2, <1>3, DdlIs DEF CommandStep, Schema, Migrate, ResolvePairs, HoldsGate, Upgrade,
       UpgradeResolutionSchema, DowngradeResolutionSchema, BeginDdl, Statement, VerifySchema,
       ActivateResolutionSchema, DeactivateResolutionSchema, DryRun, VerifyBeforeActivate,
       requireSnapshot, LockGate, Apply, Activate, Deactivate, ResolutionDryRun, requireStaged,
       Resolve, Rollback, VerifyBeforeResolved, ActivateResolved, DeactivateResolved, Stop

\* A command's step leaves the site and the other commands alone, adds to the plans on file
\* and keeps the hooks and the id of the state row; only a downgrade drops the schema of
\* version 2.
CommandKeeps(o) ==
  /\ \A r \in Operator : r # o => run'[r] = run[r]
  /\ site' = site /\ plans \subseteq plans' /\ resolutions \subseteq resolutions'
  /\ Hooks \subseteq objects => Hooks \subseteq objects'
  /\ ResolutionSchema \subseteq objects =>
       ResolutionSchema \subseteq objects' \/ run[o].cmd = "downgradeV2"
  /\ state # None => state' # None /\ state'.id = state.id

LEMMA CommandKeepsOthers ==
  ASSUME TypeOK, KnownOK, NEW o \in Operator, CommandStep(o)
  PROVE  CommandKeeps(o)
<1> USE DEF CommandKeeps, TypeOK
<1>1. CASE Statement(o)
  <2>1. run[o].cmd \in Ddl /\ run[o].at \in DOMAIN Following[run[o].cmd]
    BY <1>1 DEF Statement, InDdl, KnownOK, KnownOf
  <2>2. run[o].cmd = "downgradeV2" => run[o].at \in ResolutionSchema
    BY <2>1, FollowingIs
  <2>3. objects' \in {objects \cup {run[o].at}, objects \ {run[o].at}}
        /\ (objects' = objects \cup {run[o].at} \/ run[o].cmd = "downgradeV2")
        /\ UNCHANGED <<site, plans, resolutions, state>>
    BY <1>1 DEF Statement
  <2>4. Hooks \cap ResolutionSchema = {}
    BY DEF Hooks, ResolutionSchema
  <2> QED
    BY <1>1, <2>2, <2>3, <2>4 DEF Statement, End, Go
<1>2. CASE ActivateResolutionSchema(o) \/ DeactivateResolutionSchema(o) \/ ActivateResolved(o)
           \/ DeactivateResolved(o) \/ Activate(o) \/ (\E plan \in plans : Deactivate(o, plan))
  <2>1. state \in StateRow \cup {None}
    OBVIOUS
  <2>2. state # None => state' \in StateRow /\ state'.id = state.id
    BY <1>2, <2>1 DEF ActivateResolutionSchema, DeactivateResolutionSchema, ActivateResolved,
                      DeactivateResolved, Activate, Deactivate, StateRow
  <2> QED
    BY <1>2, <2>2, MigrationAssumption
    DEF ActivateResolutionSchema, DeactivateResolutionSchema, ActivateResolved, DeactivateResolved,
        Activate, Deactivate, End
<1>3. CASE Apply(o)
  BY <1>3 DEF Apply, End
<1>4. CASE Resolve(o) \/ Rollback(o)
  BY <1>4 DEF Resolve, Rollback, End
<1> QED
  BY <1>1, <1>2, <1>3, <1>4 DEF CommandStep, Schema, Migrate, ResolvePairs, Go, End, Upgrade,
       UpgradeResolutionSchema, DowngradeResolutionSchema, BeginDdl, VerifySchema, DryRun,
       VerifyBeforeActivate, requireSnapshot, LockGate, ResolutionDryRun, requireStaged,
       VerifyBeforeResolved, Stop

\* Another command still knows what it knew.
LEMMA OthersKnow ==
  ASSUME TypeOK, KnownOK, NEW o \in Operator, CommandStep(o), NEW r \in Operator, r # o
  PROVE  KnownOf(r)'
<1>1. CommandKeeps(o) /\ run'[r] = run[r]
  BY CommandKeepsOthers DEF CommandKeeps
<1>2. run[r].cmd \notin Ddl
  BY DdlAlone DEF InDdl
<1>3. run[r] # Idle => run[o].cmd # "downgradeV2"
  BY DdlIs DEF KnownOK, KnownOf, InDdl, Others
<1>4. run[r].cmd = "activateV2" => run[r] # Idle
  BY DEF Idle
<1>5. KnownOf(r)
  BY DEF KnownOK
<1>6. HoldsSite(r)' => HoldsSite(r)
  BY <1>1 DEF HoldsSite
<1> QED
  BY <1>1, <1>2, <1>3, <1>4, <1>5, <1>6, DdlIs DEF KnownOf, CommandKeeps, InDdl, HoldsSite

\* The command that takes a step knows what its next step relies on.
LEMMA OwnKnown ==
  ASSUME TypeOK, KnownOK, NEW o \in Operator, CommandStep(o)
  PROVE  KnownOf(o)'
<1>a. CommandKeeps(o)
  BY CommandKeepsOthers
<1>b. KnownOf(o)
  BY DEF KnownOK
<1>1. ASSUME run'[o] = Idle PROVE KnownOf(o)'
  BY <1>1, DdlIs DEF KnownOf, InDdl, HoldsSite, Idle
<1>2. ASSUME NEW cmd, NEW at, NEW plan, Go(o, cmd, at, plan)
      PROVE  run'[o].cmd = cmd /\ run'[o].at = at /\ run'[o].plan = plan
  BY <1>2 DEF Go, TypeOK
<1>3. CASE Upgrade(o) \/ UpgradeResolutionSchema(o) \/ DowngradeResolutionSchema(o)
  <2>0. PICK cmd \in Ddl : \E at \in DOMAIN Following[cmd] :
          BeginDdl(o, cmd, at) /\ (cmd = "downgradeV2" => ~Version(2))
    <3>1. CASE Upgrade(o)
      BY <3>1, DdlIs, FollowingIs DEF Upgrade
    <3>2. CASE UpgradeResolutionSchema(o)
      BY <3>2, DdlIs, FollowingIs DEF UpgradeResolutionSchema, ResolutionSchema
    <3>3. CASE DowngradeResolutionSchema(o)
      BY <3>3, DdlIs, FollowingIs DEF DowngradeResolutionSchema, ResolutionSchema, Version
    <3> QED
      BY <1>3, <3>1, <3>2, <3>3
  <2>1. PICK at \in DOMAIN Following[cmd] : BeginDdl(o, cmd, at) /\ (cmd = "downgradeV2" => ~Version(2))
    BY <2>0
  <2>2. run'[o].cmd = cmd /\ run'[o].at = at /\ UNCHANGED state
        /\ \A other \in Others(o) : run[other] = Idle
    BY <1>2, <2>1 DEF BeginDdl
  <2>3. at \in Objects
    BY StatementsTyped
  <2> QED
    BY <1>a, <2>1, <2>2, <2>3, DdlIs DEF KnownOf, InDdl, HoldsSite, Objects, Tables, Hooks, ResolutionSchema,
       CommandKeeps, Others, Version
<1>4. CASE Statement(o)
  <2>1. run[o].cmd \in Ddl /\ run[o].at \in DOMAIN Following[run[o].cmd] /\ UNCHANGED state
        /\ \A other \in Others(o) : run[other] = Idle
    BY <1>4, <1>b DEF Statement, InDdl, KnownOf
  <2>2. CASE Following[run[o].cmd][run[o].at] = "done"
    BY <1>1, <1>4, <2>2 DEF Statement, End, TypeOK
  <2>3. CASE Following[run[o].cmd][run[o].at] # "done"
    <3>1. run'[o].cmd = run[o].cmd /\ run'[o].at \in DOMAIN Following[run[o].cmd]
      BY <1>2, <1>4, <2>1, <2>3, FollowingStays DEF Statement
    <3>2. run'[o].at \in Objects
      BY <2>1, <3>1, StatementsTyped
    <3> QED
      BY <1>a, <1>b, <2>1, <3>1, <3>2, DdlIs DEF KnownOf, InDdl, HoldsSite, Objects, Tables, Hooks,
         ResolutionSchema, CommandKeeps, Others, Version
  <2> QED
    BY <2>2, <2>3
<1>5. ASSUME NEW cmd, VerifySchema(o, cmd) PROVE KnownOf(o)'
  BY <1>2, <1>5, DdlIs DEF VerifySchema, VerifyResolutionSchema, KnownOf, InDdl, HoldsSite
<1>6. CASE \E id \in MigrationId : DryRun(o, id)
  BY <1>1, <1>6 DEF DryRun, Ready
<1>7. ASSUME NEW plan \in plans, VerifyBeforeActivate(o, plan) PROVE KnownOf(o)'
  BY <1>2, <1>7, DdlIs DEF VerifyBeforeActivate, VerifyHooks, KnownOf, InDdl, HoldsSite
<1>8. ASSUME NEW plan \in plans, NEW cmd \in {"apply", "activate"}, requireSnapshot(o, cmd, plan)
      PROVE  KnownOf(o)'
  <2>1. run'[o].cmd = cmd /\ run'[o].at = "source" /\ run'[o].plan = plan
        /\ site' = plan.source /\ plan \in plans' /\ UNCHANGED objects
    BY <1>2, <1>8 DEF requireSnapshot
  <2>2. cmd = "activate" => Hooks \subseteq objects
    BY <1>8, <1>b DEF requireSnapshot, KnownOf
  <2> QED
    BY <2>1, <2>2, DdlIs DEF KnownOf, InDdl, HoldsSite
<1>9. ASSUME NEW plan \in plans, Deactivate(o, plan) PROVE KnownOf(o)'
  BY <1>1, <1>9 DEF Deactivate, Ready
<1>10. CASE LockGate(o)
  <2>1. run[o].cmd \in {"apply", "activate"} /\ run[o].at = "source"
    BY <1>10, <1>b DEF LockGate, KnownOf
  <2>2. run'[o].cmd = run[o].cmd /\ run'[o].at = "gate" /\ run'[o].plan = run[o].plan
        /\ UNCHANGED <<site, plans, objects, state>>
        /\ (run[o].cmd = "activate" => state # None /\ state.id = run[o].plan.id)
    BY <1>2, <1>10 DEF LockGate, StateOf
  <2> QED
    BY <1>b, <2>1, <2>2, DdlIs DEF KnownOf, InDdl, HoldsSite
<1>11. CASE \/ ActivateResolutionSchema(o) \/ DeactivateResolutionSchema(o) \/ Apply(o) \/ Activate(o)
            \/ Resolve(o) \/ Rollback(o) \/ ActivateResolved(o) \/ Stop(o)
  <2>1. End(o)
    BY <1>11 DEF ActivateResolutionSchema, DeactivateResolutionSchema, Apply, Activate, Resolve, Rollback,
                 ActivateResolved, Stop
  <2> QED
    BY <1>1, <2>1 DEF End, TypeOK
<1>12. CASE ResolutionDryRun(o) \/ DeactivateResolved(o)
  BY <1>1, <1>12 DEF ResolutionDryRun, DeactivateResolved, Ready
<1>13. ASSUME NEW d \in resolutions, NEW cmd \in {"resolve", "rollback"}, requireStaged(o, cmd, d)
       PROVE  KnownOf(o)'
  BY <1>2, <1>13, DdlIs DEF requireStaged, KnownOf, InDdl, HoldsSite
<1>14. ASSUME NEW d \in resolutions, VerifyBeforeResolved(o, d) PROVE KnownOf(o)'
  BY <1>2, <1>14, DdlIs DEF VerifyBeforeResolved, VerifyHooks, KnownOf, InDdl, HoldsSite
<1> QED
  BY <1>3, <1>4, <1>5, <1>6, <1>7, <1>8, <1>9, <1>10, <1>11, <1>12, <1>13, <1>14
  DEF CommandStep, Schema, Migrate, ResolvePairs

\* Outside the commands the site changes only while no command has locked it.
OutsideKeeps ==
  /\ UNCHANGED <<plans, resolutions, objects, state, run>>
  /\ site' = site \/ SiteFree

LEMMA OutsideKeepsThem == ASSUME Outside PROVE OutsideKeeps
BY DEF Outside, EditPlayer, EditMapping, EnsureIdentity, Refer, Release, OutsideKeeps

\* Every step keeps what commands know.
LEMMA NextKnown == ASSUME TypeOK, KnownOK, [Next]_vars PROVE KnownOK'
<1>1. ASSUME NEW o \in Operator, CommandStep(o) PROVE KnownOK'
  BY <1>1, OthersKnow, OwnKnown DEF KnownOK
<1>2. CASE Outside
  <2>1. OutsideKeeps
    BY <1>2, OutsideKeepsThem
  <2>2. ASSUME NEW o \in Operator PROVE HoldsSite(o)' => HoldsSite(o) /\ site' = site
    BY <2>1 DEF OutsideKeeps, SiteFree, HoldsSite
  <2>3. ASSUME NEW o \in Operator PROVE KnownOf(o)'
    BY <2>1, <2>2 DEF OutsideKeeps, KnownOK, KnownOf, InDdl, HoldsSite, Version, Others
  <2> QED
    BY <2>3 DEF KnownOK
<1>3. CASE UNCHANGED vars
  BY <1>3 DEF vars, KnownOK, KnownOf, InDdl, HoldsSite, Version
<1> QED
  BY <1>1, <1>2, <1>3 DEF Next, CommandStep

-----------------------------------------------------------------------------
(* The gate.                                                               *)

\* Two commands open the gate.
LEMMA Opens ==
  ASSUME TypeOK, NEW o \in Operator, CommandStep(o), ~Active, Active'
  PROVE  Activate(o) \/ ActivateResolved(o)
<1>1. CASE ActivateResolutionSchema(o) \/ DeactivateResolutionSchema(o)
  BY <1>1 DEF ActivateResolutionSchema, DeactivateResolutionSchema, Active, TypeOK, StateRow, Version
<1>2. CASE Apply(o)
  BY <1>2 DEF Apply, Active
<1> QED
  BY <1>1, <1>2 DEF CommandStep, Schema, Migrate, ResolvePairs, Active, Upgrade,
       UpgradeResolutionSchema, DowngradeResolutionSchema, BeginDdl, Statement, VerifySchema,
       DryRun, VerifyBeforeActivate, requireSnapshot, LockGate, Deactivate, ResolutionDryRun,
       requireStaged, Resolve, Rollback, VerifyBeforeResolved, DeactivateResolved, Stop
\* A command that opens the gate has seen the hooks, one that sets version 2 its schema.
LEMMA CommandGuards ==
  ASSUME TypeOK, KnownOK, GuardedGate, NEW o \in Operator, CommandStep(o)
  PROVE  GuardedGate'
<1>1. CommandKeeps(o)
  BY CommandKeepsOthers
<1>2. KnownOf(o)
  BY DEF KnownOK
<1>3. ASSUME Active', ~Active PROVE Hooks \subseteq objects
  <2>1. Activate(o) \/ ActivateResolved(o)
    BY <1>3, Opens
  <2> QED
    BY <1>2, <2>1 DEF Activate, ActivateResolved, KnownOf, HoldsGate
<1>4. ASSUME Version(2)', ~Version(2) PROVE ResolutionSchema \subseteq objects /\ run[o].cmd = "activateV2"
  <2>1. ActivateResolutionSchema(o)
    <3>1. CASE DeactivateResolutionSchema(o) \/ Activate(o) \/ ActivateResolved(o) \/ DeactivateResolved(o)
               \/ (\E plan \in plans : Deactivate(o, plan))
      BY <1>4, <3>1 DEF DeactivateResolutionSchema, Activate, ActivateResolved, DeactivateResolved, Deactivate,
                        Active, Staged, Version, TypeOK, StateRow, KnownOK, KnownOf, HoldsGate
    <3>2. CASE Apply(o)
      BY <1>4, <3>2 DEF Apply, Version
    <3> QED
      BY <1>4, <3>1, <3>2 DEF CommandStep, Schema, Migrate, ResolvePairs, Version, Upgrade,
           UpgradeResolutionSchema, DowngradeResolutionSchema, BeginDdl, Statement, VerifySchema,
           DryRun, VerifyBeforeActivate, requireSnapshot, LockGate, ResolutionDryRun,
           requireStaged, Resolve, Rollback, VerifyBeforeResolved, Stop
  <2> QED
    BY <1>2, <2>1 DEF ActivateResolutionSchema, KnownOf
<1>5. Version(2) => run[o].cmd # "downgradeV2"
  BY <1>2 DEF KnownOf
<1> QED
  BY <1>1, <1>3, <1>4, <1>5 DEF CommandKeeps, GuardedGate

\* Every step keeps the gate guarded.
LEMMA NextGuarded == ASSUME TypeOK, KnownOK, GuardedGate, [Next]_vars PROVE GuardedGate'
<1>1. CASE Outside
  BY <1>1, OutsideKeepsThem DEF OutsideKeeps, GuardedGate, Active, Version
<1>2. CASE UNCHANGED vars
  BY <1>2 DEF vars, GuardedGate, Active, Version
<1> QED
  BY <1>1, <1>2, CommandGuards DEF Next, CommandStep

-----------------------------------------------------------------------------
(* The rows.                                                               *)

\* No action of a plan is a resolved one, and a blocked one names its player only.
LEMMA BuiltRows ==
  ASSUME NEW s \in Site, NEW a \in Build(s)
  PROVE  /\ a \in Action /\ Row(a).state # "resolved"
         /\ Row(a).state = "blocked" => a.state = "blocked" /\ a.uuid = None /\ a.mapping = None
                                        /\ Row(a).player = a.player
<1>1. a \in Action
  BY BuildTyped
<1>2. CASE a \in BlockedActions(s)
  BY <1>1, <1>2 DEF BlockedActions, Row, Action
<1>3. CASE a \in ActiveActions(s) \cup ReservedActions(s)
  <2>1. a.state \in {"active", "reserved"}
    BY <1>3 DEF ActiveActions, ReservedActions
  <2> QED
    BY <1>1, <2>1 DEF Row
<1> QED
  BY <1>2, <1>3 DEF Build

\* Apply inserts the rows of its plan where there were none, or finds them.
LEMMA Applies ==
  ASSUME TypeOK, KnownOK, RowsOK, NEW o \in Operator, Apply(o)
  PROVE  /\ UNCHANGED <<references, resolutions>> /\ state' # None
         /\ \/ identities' = identities
            \/ /\ references = {}
               /\ \A a \in DOMAIN identities' :
                    /\ identities'[a].state # "resolved"
                    /\ identities'[a].state = "blocked" =>
                         /\ a.state = "blocked" /\ a.uuid = None /\ a.mapping = None
                         /\ identities'[a].player = a.player
<1> DEFINE plan == run[o].plan
<1>1. plan \in Plan /\ plan.source \in Site
  BY DEF Apply, KnownOK, KnownOf, TypeOK, Plan
<1>2. CASE state # None
  BY <1>2 DEF Apply
<1>3. CASE state = None
  <2>1. state' = [version |-> 1, phase |-> "staged", id |-> plan.id, watermark |-> Watermark(plan.source)]
        /\ identities' = [a \in Build(plan.source) |-> Row(a)]
        /\ UNCHANGED <<references, resolutions>>
    BY <1>3 DEF Apply
  <2>2. state' \in StateRow
    BY <1>1, <2>1, WatermarkTyped DEF StateRow, Plan
  <2>3. \A a \in DOMAIN identities' :
          /\ identities'[a].state # "resolved"
          /\ identities'[a].state = "blocked" =>
               /\ a.state = "blocked" /\ a.uuid = None /\ a.mapping = None
               /\ identities'[a].player = a.player
    BY <1>1, <2>1, BuiltRows
  <2> QED
    BY <1>3, <2>1, <2>2, <2>3, MigrationAssumption DEF RowsOK
<1> QED
  BY <1>2, <1>3

\* The other commands leave the rows alone.
LEMMA KeepsRows ==
  ASSUME NEW o \in Operator, CommandStep(o), ~Apply(o), ~Resolve(o), ~Rollback(o)
  PROVE  UNCHANGED <<identities, references>> /\ (resolutions' = resolutions \/ ResolutionDryRun(o))
BY DEF CommandStep, Schema, Migrate, ResolvePairs, Upgrade, UpgradeResolutionSchema,
     DowngradeResolutionSchema, BeginDdl, Statement, VerifySchema, ActivateResolutionSchema,
     DeactivateResolutionSchema, DryRun, VerifyBeforeActivate, requireSnapshot, LockGate,
     Activate, Deactivate, requireStaged, VerifyBeforeResolved, ActivateResolved,
     DeactivateResolved, Stop, ResolutionDryRun

\* A plan reviews a row that was blocked for its player.
LEMMA Reviewed ==
  ASSUME TypeOK, RowsOK, NEW o \in Operator, ResolutionDryRun(o)
  PROVE  \A d \in resolutions' : d.blocked.player = d.player
<1>1. PICK blocked \in DOMAIN identities, reserved \in DOMAIN identities, p \in Players(site) :
        LET n == site.players[p]
            d == [player |-> p, name |-> n, blocked |-> blocked, reserved |-> reserved,
                  uuid |-> identities[reserved].uuid, mappings |-> EquivalentMappings(n)]
        IN  readDecision(identities, d) /\ resolutions' = resolutions \cup {d}
  BY DEF ResolutionDryRun
<1>2. identities[blocked].state = "blocked" /\ identities[blocked].player = p
  BY <1>1 DEF readDecision
<1>3. blocked.player = p
  BY <1>2 DEF RowsOK
<1> QED
  BY <1>1, <1>3 DEF RowsOK

\* A new player's identity joins the others.
LEMMA Ensures ==
  ASSUME TypeOK, NEW p \in Pid, NEW x \in Draws, EnsureIdentity(p, x)
  PROVE  /\ state # None /\ UNCHANGED <<state, references, resolutions>>
         /\ \E new \in Action \ DOMAIN identities :
              /\ DOMAIN identities' = DOMAIN identities \cup {new}
              /\ identities'[new].state = "active"
              /\ \A a \in DOMAIN identities : identities'[a] = identities[a]
<1> DEFINE new == [state |-> "active", player |-> p, uuid |-> x, mapping |-> None]
<1>1. new \in Action
  BY MigrationAssumption DEF Action
<1>2. /\ new \notin DOMAIN identities /\ UNCHANGED <<state, references, resolutions>> /\ Active
      /\ identities' = [a \in DOMAIN identities \cup {new} |->
                           IF a = new THEN Row(new) ELSE identities[a]]
  BY DEF EnsureIdentity, RuntimeOpen
<1>3. Row(new).state = "active"
  BY DEF Row
<1>4. DOMAIN identities' = DOMAIN identities \cup {new} /\ identities'[new].state = "active"
      /\ \A a \in DOMAIN identities : identities'[a] = identities[a]
  BY <1>2, <1>3
<1> QED
  BY <1>1, <1>2, <1>4 DEF Active

\* Every step keeps the rows as they began.
LEMMA NextRows == ASSUME TypeOK, KnownOK, RowsOK, [Next]_vars PROVE RowsOK'
<1> USE DEF RowsOK
<1>1. ASSUME NEW o \in Operator, CommandStep(o) PROVE RowsOK'
  <2>1. state' = None => state = None
    BY <1>1, CommandKeepsOthers DEF CommandKeeps
  <2>2. CASE Apply(o)
    <3>1. UNCHANGED <<references, resolutions>> /\ state' # None
      BY <2>2, Applies
    <3>2. CASE identities' = identities
      BY <3>1, <3>2
    <3>3. CASE identities' # identities
      BY <2>2, <3>1, <3>3, Applies
    <3> QED
      BY <3>2, <3>3
  <2>3. CASE Resolve(o)
    <3> DEFINE d == run[o].plan
    <3>0. identities'[d.blocked] = [state |-> "resolved", player |-> None, uuid |-> None,
                                         mapping |-> None, into |-> d.reserved]
            /\ identities'[d.reserved] = [state |-> "active", player |-> d.player,
                 uuid |-> identities[d.reserved].uuid, mapping |-> identities[d.reserved].mapping,
                 into |-> identities[d.reserved].into]
      BY <2>3, Resolves
    <3>1. /\ {d.blocked, d.reserved} \subseteq DOMAIN identities /\ DOMAIN identities' = DOMAIN identities
          /\ identities[d.blocked].state = "blocked"
          /\ identities'[d.blocked].state = "resolved" /\ identities'[d.reserved].state = "active"
          /\ \A a \in DOMAIN identities \ {d.blocked, d.reserved} : identities'[a] = identities[a]
          /\ UNCHANGED <<resolutions, references>>
      BY <2>3, <3>0, Resolves
    <3>2. \A a \in DOMAIN identities' : identities'[a].state \in {"blocked", "resolved"} =>
            a.state = "blocked" /\ a.uuid = None /\ a.mapping = None
      BY <3>1
    <3>3. \A a \in DOMAIN identities' : identities'[a].state = "blocked" => identities'[a].player = a.player
      BY <3>1
    <3> QED
      BY <2>1, <3>1, <3>2, <3>3
  <2>4. CASE Rollback(o)
    <3> DEFINE d == run[o].plan
    <3>0. identities'[d.blocked] = [state |-> "blocked", player |-> d.player, uuid |-> None,
                                         mapping |-> None, into |-> None]
            /\ identities'[d.reserved] = [state |-> "reserved", player |-> None,
                 uuid |-> identities[d.reserved].uuid, mapping |-> identities[d.reserved].mapping,
                 into |-> identities[d.reserved].into]
      BY <2>4, RollsBack
    <3>1. /\ {d.blocked, d.reserved} \subseteq DOMAIN identities /\ DOMAIN identities' = DOMAIN identities
          /\ identities[d.blocked].state = "resolved" /\ d \in resolutions
          /\ identities'[d.blocked].player = d.player /\ identities'[d.reserved].state = "reserved"
          /\ \A a \in DOMAIN identities \ {d.blocked, d.reserved} : identities'[a] = identities[a]
          /\ UNCHANGED <<resolutions, references>>
      BY <2>4, <3>0, RollsBack
    <3>2. \A a \in DOMAIN identities' : identities'[a].state \in {"blocked", "resolved"} =>
            a.state = "blocked" /\ a.uuid = None /\ a.mapping = None
      BY <3>1
    <3>3. \A a \in DOMAIN identities' : identities'[a].state = "blocked" => identities'[a].player = a.player
      BY <3>1
    <3> QED
      BY <2>1, <3>1, <3>2, <3>3
  <2>5. CASE ~Apply(o) /\ ~Resolve(o) /\ ~Rollback(o)
    <3>1. UNCHANGED <<identities, references>> /\ \A d \in resolutions' : d.blocked.player = d.player
      BY <1>1, <2>5, KeepsRows, Reviewed
    <3> QED
      BY <2>1, <3>1
  <2> QED
    BY <2>2, <2>3, <2>4, <2>5
<1>2. ASSUME NEW p \in Pid, NEW x \in Draws, EnsureIdentity(p, x) PROVE RowsOK'
  <2>0. PICK new \in Action \ DOMAIN identities :
          /\ DOMAIN identities' = DOMAIN identities \cup {new}
          /\ identities'[new].state = "active"
          /\ \A a \in DOMAIN identities : identities'[a] = identities[a]
    BY <1>2, Ensures
  <2>1. \A a \in DOMAIN identities' :
          \/ identities'[a].state = "active"
          \/ a \in DOMAIN identities /\ identities'[a] = identities[a]
    BY <2>0
  <2>2. state' # None /\ UNCHANGED resolutions
    BY <1>2 DEF EnsureIdentity, RuntimeOpen, Active
  <2> QED
    BY <2>1, <2>2
<1>3. ASSUME NEW a \in DOMAIN identities, Refer(a) PROVE RowsOK'
  BY <1>3 DEF Refer, RuntimeOpen, Active
<1>4. ASSUME NEW a \in references, Release(a) PROVE RowsOK'
  BY <1>4 DEF Release
<1>5. CASE \/ \E p \in Pid : \E n \in Edits.players[p] : EditPlayer(p, n)
           \/ \E m \in Mapping : \E row \in Edits.mappings[m] : EditMapping(m, row)
  BY <1>5 DEF EditPlayer, EditMapping
<1>6. CASE UNCHANGED vars
  BY <1>6 DEF vars
<1> QED
  BY <1>1, <1>2, <1>3, <1>4, <1>5, <1>6 DEF Next, CommandStep, Outside

\* Every step keeps the audit links: a rollback takes a row from under its own link only, as
\* two resolved rows of one player would have begun alike.
LEMMA NextAuditLinks ==
  ASSUME TypeOK, KnownOK, RowsOK, AuditLinks, [Next]_vars
  PROVE  AuditLinks'
<1> USE DEF AuditLinks
<1>1. ASSUME NEW o \in Operator, CommandStep(o) PROVE AuditLinks'
  <2>1. CASE Apply(o)
    BY <2>1, Applies
  <2>2. CASE Resolve(o)
    <3> DEFINE d == run[o].plan
    <3>0. identities'[d.blocked] = [state |-> "resolved", player |-> None, uuid |-> None,
                                         mapping |-> None, into |-> d.reserved]
            /\ identities'[d.reserved] = [state |-> "active", player |-> d.player,
                 uuid |-> identities[d.reserved].uuid, mapping |-> identities[d.reserved].mapping,
                 into |-> identities[d.reserved].into]
      BY <2>2, Resolves
    <3>1. /\ {d.blocked, d.reserved} \subseteq DOMAIN identities /\ DOMAIN identities' = DOMAIN identities
          /\ identities[d.blocked].state = "blocked" /\ identities[d.blocked].player = d.player
          /\ identities[d.reserved].state = "reserved"
          /\ identities'[d.blocked].into = d.reserved
          /\ identities'[d.reserved].state = "active" /\ identities'[d.reserved].player = d.player
          /\ \A a \in DOMAIN identities \ {d.blocked, d.reserved} : identities'[a] = identities[a]
      BY <2>2, <3>0, Resolves
    <3>2. d.blocked.player = d.player
      BY <3>1 DEF RowsOK
    <3>3. ASSUME NEW a \in DOMAIN identities', identities'[a].state = "resolved", a # d.blocked
          PROVE  LET into == identities'[a].into
                 IN  into \in DOMAIN identities' /\ identities'[into].state = "active"
                     /\ identities'[into].player = a.player
      <4>1. a \in DOMAIN identities \ {d.blocked, d.reserved} /\ identities'[a] = identities[a]
        BY <3>1, <3>3
      <4>2. identities[a].into \in DOMAIN identities \ {d.blocked, d.reserved}
        BY <3>1, <3>3, <4>1
      <4> QED
        BY <3>1, <3>3, <4>1, <4>2
    <3> QED
      BY <3>1, <3>2, <3>3
  <2>3. CASE Rollback(o)
    <3> DEFINE d == run[o].plan
    <3>0. identities'[d.blocked] = [state |-> "blocked", player |-> d.player, uuid |-> None,
                                         mapping |-> None, into |-> None]
            /\ identities'[d.reserved] = [state |-> "reserved", player |-> None,
                 uuid |-> identities[d.reserved].uuid, mapping |-> identities[d.reserved].mapping,
                 into |-> identities[d.reserved].into]
      BY <2>3, RollsBack
    <3>1. /\ {d.blocked, d.reserved} \subseteq DOMAIN identities /\ DOMAIN identities' = DOMAIN identities
          /\ identities[d.blocked].state = "resolved" /\ d \in resolutions
          /\ identities[d.reserved].state = "active" /\ identities[d.reserved].player = d.player
          /\ identities'[d.blocked].state = "blocked" /\ identities'[d.reserved].state = "reserved"
          /\ \A a \in DOMAIN identities \ {d.blocked, d.reserved} : identities'[a] = identities[a]
      BY <2>3, <3>0, RollsBack
    <3>2. d.blocked.player = d.player /\ d.blocked.state = "blocked" /\ d.blocked.uuid = None
          /\ d.blocked.mapping = None /\ d.blocked \in Action
      BY <3>1 DEF RowsOK, TypeOK
    <3>3. ASSUME NEW a \in DOMAIN identities', identities'[a].state = "resolved"
          PROVE  LET into == identities'[a].into
                 IN  into \in DOMAIN identities' /\ identities'[into].state = "active"
                     /\ identities'[into].player = a.player
      <4>1. a \in DOMAIN identities \ {d.blocked, d.reserved} /\ identities'[a] = identities[a]
        BY <3>1, <3>3
      <4>2. a.state = "blocked" /\ a.uuid = None /\ a.mapping = None /\ a \in Action
        BY <3>3, <4>1 DEF RowsOK, TypeOK
      <4>3. identities[a].into \in DOMAIN identities /\ identities[identities[a].into].state = "active"
            /\ identities[identities[a].into].player = a.player
        BY <3>3, <4>1
      <4>4. identities[a].into # d.reserved
        <5>1. SUFFICES ASSUME identities[a].into = d.reserved PROVE a = d.blocked
          BY <4>1
        <5>2. a.player = d.blocked.player
          BY <3>1, <3>2, <4>3, <5>1
        <5> QED
          BY <3>2, <4>2, <5>2 DEF Action
      <4> QED
        BY <3>1, <4>1, <4>3, <4>4
    <3> QED
      BY <3>3
  <2>4. CASE ~Apply(o) /\ ~Resolve(o) /\ ~Rollback(o)
    BY <1>1, <2>4, KeepsRows
  <2> QED
    BY <2>1, <2>2, <2>3, <2>4
<1>2. ASSUME NEW p \in Pid, NEW x \in Draws, EnsureIdentity(p, x) PROVE AuditLinks'
  <2>1. PICK new \in Action \ DOMAIN identities :
          /\ DOMAIN identities' = DOMAIN identities \cup {new}
          /\ identities'[new].state = "active"
          /\ \A a \in DOMAIN identities : identities'[a] = identities[a]
    BY <1>2, Ensures
  <2> QED
    BY <2>1
<1>3. CASE \/ \E p \in Pid : \E n \in Edits.players[p] : EditPlayer(p, n)
           \/ \E m \in Mapping : \E row \in Edits.mappings[m] : EditMapping(m, row)
           \/ \E a \in DOMAIN identities : Refer(a)
           \/ \E a \in references : Release(a)
           \/ UNCHANGED vars
  BY <1>3 DEF EditPlayer, EditMapping, Refer, Release, vars
<1> QED
  BY <1>1, <1>2, <1>3 DEF Next, CommandStep, Outside

\* Every step keeps what tokens refer to active.
LEMMA NextReferences ==
  ASSUME TypeOK, KnownOK, RowsOK, ReferencesActive, [Next]_vars
  PROVE  ReferencesActive'
<1> USE DEF ReferencesActive
<1>1. ASSUME NEW o \in Operator, CommandStep(o) PROVE ReferencesActive'
  <2>1. CASE Apply(o)
    BY <2>1, Applies
  <2>2. ASSUME NEW d, {d.blocked, d.reserved} \cap references = {}, UNCHANGED references,
               \A a \in DOMAIN identities \ {d.blocked, d.reserved} : identities'[a] = identities[a]
        PROVE  ReferencesActive'
    BY <2>2 DEF TypeOK
  <2>3. CASE Resolve(o)
    BY <2>2, <2>3, Resolves
  <2>4. CASE Rollback(o)
    BY <2>2, <2>4, RollsBack
  <2>5. CASE ~Apply(o) /\ ~Resolve(o) /\ ~Rollback(o)
    BY <1>1, <2>5, KeepsRows
  <2> QED
    BY <2>1, <2>3, <2>4, <2>5
<1>2. ASSUME NEW p \in Pid, NEW x \in Draws, EnsureIdentity(p, x) PROVE ReferencesActive'
  BY <1>2, Ensures DEF TypeOK
<1>3. CASE \/ \E p \in Pid : \E n \in Edits.players[p] : EditPlayer(p, n)
           \/ \E m \in Mapping : \E row \in Edits.mappings[m] : EditMapping(m, row)
           \/ \E a \in DOMAIN identities : Refer(a)
           \/ \E a \in references : Release(a)
           \/ UNCHANGED vars
  BY <1>3 DEF EditPlayer, EditMapping, Refer, Release, vars
<1> QED
  BY <1>1, <1>2, <1>3 DEF Next, CommandStep, Outside

-----------------------------------------------------------------------------
(* Theorems.                                                               *)

\* The invariant holds at the start.
LEMMA InitInv == Init => Inv
<1> SUFFICES ASSUME Init PROVE Inv
  OBVIOUS
<1>1. identities = <<>> /\ DOMAIN identities = {} /\ references = {} /\ resolutions = {} /\ state = None
  BY DEF Init
<1>2. \A o \in Operator : run[o] = Idle
  BY DEF Init
<1>3. KnownOK
  BY <1>2, DdlIs DEF KnownOK, KnownOf, InDdl, HoldsSite, Idle
<1>4. RowsOK /\ AuditLinks /\ ReferencesActive /\ GuardedGate
  BY <1>1 DEF RowsOK, AuditLinks, ReferencesActive, GuardedGate, Active, Version
<1> QED
  BY <1>3, <1>4, InitTyped DEF Inv

\* Every step keeps the invariant.
LEMMA NextInv == Inv /\ [Next]_vars => Inv'
BY NextTyped, NextKnown, NextRows, NextGuarded, NextAuditLinks, NextReferences DEF Inv

\* The invariant holds always.
THEOREM Invariance == Spec => []Inv
BY InitInv, NextInv, PTL DEF Spec

\* Every variable has its type, and identities exist only where their table does.
THEOREM Typed == Spec => []TypeOK
<1>1. Inv => TypeOK
  BY DEF Inv
<1> QED
  BY <1>1, Invariance, PTL

\* Whatever DDL statements were left out and whatever was checked outside the transaction, the
\* gate is open only over the security triggers, and version 2 has its schema.
THEOREM GateStaysGuarded == Spec => []GuardedGate
<1>1. Inv => GuardedGate
  BY DEF Inv
<1> QED
  BY <1>1, Invariance, PTL

\* Resolutions and rollbacks in any order leave every resolved row with the active identity of
\* its player as the target of its audit link.
THEOREM AuditLinksHold == Spec => []AuditLinks
<1>1. Inv => AuditLinks
  BY DEF Inv
<1> QED
  BY <1>1, Invariance, PTL

\* No command takes an identity from under a token or a join session.
THEOREM ReferencesStayActive == Spec => []ReferencesActive
<1>1. Inv => ReferencesActive
  BY DEF Inv
<1> QED
  BY <1>1, Invariance, PTL

\* A step that opens the gate finds the reviewed rows: those of a plan whose snapshot the site
\* still is, or a reviewed pair.
LEMMA OpensReviewedStep ==
  ASSUME Inv, [Next]_vars, ~Active, Active'
  PROVE  \/ \E plan \in plans : plan.id = state.id /\ site = plan.source /\ AsPlanned(plan)
         \/ \E d \in resolutions : Resolved(d)
<1>1. PICK o \in Operator : CommandStep(o)
  BY OutsideKeepsThem DEF Next, CommandStep, OutsideKeeps, Active, vars
<1>2. KnownOf(o)
  BY DEF Inv, KnownOK
<1>3. Activate(o) \/ ActivateResolved(o)
  BY <1>1, Opens DEF Inv
<1>4. CASE Activate(o)
  <2>1. run[o].plan \in plans /\ site = run[o].plan.source /\ state.id = run[o].plan.id
    BY <1>2, <1>4 DEF Activate, KnownOf, HoldsSite, HoldsGate
  <2> QED
    BY <1>4, <2>1 DEF Activate
<1>5. CASE ActivateResolved(o)
  BY <1>2, <1>5 DEF ActivateResolved, KnownOf
<1> QED
  BY <1>3, <1>4, <1>5

\* Whatever the site, the runtime and other commands do between the steps of a command, the
\* gate opens over reviewed rows only.
THEOREM OpensReviewed == Spec => OpensOnReviewed
<1>1. ASSUME Inv, [Next]_vars
      PROVE  [~Active /\ Active' =>
                \/ \E plan \in plans : plan.id = state.id /\ site = plan.source /\ AsPlanned(plan)
                \/ \E d \in resolutions : Resolved(d)]_vars
  BY <1>1, OpensReviewedStep
<1> QED
  BY <1>1, Invariance, PTL DEF Spec, OpensOnReviewed

-----------------------------------------------------------------------------
(* PlanKeepsUuids: what Build decides, on every site.                      *)

\* A nonempty set of legacy rows has a first one.
LEMMA FirstRow ==
  ASSUME NEW S, S \subseteq Mapping, S # {}
  PROVE  \E k \in S : \A j \in S : k <= j
<1> DEFINE R == {ss \in Nat \X Nat : ss[1] < ss[2]}
<1>1. IsWellFoundedOn(R, Nat)
  BY NatLessThanWellFounded DEF OpToRel
<1>2. S \subseteq Nat
  BY MigrationAssumption
<1>3. \A j, k \in S : <<j, k>> \in R <=> j < k
  BY <1>2
<1> HIDE DEF R
<1>4. PICK k \in S : \A j \in S : <<j, k>> \notin R
  BY <1>1, <1>2, WFMin
<1>5. \A j \in S : k \in Nat /\ j \in Nat /\ ~(j < k)
  BY <1>2, <1>3, <1>4
<1> QED
  BY <1>5

\* A player who keeps a legacy UUID has its name alone, one row of that name, and that row has
\* its UUID alone.
Kept(s, p, m) ==
  /\ p \in Players(s) /\ m \in Mappings(s)
  /\ NamedPlayers(s, s.players[p]) = {p} /\ NamedMappings(s, s.players[p]) = {m}
  /\ s.mappings[m].uuid \in Uuid /\ Holders(s, s.mappings[m].uuid) = {m}

LEMMA ReasonActive ==
  ASSUME NEW s \in Site, NEW p \in Players(s), NEW m \in Mappings(s),
         playerReason(s, p) = "active", s.mappings[m].name = s.players[p]
  PROVE  Kept(s, p, m)
<1> DEFINE rows == NamedMappings(s, s.players[p])
<1>1. m \in rows /\ rows \subseteq Mapping
  BY DEF NamedMappings, Mappings
<1>2. /\ NamedPlayers(s, s.players[p]) = {p} /\ Cardinality(rows) = 1
      /\ s.mappings[CHOOSE k \in rows : TRUE].uuid # Malformed
      /\ Holders(s, s.mappings[CHOOSE k \in rows : TRUE].uuid) = rows
  BY DEF playerReason
<1>3. IsFiniteSet(rows)
  BY <1>1, FS_Subset, MigrationAssumption
<1>4. rows = {m}
  <2>1. PICK k : rows = {k}
    BY <1>2, <1>3, FS_Singleton
  <2> QED
    BY <1>1, <2>1
<1>5. (CHOOSE k \in rows : TRUE) = m
  BY <1>4
<1>6. s.mappings[m] \in MappingRow
  BY DEF Mappings, Site
<1>7. s.mappings[m].uuid # Malformed /\ Holders(s, s.mappings[m].uuid) = {m}
  BY <1>2, <1>4, <1>5
<1> QED
  BY <1>2, <1>4, <1>6, <1>7 DEF Kept, MappingRow

\* A player without a legacy row has its name alone, too.
LEMMA MissingNamed ==
  ASSUME NEW s \in Site, NEW p \in Missing(s)
  PROVE  p \in Players(s) /\ NamedPlayers(s, s.players[p]) = {p} /\ playerReason(s, p) # "active"
BY DEF Missing, playerReason

\* An active action gives a player the UUID made of its name, which nobody else has, or its own.
Generated(s, a) ==
  /\ a.player \in Missing(s) /\ GeneratedFree(s, a.player)
  /\ a = [state |-> "active", player |-> a.player, uuid |-> Offline[s.players[a.player]],
          mapping |-> None]
Given(s, a) ==
  /\ Kept(s, a.player, a.mapping) /\ playerReason(s, a.player) = "active"
  /\ a = [state |-> "active", player |-> a.player, uuid |-> s.mappings[a.mapping].uuid,
          mapping |-> a.mapping]

LEMMA ActiveIs ==
  ASSUME NEW s \in Site, NEW a \in ActiveActions(s)
  PROVE  Generated(s, a) \/ Given(s, a)
<1>1. ASSUME NEW p \in Missing(s), GeneratedFree(s, p),
             a = [state |-> "active", player |-> p, uuid |-> Offline[s.players[p]], mapping |-> None]
      PROVE  Generated(s, a)
  BY <1>1 DEF Generated
<1>2. ASSUME NEW p \in Players(s), NEW m \in Mappings(s), playerReason(s, p) = "active",
             s.mappings[m].name = s.players[p],
             a = [state |-> "active", player |-> p, uuid |-> s.mappings[m].uuid, mapping |-> m]
      PROVE  Given(s, a)
  BY <1>2, ReasonActive DEF Given
<1> QED
  BY <1>1, <1>2 DEF ActiveActions

\* What is known of every active action, whichever it is.
LEMMA ActiveHas ==
  ASSUME NEW s \in Site, NEW a \in ActiveActions(s)
  PROVE  /\ a.state = "active" /\ a.player \in Players(s) /\ a.uuid \in Uuid
         /\ Holders(s, a.uuid) = IF a.mapping = None THEN {} ELSE {a.mapping}
<1>0. \A p \in Players(s) : p \in Pid /\ s.players[p] \in Name
  BY DEF Players, Site
<1>1. CASE Generated(s, a)
  <2>1. a.player \in Players(s) /\ a.uuid = Offline[s.players[a.player]] /\ a.mapping = None
        /\ a.state = "active"
    BY <1>1 DEF Generated, Missing
  <2>2. Holders(s, a.uuid) = {}
    BY <1>1, <2>1 DEF Generated, GeneratedFree
  <2> QED
    BY <1>0, <2>1, <2>2, MigrationAssumption
<1>2. CASE Given(s, a)
  <2>1. a.mapping \in Mapping /\ a.mapping # None
    BY <1>2, MigrationAssumption DEF Given, Kept, Mappings
  <2> QED
    BY <1>2, <2>1 DEF Given, Kept
<1> QED
  BY <1>1, <1>2, ActiveIs

\* Two active actions are of two players, UUIDs and legacy rows.
LEMMA ActiveApart ==
  ASSUME NEW s \in Site, NEW a \in ActiveActions(s), NEW b \in ActiveActions(s), a # b
  PROVE  a.player # b.player /\ a.uuid # b.uuid /\ (a.mapping # None => a.mapping # b.mapping)
<1>1. CASE Generated(s, a) /\ Generated(s, b)
  <2>1. a.player # b.player
    BY <1>1 DEF Generated
  <2> QED
    BY <1>1, <2>1 DEF Generated, GeneratedFree
<1>2. CASE Given(s, a) /\ Given(s, b)
  <2>1. a.mapping = b.mapping => a.player = b.player
    BY <1>2 DEF Given, Kept, NamedMappings, NamedPlayers
  <2>2. a.player = b.player => a.mapping = b.mapping
    BY <1>2 DEF Given, Kept
  <2>3. a.uuid = b.uuid => a.mapping = b.mapping
    BY <1>2 DEF Given, Kept
  <2>4. ~(a.player = b.player /\ a.mapping = b.mapping)
    BY <1>2 DEF Given
  <2> QED
    BY <2>1, <2>2, <2>3, <2>4
<1>3. ASSUME NEW c \in ActiveActions(s), NEW d \in ActiveActions(s), Generated(s, c), Given(s, d)
      PROVE  c.player # d.player /\ c.uuid # d.uuid /\ c.mapping # d.mapping
  <2>1. c.mapping = None /\ d.mapping # None
    BY <1>3, MigrationAssumption DEF Generated, Given, Kept, Mappings
  <2>2. c.player # d.player
    BY <1>3, MissingNamed DEF Generated, Given
  <2> QED
    BY <2>1, <2>2, ActiveHas
<1> QED
  BY <1>1, <1>2, <1>3, ActiveIs

\* A blocked action has no UUID, a reserved one the UUID of its row, which no active action has
\* and no other row stands for.
LEMMA OthersHave ==
  ASSUME NEW s \in Site
  PROVE  /\ \A a \in BlockedActions(s) :
              /\ a.player \in Players(s)
              /\ a = [state |-> "blocked", player |-> a.player, uuid |-> None, mapping |-> None]
              /\ \A b \in ActiveActions(s) : b.player # a.player
         /\ \A a \in ReservedActions(s) :
              /\ a.state = "reserved" /\ a.player = None
              /\ a.mapping \in Mappings(s) /\ a.uuid = s.mappings[a.mapping].uuid
              /\ \A b \in ActiveActions(s) : b.uuid # a.uuid
              /\ \A j \in Holders(s, a.uuid) : a.mapping <= j
<1>1. ASSUME NEW a \in BlockedActions(s)
      PROVE  /\ a.player \in Players(s)
             /\ a = [state |-> "blocked", player |-> a.player, uuid |-> None, mapping |-> None]
             /\ \A b \in ActiveActions(s) : b.player # a.player
  BY <1>1 DEF BlockedActions
<1>2. ASSUME NEW a \in ReservedActions(s)
      PROVE  /\ a.state = "reserved" /\ a.player = None
             /\ a.mapping \in Mappings(s) /\ a.uuid = s.mappings[a.mapping].uuid
             /\ \A b \in ActiveActions(s) : b.uuid # a.uuid
             /\ \A j \in Holders(s, a.uuid) : a.mapping <= j
  BY <1>2 DEF ReservedActions
<1> QED
  BY <1>1, <1>2

\* Every player is decided once: it is active or else blocked.
LEMMA EveryPlayerOnce ==
  ASSUME NEW s \in Site, NEW p \in Players(s)
  PROVE  Cardinality({a \in Build(s) : a.player = p}) = 1
<1>1. p # None
  BY MigrationAssumption DEF Players, Site
<1>2. \A a \in ReservedActions(s) : a.player # p
  BY <1>1, OthersHave
<1>3. ASSUME NEW a \in Build(s), NEW b \in Build(s), a.player = p, b.player = p
      PROVE  a = b
  <2>1. /\ a \in ActiveActions(s) \/ a \in BlockedActions(s)
        /\ b \in ActiveActions(s) \/ b \in BlockedActions(s)
    BY <1>2, <1>3 DEF Build
  <2>2. CASE a \in ActiveActions(s) /\ b \in ActiveActions(s)
    BY <1>3, <2>2, ActiveApart
  <2>3. CASE a \in BlockedActions(s) /\ b \in BlockedActions(s)
    BY <1>3, <2>3, OthersHave
  <2>4. ~(a \in ActiveActions(s) /\ b \in BlockedActions(s))
        /\ ~(b \in ActiveActions(s) /\ a \in BlockedActions(s))
    BY <1>3, OthersHave
  <2> QED
    BY <2>1, <2>2, <2>3, <2>4
<1>4. \E a \in Build(s) : a.player = p
  <2>1. CASE \E a \in ActiveActions(s) : a.player = p
    BY <2>1 DEF Build
  <2>2. CASE \A a \in ActiveActions(s) : a.player # p
    <3>1. [state |-> "blocked", player |-> p, uuid |-> None, mapping |-> None] \in BlockedActions(s)
      BY <2>2 DEF BlockedActions
    <3> QED
      BY <3>1 DEF Build
  <2> QED
    BY <2>1, <2>2
<1>5. PICK a \in Build(s) : a.player = p
  BY <1>4
<1>6. {b \in Build(s) : b.player = p} = {a}
  BY <1>3, <1>5
<1> QED
  BY <1>6, FS_Singleton

\* Every well-formed legacy UUID stays: with a player, or reserved by the first row that has it.
LEMMA EveryUuidStays ==
  ASSUME NEW s \in Site, NEW m \in Mappings(s), s.mappings[m].uuid # Malformed
  PROVE  \E a \in Build(s) : a.uuid = s.mappings[m].uuid
<1> DEFINE x == s.mappings[m].uuid
<1>1. CASE \E a \in ActiveActions(s) : a.uuid = x
  BY <1>1 DEF Build
<1>2. CASE \A a \in ActiveActions(s) : a.uuid # x
  <2>1. Holders(s, x) \subseteq Mapping /\ m \in Holders(s, x)
    BY DEF Holders, Mappings
  <2>2. PICK k \in Holders(s, x) : \A j \in Holders(s, x) : k <= j
    BY <2>1, FirstRow
  <2>3. k \in Mappings(s) /\ s.mappings[k].uuid = x
    BY DEF Holders
  <2> DEFINE kept == [state |-> "reserved", player |-> None, uuid |-> s.mappings[k].uuid, mapping |-> k]
  <2>4. kept \in ReservedActions(s)
    BY <1>2, <2>2, <2>3 DEF ReservedActions
  <2> QED
    BY <2>3, <2>4 DEF Build
<1> QED
  BY <1>1, <1>2

\* No two actions have one UUID or one legacy row.
LEMMA ActionsApart ==
  ASSUME NEW s \in Site, NEW a \in Build(s), NEW b \in Build(s), a # b
  PROVE  (a.uuid # None => a.uuid # b.uuid) /\ (a.mapping # None => a.mapping # b.mapping)
<1>1. ASSUME NEW c \in BlockedActions(s) PROVE c.uuid = None /\ c.mapping = None
  BY OthersHave
<1>2. CASE a \in BlockedActions(s) \/ b \in BlockedActions(s)
  BY <1>1, <1>2
<1>3. CASE a \in ActiveActions(s) /\ b \in ActiveActions(s)
  BY <1>3, ActiveApart
<1>4. CASE a \in ReservedActions(s) /\ b \in ReservedActions(s)
  <2>1. /\ a.mapping \in Mappings(s) /\ a.uuid = s.mappings[a.mapping].uuid
        /\ b.mapping \in Mappings(s) /\ b.uuid = s.mappings[b.mapping].uuid
        /\ \A j \in Holders(s, a.uuid) : a.mapping <= j
        /\ \A j \in Holders(s, b.uuid) : b.mapping <= j
    BY <1>4, OthersHave
  <2>2. a.mapping # b.mapping
    BY <1>4 DEF ReservedActions
  <2>3. a.mapping \in Nat /\ b.mapping \in Nat
    BY <2>1, MigrationAssumption DEF Mappings
  <2>4. ASSUME a.uuid = b.uuid PROVE FALSE
    <3>1. a.mapping \in Holders(s, b.uuid) /\ b.mapping \in Holders(s, a.uuid)
      BY <2>1, <2>4 DEF Holders
    <3> QED
      BY <2>1, <2>2, <2>3, <3>1
  <2> QED
    BY <2>2, <2>4
<1>5. ASSUME NEW c \in ActiveActions(s), NEW d \in ReservedActions(s)
      PROVE  c.uuid # d.uuid /\ c.mapping # d.mapping
  <2>1. c.uuid # d.uuid /\ d.mapping \in Mappings(s) /\ d.uuid = s.mappings[d.mapping].uuid
    BY OthersHave
  <2>2. d.mapping # None
    BY <2>1, MigrationAssumption DEF Mappings
  <2>3. c.mapping # None => c.mapping \in Holders(s, c.uuid)
    BY ActiveHas
  <2>4. c.mapping # None => s.mappings[c.mapping].uuid = c.uuid
    BY <2>3 DEF Holders
  <2> QED
    BY <2>1, <2>2, <2>4
<1> QED
  BY <1>2, <1>3, <1>4, <1>5 DEF Build

\* A legacy UUID that a player is given is that of the one row with the player's name.
LEMMA LegacyUuidsKeepNames ==
  ASSUME NEW s \in Site, NEW a \in Build(s), NEW m \in Mappings(s),
         a.state = "active", s.mappings[m].uuid = a.uuid
  PROVE  a.mapping = m /\ s.mappings[m].name = s.players[a.player]
<1>1. a \in ActiveActions(s)
  BY OthersHave DEF Build
<1>2. m \in Holders(s, a.uuid)
  BY DEF Holders
<1>3. a.mapping = m
  BY <1>1, <1>2, ActiveHas
<1>4. m # None
  BY MigrationAssumption DEF Mappings
<1>5. Given(s, a)
  BY <1>1, <1>3, <1>4, ActiveIs DEF Generated
<1> QED
  BY <1>3, <1>5 DEF Given, Kept, NamedMappings

\* Whatever players and legacy rows the site has, the classification that a dry-run would make of
\* it decides every player once, keeps every well-formed legacy UUID once, and gives none to a
\* player of another name: plan.go:72-176.
THEOREM PlansKeepUuids == Spec => []PlanKeepsUuids
<1>1. Inv => PlanKeepsUuids
  <2> SUFFICES ASSUME site \in Site PROVE PlanKeepsUuids
    BY DEF Inv, TypeOK
  <2>1. \A p \in Players(site) : Cardinality({a \in Build(site) : a.player = p}) = 1
    BY EveryPlayerOnce
  <2>2. \A m \in Mappings(site) : site.mappings[m].uuid # Malformed =>
            \E a \in Build(site) : a.uuid = site.mappings[m].uuid
    BY EveryUuidStays
  <2>3. \A a, b \in Build(site) : a # b => /\ a.uuid # None => a.uuid # b.uuid
                                           /\ a.mapping # None => a.mapping # b.mapping
    BY ActionsApart
  <2>4. \A a \in Build(site), m \in Mappings(site) :
            a.state = "active" /\ site.mappings[m].uuid = a.uuid =>
                a.mapping = m /\ site.mappings[m].name = site.players[a.player]
    BY LegacyUuidsKeepNames
  <2> QED
    BY <2>1, <2>2, <2>3, <2>4 DEF PlanKeepsUuids
<1> QED
  BY <1>1, Invariance, PTL
================================================================================
