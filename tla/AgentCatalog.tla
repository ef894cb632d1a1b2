---------------------------- MODULE AgentCatalog ----------------------------
(***************************************************************************)
(* The agents of the backend: their records on disk (agents/agent_store.py, *)
(* with the older interface for custom agents that wraps it), the registry  *)
(* of adapters that runs are given to (main.py, agent_resolution.py         *)
(* sync_custom_agents), the handlers that change them                       *)
(* (handlers/agent_handlers.py), and the choice of an agent by capability.  *)
(* Left out: names, prompts, the shape of the API's answers; a record keeps *)
(* the fields that decide what an agent may do.                             *)
(***************************************************************************)
EXTENDS Naturals, FiniteSets, FiniteSetsExt, SequencesExt

CONSTANTS
    BuiltinIds, CustomIds,  \* ids of FACTORY_DEFAULTS, and others clients may choose, as they spell them
    Key,                    \* [id -> its name in the registry: stripped and in lower case]
    Place,                  \* [id -> place of its file in a listing]
    PrimaryId,              \* head-agent
    Protected,              \* primary, coder and review agent
    FactoryDeny,            \* [builtin -> its mandatory_deny]
    FactoryReadOnly,        \* builtins that are read-only
    DenyLists,              \* lists a patch may give
    ConfiguredDelegators,   \* settings.subrun_orchestrator_agent_ids
    MaxVersions             \* bound: of all records together

AgentIds == BuiltinIds \union CustomIds
AgentNames == {Key[i] : i \in AgentIds}

ASSUME AgentCatalogAssumption ==
    /\ PrimaryId \in Protected /\ Protected \subseteq BuiltinIds
    /\ BuiltinIds \cap CustomIds = {} /\ FactoryReadOnly \subseteq BuiltinIds
    /\ \A b \in BuiltinIds : Key[b] = b
    /\ Place \in [AgentIds -> Nat] /\ \A i, j \in AgentIds : Place[i] = Place[j] => i = j

-----------------------------------------------------------------------------
VARIABLES
    records,    \* [id -> record, or NoRecord]
    disabled,   \* the manifest's disabled_agents
    adapters,   \* agent_registry: [name -> adapter, or NoAdapter]
    synced,     \* custom_agent_ids
    delegators, \* custom_orchestrator_agent_ids
    laneIds,    \* SubrunLane._orchestrator_agent_ids
    serving,    \* the components are built
    drifted,    \* history: records changed since the registry was synced
    loosened    \* history: read-only builtins whose last change spelt the flag "false"
catalogVars == <<records, disabled, adapters, synced, delegators, laneIds, serving, drifted, loosened>>

Record(origin, enabled, deny, readOnly, flow, delegates, version) ==
    [origin |-> origin, enabled |-> enabled, deny |-> deny, readOnly |-> readOnly,
     flow |-> flow,             \* it has a custom_workflow
     delegates |-> delegates,   \* that allows subruns
     version |-> version]
NoRecord == Record("none", FALSE, {}, FALSE, FALSE, FALSE, 0)
Factory(b, enabled, version) ==
    Record("builtin", enabled, FactoryDeny[b], b \in FactoryReadOnly, FALSE, FALSE, version)
Exists(i) == records[i] # NoRecord

Adapter(rec, spawns, asks) == [rec |-> rec, spawns |-> spawns, asks |-> asks]
NoAdapter == Adapter(NoRecord, FALSE, FALSE)
Registered2(k) == adapters[k] # NoAdapter

(* _ensure_builtins: a missing file is written from the factory's defaults. *)
WithBuiltins(recs) ==
    [i \in AgentIds |-> IF i \in BuiltinIds /\ recs[i] = NoRecord
                        THEN Factory(i, i \notin disabled, 1) ELSE recs[i]]

(* sync_custom_agents: every enabled custom record gets a fresh adapter,
   which can ask for approvals but was not told how to spawn a subrun. Of
   records whose ids make the same name the last one listed bears it, and one
   whose id makes the name of a builtin takes the builtin's place. *)
Customs(recs) ==
    {i \in AgentIds : recs[i].origin = "custom" /\ recs[i].enabled /\ Key[i] \notin Protected}
Bears(i, recs) ==
    i \in Customs(recs) /\ \A j \in Customs(recs) : Key[j] = Key[i] => Place[j] <= Place[i]
Taken(k, recs) == \E i \in AgentIds : Key[i] = k /\ Bears(i, recs)
Bearer(k, recs) == recs[CHOOSE i \in AgentIds : Key[i] = k /\ Bears(i, recs)]
Synced(recs, old) ==
    [k \in AgentNames |->
        IF Taken(k, recs) THEN Adapter(Bearer(k, recs), FALSE, TRUE)
        ELSE IF k \in synced \/ old[k] = NoAdapter THEN NoAdapter
        ELSE Adapter(old[k].rec, old[k].spawns, TRUE)]
CustomNames(recs) == {Key[i] : i \in Customs(recs)}
Delegating(recs) == {Key[i] : i \in {j \in Customs(recs) : recs[j].flow /\ recs[j].delegates}}
Sync(recs) ==
    /\ adapters' = Synced(recs, adapters)
    /\ synced' = CustomNames(recs) /\ delegators' = Delegating(recs)
    /\ laneIds' = ConfiguredDelegators \union {PrimaryId} \union Delegating(recs)
    /\ drifted' = {}

-----------------------------------------------------------------------------
(* _build_runtime_components and _initialize_runtime_components: adapters of
   the enabled builtins, then of the custom agents, then the handlers of all.
   Without the primary agent the components cannot be built. *)
Built(recs) ==
    [k \in AgentNames |->
        IF Taken(k, recs) THEN Adapter(Bearer(k, recs), TRUE, TRUE)
        ELSE IF k \in BuiltinIds /\ recs[k].enabled THEN Adapter(recs[k], TRUE, TRUE) ELSE NoAdapter]
Boot(recs) ==
    /\ records' = recs
    /\ serving' = recs[PrimaryId].enabled
    /\ adapters' = IF serving' THEN Built(recs) ELSE [k \in AgentNames |-> NoAdapter]
    /\ synced' = IF serving' THEN CustomNames(recs) ELSE {}
    /\ delegators' = IF serving' THEN Delegating(recs) ELSE {}
    /\ laneIds' = IF serving' THEN ConfiguredDelegators \union {PrimaryId} \union Delegating(recs) ELSE {}
    /\ drifted' = {}

CatalogInit ==
    /\ disabled = {} /\ records = WithBuiltins([i \in AgentIds |-> NoRecord])
    /\ adapters = Built(records) /\ serving = TRUE
    /\ synced = {} /\ delegators = {} /\ laneIds = ConfiguredDelegators \union {PrimaryId}
    /\ drifted = {} /\ loosened = {}
RestartAgents == Boot(WithBuiltins(records)) /\ UNCHANGED <<disabled, loosened>>

WithinVersions(recs) == MapThenSumSet(LAMBDA j : recs[j].version, AgentIds) <= MaxVersions

\* A handler that changed the records syncs before it answers.
Commit(i, rec) ==
    /\ records' = [records EXCEPT ![i] = rec] /\ WithinVersions(records')
    /\ Sync(records') /\ UNCHANGED <<disabled, serving>>

(* create takes the id as it is spelt, and refuses one that is taken in that spelling. *)
CreateAgent(i) ==
    /\ serving /\ ~Exists(i) /\ UNCHANGED loosened
    /\ \E on, delegates \in BOOLEAN, deny \in DenyLists :
         Commit(i, Record("custom", on, deny, FALSE, TRUE, delegates, 1))

(* The read-only flag as a patch carries it in JSON: the floor sees that, and
   the record's model makes a truth value of it only afterwards. A string
   that spells a falsehood is true to the floor and false to the model. *)
RawFlags == {"true", "false", "spelt false"}
RawOf(flag) == IF flag THEN "true" ELSE "false"
Read(raw) == raw = "true"
LastSpelt(i, raw) ==
    loosened' = IF i \in FactoryReadOnly /\ raw = "spelt false" THEN loosened \union {i} ELSE loosened \ {i}

(* What the floor would be if it guarded the read-only flag alone. *)
FlooredFlagOnly(i, deny) == deny

(* _enforce_security_floor, for an id the factory knows. *)
Floored(i, deny) == IF i \in BuiltinIds THEN deny \union FactoryDeny[i] ELSE deny
FlooredFlag(i, raw) == IF i \in FactoryReadOnly /\ raw = "false" THEN "true" ELSE raw
\* An update changes any field but the id, the origin and the version.
Updated(i, enabled, deny, raw, flow, delegates) ==
    Record(records[i].origin, enabled, Floored(i, deny), Read(FlooredFlag(i, raw)), flow, delegates,
           records[i].version + 1)

\* The routes look for the name; a record with another spelling is out of their reach.
Reachable(i) == serving /\ Key[i] = i

PatchAgent(i) ==
    /\ Reachable(i) /\ Exists(i)
    /\ \E on \in BOOLEAN, raw \in RawFlags, deny \in DenyLists :
         /\ Commit(i, Updated(i, on, deny, raw, records[i].flow, records[i].delegates))
         /\ LastSpelt(i, raw)

(* The older interface: creating an agent whose name gives the id of any
   other agent updates that one. *)
UpsertAgent(i, base) ==
    /\ Reachable(i) /\ Registered2(base)
    /\ \E delegates \in BOOLEAN, raw \in {RawOf(records[i].readOnly)} :
         /\ IF Exists(i) THEN Commit(i, Updated(i, TRUE, records[i].deny, raw, TRUE, delegates))
            ELSE Commit(i, Record("custom", TRUE, {}, FALSE, TRUE, delegates, 1))
         /\ LastSpelt(i, raw)

DeleteAgent(i) ==
    /\ Reachable(i) /\ records[i].origin = "custom"
    /\ Commit(i, NoRecord) /\ UNCHANGED loosened
(* reset: the factory's record, enabled as it was. *)
AfterReset(i) == Factory(i, Exists(i) => records[i].enabled, records[i].version + 1)
ResetAgent(i) == serving /\ i \in BuiltinIds /\ Commit(i, AfterReset(i)) /\ LastSpelt(i, "true")

(* agents.config.update and agents.config.reset change a record, which they
   find by its id as it is spelt, and leave the registry as it is. *)
ConfigureAgent(i) ==
    /\ serving /\ Exists(i)
    /\ \/ i \in BuiltinIds /\ records' = [records EXCEPT ![i] = AfterReset(i)] /\ LastSpelt(i, "true")
       \/ \E raw \in RawFlags, deny \in DenyLists :
            /\ records' = [records EXCEPT ![i] =
                   Updated(i, records[i].enabled, deny, raw, records[i].flow, records[i].delegates)]
            /\ LastSpelt(i, raw)
    /\ WithinVersions(records')
    /\ drifted' = drifted \union {i}
    /\ UNCHANGED <<disabled, adapters, synced, delegators, laneIds, serving>>

UpdateManifest(ids) ==
    /\ serving /\ disabled' = ids
    /\ UNCHANGED <<records, adapters, synced, delegators, laneIds, serving, drifted, loosened>>

(* resolve_agent and every listing sync first. *)
ResolveAgent == serving /\ Sync(records) /\ UNCHANGED <<records, disabled, serving, loosened>>

CatalogNext ==
    \/ RestartAgents \/ ResolveAgent
    \/ \E i \in CustomIds : CreateAgent(i)
    \/ \E i \in AgentIds : PatchAgent(i) \/ DeleteAgent(i) \/ ResetAgent(i) \/ ConfigureAgent(i) \/ UpsertAgent(i, PrimaryId)
    \/ \E ids \in {{}, BuiltinIds \ {PrimaryId}} : UpdateManifest(ids)
CatalogSpec == CatalogInit /\ [][CatalogNext]_catalogVars

-----------------------------------------------------------------------------
(* capability_route_agent.                                                 *)

CONSTANTS
    Topics, CapsOfTopic,    \* what messages are about, and what that requires
    Delegable,              \* capabilities that may send a message elsewhere
    Specialties,            \* the tie-breaking capabilities, in order
    SpecialistOf,           \* [specialty -> agent]
    AgentCaps,              \* [agent -> capabilities of its factory default or record]
    Registries              \* the orders in which agents may be registered

RoutedAgents == DOMAIN AgentCaps

\* The primary agent is always registered: RegistrySound.
ASSUME RoutingAssumption ==
    /\ IsFiniteSet(UNION {AgentCaps[a] : a \in RoutedAgents})
    /\ PrimaryId \in RoutedAgents
    /\ \A r \in Registries : r \in Seq(RoutedAgents) /\ PrimaryId \in ToSet(r)
    /\ Specialties \in Seq(DOMAIN SpecialistOf)

VARIABLE inquiry    \* [asked, preset, topics, mixed, registry]
inquiryVars == <<inquiry>>

General == {"general"}
Required(q) ==
    LET caps == UNION {CapsOfTopic[t] : t \in q.topics} \union (IF q.preset = "review" THEN CapsOfTopic["review"] ELSE {})
    IN IF caps = {} THEN General ELSE caps
Covered(a, q) == Cardinality(AgentCaps[a] \cap Required(q))
\* The earlier a specialty is listed, the more it counts.
Favoured(a, q) ==
    IF \E n \in DOMAIN Specialties : SpecialistOf[Specialties[n]] = a /\ Specialties[n] \in Required(q)
    THEN 1 + Len(Specialties) - (CHOOSE n \in DOMAIN Specialties : SpecialistOf[Specialties[n]] = a)
    ELSE 0

Ahead(a, b, q) ==
    \/ Covered(a, q) > Covered(b, q)
    \/ Covered(a, q) = Covered(b, q) /\ Favoured(a, q) > Favoured(b, q)
    \/ Covered(a, q) = Covered(b, q) /\ Favoured(a, q) = Favoured(b, q) /\ a = PrimaryId /\ b # PrimaryId
\* The sort is stable: the first of those that no one is ahead of.
Leading(q) == {n \in DOMAIN q.registry : \A m \in DOMAIN q.registry : ~Ahead(q.registry[m], q.registry[n], q)}
Foremost2(q) == q.registry[CHOOSE n \in Leading(q) : \A m \in Leading(q) : n <= m]

Stays(q) ==
    \/ "review_analysis" \in Required(q) /\ q.mixed
    \/ Delegable \cap Required(q) = {}
    \/ Covered(Foremost2(q), q) = 0
RouteAgent(q) ==
    IF q.asked # PrimaryId THEN q.asked
    ELSE IF q.preset = "review" /\ "review-agent" \in ToSet(q.registry) THEN "review-agent"
    ELSE IF Stays(q) THEN PrimaryId ELSE Foremost2(q)

NoInquiry == [asked |-> PrimaryId, preset |-> "none", topics |-> {}, mixed |-> FALSE, registry |-> <<PrimaryId>>]
InquiryInit == inquiry = NoInquiry
InquiryNext ==
    /\ inquiry = NoInquiry
    /\ \E asked \in {PrimaryId, "review-agent"}, preset \in {"review", "none"}, topics \in SUBSET Topics,
          mixed \in BOOLEAN, registry \in Registries :
         inquiry' = [asked |-> asked, preset |-> preset, topics |-> topics, mixed |-> mixed, registry |-> registry]
InquirySpec == InquiryInit /\ [][InquiryNext]_inquiryVars

-----------------------------------------------------------------------------
AgentCatalogTypeOK ==
    /\ \A i \in AgentIds : records[i].version \in Nat
    /\ synced \subseteq AgentNames \ Protected /\ delegators \subseteq synced
    /\ disabled \subseteq BuiltinIds /\ loosened \subseteq FactoryReadOnly

(* A builtin keeps its origin and the tools its factory default denies
   whatever patches, upserts, resets and restarts come; it is never deleted.
   It stays read-only unless its last change spelt the flag as a string
   that the record's model reads as false (agent_store.py:200). *)
FloorKept ==
    \A b \in BuiltinIds :
        /\ records[b].origin = "builtin" /\ FactoryDeny[b] \subseteq records[b].deny
        /\ b \in FactoryReadOnly => records[b].readOnly \/ b \in loosened

(* While the backend serves, the agent of a name is the last listed of the
   enabled custom records that make it, as that record is unless only its
   configuration was changed since the last lookup; a name that no such
   record makes is a builtin's, which never runs ahead of its record. The
   lane lets exactly those names delegate that the settings or one of their
   records allow, every agent can ask for an approval, and the primary
   agent is there. *)
RegistrySound ==
    serving =>
        /\ \A i \in AgentIds \ drifted : Bears(i, records) => adapters[Key[i]].rec = records[i]
        /\ synced = CustomNames(records)
        /\ \A k \in AgentNames \ synced : Registered2(k) => k \in BuiltinIds /\ adapters[k].rec.version <= records[k].version
        /\ laneIds = ConfiguredDelegators \union {PrimaryId} \union Delegating(records)
        /\ \A k \in AgentNames : Registered2(k) => adapters[k].asks
        /\ Registered2(PrimaryId)

(* A message goes to an agent that is registered unless another was asked
   for, and if it leaves the primary agent for a capability, nobody there
   offers more of what the message requires. *)
RouteSound ==
    \A to \in {RouteAgent(inquiry)} :
        /\ inquiry.asked = PrimaryId => to \in ToSet(inquiry.registry)
        /\ (inquiry.asked = PrimaryId /\ inquiry.preset = "none" /\ to # PrimaryId) =>
             /\ Covered(to, inquiry) > 0 /\ \A a \in ToSet(inquiry.registry) : Covered(a, inquiry) <= Covered(to, inquiry)

(* The floors, the registry and the routing together. *)
AgentCatalogSound == AgentCatalogTypeOK /\ FloorKept /\ RegistrySound /\ RouteSound

(* The record of an agent is what the agent that runs is made of
   (agents/unified_agent_record.py:89, "This is the single source of truth"). *)
RecordIsTruth ==
    \A k \in AgentNames : Registered2(k) => \E i \in AgentIds : Key[i] = k /\ adapters[k].rec = records[i]
=============================================================================
