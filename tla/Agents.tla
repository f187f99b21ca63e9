------------------------------- MODULE Agents -------------------------------
(***************************************************************************)
(* discovery/registry.py and discovery/routing.py: the agents a user       *)
(* created, live or retired under their names, and the route a message     *)
(* takes among the agents a host had listed.  A host lists, routes and     *)
(* invokes in steps of its own, and the registry may change between them.  *)
(***************************************************************************)
EXTENDS FiniteSets

CONSTANTS
    AgentName,      \* names users write
    LegalName,      \* those AGENT_NAME_PATTERN matches
    Trigger,        \* texts users give as triggers
    BlankTrigger,   \* those that strip() leaves empty
    AgentSpec,      \* the specs users make
    NoAgent         \* None, or an UnknownAgentError

ASSUME AgentAssumption ==
    /\ LegalName \subseteq AgentName
    /\ BlankTrigger \subseteq Trigger
    /\ AgentSpec \subseteq [name : AgentName, triggers : SUBSET Trigger]
    /\ NoAgent \notin AgentSpec

VARIABLES
    live,       \* _live
    retired,    \* _retired
    roster,     \* the agents the host listed last
    decision    \* the RouteResult it got last, with the message and its roster

agentsVars == <<live, retired, roster, decision>>

\* A dict, with a key more or a key less.
With(dict, spec) ==
    [name \in DOMAIN dict \cup {spec.name} |-> IF name = spec.name THEN spec ELSE dict[name]]
Without(dict, name) == [n \in DOMAIN dict \ {name} |-> dict[n]]

Known == DOMAIN live \cup DOMAIN retired

AgentsInit ==
    /\ live = [n \in {} |-> NoAgent]
    /\ retired = [n \in {} |-> NoAgent]
    /\ roster = {}
    /\ decision = [decision |-> "default", candidates |-> {}, matched_triggers |-> {},
                   message |-> {}, among |-> {}]

-----------------------------------------------------------------------------
(* The registry. *)

\* Fault: a name is taken by live agents alone.
MayCreateOverRetired(spec) == spec.name \in LegalName /\ spec.name \notin DOMAIN live

\* Fault: any name is taken as it comes.
MayCreateAnyName(spec) == spec.name \notin Known

\* create, unless it raises InvalidAgentName or DuplicateAgentError.
MayCreate(spec) == spec.name \in LegalName /\ spec.name \notin Known

Create(spec) ==
    /\ MayCreate(spec)
    /\ live' = With(live, spec)
    /\ UNCHANGED <<retired, roster, decision>>

Retire(name) ==
    /\ name \in DOMAIN live
    /\ retired' = With(retired, live[name])
    /\ live' = Without(live, name)
    /\ UNCHANGED <<roster, decision>>

Restore(name) ==
    /\ name \in DOMAIN retired
    /\ live' = With(live, retired[name])
    /\ retired' = Without(retired, name)
    /\ UNCHANGED <<roster, decision>>

Get(name, include_retired) ==
    IF name \in DOMAIN live THEN live[name]
    ELSE IF include_retired /\ name \in DOMAIN retired THEN retired[name]
    ELSE NoAgent

Exists(name, include_retired) ==
    name \in DOMAIN live \/ (include_retired /\ name \in DOMAIN retired)

IsRetired(name) == name \in DOMAIN retired

\* list; its order by name is left out.
ListAgents(include_retired) ==
    {live[n] : n \in DOMAIN live}
        \cup (IF include_retired THEN {retired[n] : n \in DOMAIN retired} ELSE {})

HostLists(include_retired) ==
    /\ roster' = ListAgents(include_retired)
    /\ UNCHANGED <<live, retired, decision>>

-----------------------------------------------------------------------------
(* Routing.  A message is the set of triggers that occur in it. *)

TriggerHits(message, spec) == (spec.triggers \ BlankTrigger) \cap message

Matched(message, agents) == {s \in agents : TriggerHits(message, s) # {}}

\* Fault: one of several that match is picked.
DecisionGuessed(matched) == IF matched = {} THEN "default" ELSE "matched"

RouteDecision(matched) ==
    IF matched = {} THEN "default" ELSE IF Cardinality(matched) = 1 THEN "matched" ELSE "ambiguous"

Route(message) ==
    LET matched == Matched(message, roster)
    IN  /\ decision' = [decision |-> RouteDecision(matched), candidates |-> matched,
                        matched_triggers |-> UNION {TriggerHits(message, s) : s \in matched},
                        message |-> message, among |-> roster]
        /\ UNCHANGED <<live, retired, roster>>

\* RouteResult.selected
Selected ==
    IF decision.decision = "matched" /\ decision.candidates # {}
    THEN CHOOSE s \in decision.candidates : TRUE
    ELSE NoAgent

AgentsNext ==
    \/ \E spec \in AgentSpec : Create(spec)
    \/ \E name \in AgentName : Retire(name) \/ Restore(name)
    \/ \E include_retired \in BOOLEAN : HostLists(include_retired)
    \/ \E message \in SUBSET Trigger : Route(message)

AgentsSpec == AgentsInit /\ [][AgentsNext]_agentsVars

-----------------------------------------------------------------------------
(* Properties. *)

RouteAnswer ==
    [decision : {"default", "matched", "ambiguous"}, candidates : SUBSET AgentSpec,
     matched_triggers : SUBSET Trigger, message : SUBSET Trigger, among : SUBSET AgentSpec]

AgentsTypeOK ==
    /\ \E names \in SUBSET LegalName : live \in [names -> AgentSpec]
    /\ \E names \in SUBSET LegalName : retired \in [names -> AgentSpec]
    /\ roster \subseteq AgentSpec
    /\ decision \in RouteAnswer

\* A name, once given, means one agent for good: no order of retiring, creating and
\* restoring puts another spec under it or loses it (registry.py, DuplicateAgentError).
NameMeansOneAgent ==
    [][\A name \in Known :
        /\ Exists(name, TRUE)'
        /\ Get(name, TRUE)' = Get(name, TRUE)]_agentsVars

\* However late a host acts on a route, what it selected is the agent the registry has
\* under that name, live or retired, and no other agent it had listed could have
\* answered the message (routing.py: a route never guesses).
RouteStillHolds ==
    /\ \A s \in decision.candidates : Get(s.name, TRUE) = s
    /\ Selected # NoAgent =>
        \A s \in decision.among \ {Selected} : TriggerHits(decision.message, s) = {}
    /\ decision.decision = "default" =>
        \A s \in decision.among : TriggerHits(decision.message, s) = {}
=============================================================================
